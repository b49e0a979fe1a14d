---------------------------- MODULE GraphProofs ----------------------------
(***************************************************************************)
(* Graph, for any number of nodes, edges and tags, with transactions that  *)
(* throw half way, commits that fail and restarts at any point: the tables *)
(* hold the committed objects, every edge is in both its indices, and an   *)
(* iterator shows what it should, until harmed says that an unlogged word  *)
(* of an older object was lost or half an operation was committed.         *)
(***************************************************************************)
EXTENDS Graph, FiniteSetTheorems, SequenceTheorems, WellFoundedInduction, TLAPS

-----------------------------------------------------------------------------
(***************************************************************************)
(* Lists whose elements are distinct.                                      *)
(***************************************************************************)
\* x comes before y in a list.
Precedes(s, x, y) == \E i, j \in DOMAIN s : i < j /\ s[i] = x /\ s[j] = y

\* A sequence, its domain and its elements.
LEMMA SeqFacts ==
  ASSUME NEW S, NEW s \in Seq(S)
  PROVE  /\ Len(s) \in Nat /\ DOMAIN s = 1 .. Len(s)
         /\ \A i \in 1 .. Len(s) : s[i] \in S
         /\ Range(s) \subseteq S
         /\ s = <<>> <=> Len(s) = 0
         /\ \A x : x \in Range(s) <=> \E i \in 1 .. Len(s) : s[i] = x
  <1>1. Len(s) \in Nat /\ DOMAIN s = 1 .. Len(s) /\ s \in [1 .. Len(s) -> S]
    BY LenProperties
  <1>2. s = <<>> <=> Len(s) = 0
    BY EmptySeq
  <1>3. \A x : x \in Range(s) <=> \E i \in 1 .. Len(s) : s[i] = x
    BY <1>1 DEF Range
  <1>4. QED  BY <1>1, <1>2, <1>3

\* What comes before what in a list without repetition.
LEMMA PrecedesFacts ==
  ASSUME NEW S, NEW s \in Seq(S), IsInjective(s), NEW x, NEW y, Precedes(s, x, y)
  PROVE  /\ x \in Range(s) /\ y \in Range(s) /\ x # y
         /\ ~Precedes(s, y, x)
  <1>1. DOMAIN s = 1 .. Len(s) /\ Len(s) \in Nat
    BY SeqFacts
  <1>2. PICK i \in DOMAIN s, j \in DOMAIN s : i < j /\ s[i] = x /\ s[j] = y
    BY DEF Precedes
  <1>3. \A a, b \in DOMAIN s : s[a] = s[b] => a = b
    BY DEF IsInjective
  <1>4. x \in Range(s) /\ y \in Range(s)
    BY <1>2 DEF Range
  <1>5. x # y
    BY <1>1, <1>2, <1>3
  <1>6. ~Precedes(s, y, x)
    <2>1. SUFFICES ASSUME NEW k \in DOMAIN s, NEW l \in DOMAIN s, k < l, s[k] = y, s[l] = x
                   PROVE  FALSE
      BY DEF Precedes
    <2>2. k = j /\ l = i
      BY <1>2, <1>3, <2>1
    <2>3. QED  BY <1>1, <1>2, <2>1, <2>2
  <1>7. QED  BY <1>4, <1>5, <1>6

\* A list with one more element in front, as add() of List.h makes it.
LEMMA ConsSeq ==
  ASSUME NEW S, NEW x \in S, NEW s \in Seq(S)
  PROVE  /\ <<x>> \o s \in Seq(S) /\ Len(<<x>> \o s) = Len(s) + 1
         /\ (<<x>> \o s)[1] = x
         /\ \A i \in 1 .. Len(s) : (<<x>> \o s)[i + 1] = s[i]
         /\ Range(<<x>> \o s) = {x} \cup Range(s)
  <1> DEFINE c == <<x>> \o s
  <1>1. <<x>> \in Seq(S) /\ Len(<<x>>) = 1 /\ <<x>>[1] = x
    OBVIOUS
  <1>2. Len(s) \in Nat /\ DOMAIN s = 1 .. Len(s)
    BY SeqFacts
  <1>3. /\ c \in Seq(S) /\ Len(c) = 1 + Len(s)
        /\ \A i \in 1 .. 1 + Len(s) : c[i] = IF i <= 1 THEN <<x>>[i] ELSE s[i - 1]
    BY <1>1, ConcatProperties
  <1>4. c[1] = x
    BY <1>1, <1>2, <1>3
  <1>5. ASSUME NEW i \in 1 .. Len(s) PROVE c[i + 1] = s[i]
    <2>1. i + 1 \in 1 .. 1 + Len(s) /\ ~(i + 1 <= 1) /\ (i + 1) - 1 = i
      BY <1>2
    <2>2. QED  BY <1>3, <2>1
  <1>6. DOMAIN c = 1 .. Len(c)
    BY <1>3, SeqFacts
  <1>7. Range(c) = {x} \cup Range(s)
    <2>1. ASSUME NEW y \in Range(c) PROVE y \in {x} \cup Range(s)
      <3>1. PICK i \in 1 .. 1 + Len(s) : c[i] = y
        BY <1>3, <1>6 DEF Range
      <3>2. CASE i = 1  BY <1>4, <3>1, <3>2
      <3>3. CASE i # 1
        <4>1. i - 1 \in 1 .. Len(s) /\ ~(i <= 1)
          BY <1>2, <3>1, <3>3
        <4>2. y = s[i - 1]
          BY <1>3, <3>1, <4>1
        <4>3. QED  BY <1>2, <4>1, <4>2 DEF Range
      <3>4. QED  BY <3>2, <3>3
    <2>2. x \in Range(c)
      <3>1. 1 \in DOMAIN c
        BY <1>2, <1>3, <1>6
      <3>2. QED  BY <1>4, <3>1 DEF Range
    <2>3. ASSUME NEW y \in Range(s) PROVE y \in Range(c)
      <3>1. PICK i \in 1 .. Len(s) : s[i] = y
        BY <1>2 DEF Range
      <3>2. i + 1 \in DOMAIN c /\ c[i + 1] = y
        BY <1>2, <1>3, <1>5, <1>6, <3>1
      <3>3. QED  BY <3>2 DEF Range
    <2>4. QED  BY <2>1, <2>2, <2>3
  <1>8. QED  BY <1>2, <1>3, <1>4, <1>5, <1>7

\* The new head precedes everything; the rest keeps its order.
LEMMA ConsOrder ==
  ASSUME NEW S, NEW x \in S, NEW s \in Seq(S), IsInjective(s), x \notin Range(s)
  PROVE  /\ IsInjective(<<x>> \o s)
         /\ \A a, b : Precedes(<<x>> \o s, a, b) <=> Precedes(s, a, b) \/ (a = x /\ b \in Range(s))
  <1> DEFINE c == <<x>> \o s
  <1>1. /\ Len(c) = Len(s) + 1 /\ c[1] = x /\ \A i \in 1 .. Len(s) : c[i + 1] = s[i]
        /\ c \in Seq(S)
    BY ConsSeq
  <1>2. DOMAIN c = 1 .. Len(s) + 1 /\ DOMAIN s = 1 .. Len(s) /\ Len(s) \in Nat
    BY <1>1, SeqFacts
  <1> HIDE DEF c
  <1>3. \A i \in DOMAIN c : i # 1 => i - 1 \in DOMAIN s /\ c[i] = s[i - 1] /\ s[i - 1] \in Range(s)
    <2>1. SUFFICES ASSUME NEW i \in DOMAIN c, i # 1
                   PROVE  i - 1 \in DOMAIN s /\ c[i] = s[i - 1] /\ s[i - 1] \in Range(s)
      OBVIOUS
    <2>2. i - 1 \in 1 .. Len(s) /\ (i - 1) + 1 = i
      BY <1>2, <2>1
    <2>3. QED  BY <1>1, <1>2, <2>2 DEF Range
  <1>4. IsInjective(c)
    <2>1. SUFFICES ASSUME NEW i \in DOMAIN c, NEW j \in DOMAIN c, c[i] = c[j] PROVE i = j
      BY DEF IsInjective
    <2>2. CASE i = 1 \/ j = 1  BY <1>1, <1>3, <2>1, <2>2
    <2>3. CASE i # 1 /\ j # 1
      <3>1. i - 1 = j - 1
        BY <1>3, <2>1, <2>3 DEF IsInjective
      <3>2. QED  BY <1>2, <3>1
    <2>4. QED  BY <2>2, <2>3
  <1>5. ASSUME NEW a, NEW b, Precedes(c, a, b)
        PROVE  Precedes(s, a, b) \/ (a = x /\ b \in Range(s))
    <2>1. PICK i \in DOMAIN c, j \in DOMAIN c : i < j /\ c[i] = a /\ c[j] = b
      BY <1>5 DEF Precedes
    <2>2. j # 1 /\ j - 1 \in DOMAIN s /\ b = s[j - 1] /\ b \in Range(s)
      BY <1>2, <1>3, <2>1
    <2>3. CASE i = 1  BY <1>1, <2>1, <2>2, <2>3
    <2>4. CASE i # 1
      <3>1. i - 1 \in DOMAIN s /\ a = s[i - 1] /\ i - 1 < j - 1
        BY <1>2, <1>3, <2>1, <2>4
      <3>2. QED  BY <2>2, <3>1 DEF Precedes
    <2>5. QED  BY <2>3, <2>4
  <1>6. ASSUME NEW a, NEW b, Precedes(s, a, b) PROVE Precedes(c, a, b)
    <2>1. PICK i \in DOMAIN s, j \in DOMAIN s : i < j /\ s[i] = a /\ s[j] = b
      BY <1>6 DEF Precedes
    <2>2. /\ i + 1 \in DOMAIN c /\ j + 1 \in DOMAIN c /\ i + 1 < j + 1
          /\ c[i + 1] = a /\ c[j + 1] = b
      BY <1>1, <1>2, <2>1
    <2>3. QED  BY <2>2 DEF Precedes
  <1>7. ASSUME NEW b \in Range(s) PROVE Precedes(c, x, b)
    <2>1. PICK j \in DOMAIN s : s[j] = b
      BY <1>7 DEF Range
    <2>2. 1 \in DOMAIN c /\ j + 1 \in DOMAIN c /\ 1 < j + 1 /\ c[j + 1] = b
      BY <1>1, <1>2, <2>1
    <2>3. QED  BY <1>1, <2>2 DEF Precedes
  <1>8. QED  BY <1>4, <1>5, <1>6, <1>7 DEF c

\* A list without its k-th element.
LEMMA RemoveAtSeq ==
  ASSUME NEW S, NEW s \in Seq(S), NEW k \in 1 .. Len(s)
  PROVE  /\ RemoveAt(s, k) \in Seq(S) /\ Len(RemoveAt(s, k)) = Len(s) - 1
         /\ \A i \in 1 .. Len(s) - 1 : RemoveAt(s, k)[i] = s[IF i < k THEN i ELSE i + 1]
  <1> DEFINE a == SubSeq(s, 1, k - 1)
             b == SubSeq(s, k + 1, Len(s))
  <1>1. Len(s) \in Nat /\ \A i \in 1 .. Len(s) : s[i] \in S
    BY SeqFacts
  <1>2. a \in Seq(S) /\ Len(a) = k - 1 /\ \A i \in 1 .. k - 1 : a[i] = s[i]
    <2>1. 1 \in Int /\ k - 1 \in Int /\ \A i \in 1 .. k - 1 : s[i] \in S
      BY <1>1
    <2>2. /\ a \in Seq(S) /\ Len(a) = IF 1 <= k - 1 THEN (k - 1) - 1 + 1 ELSE 0
          /\ \A i \in 1 .. (k - 1) - 1 + 1 : a[i] = s[1 + i - 1]
      BY <2>1, SubSeqProperties
    <2>3. QED  BY <1>1, <2>2
  <1>3. b \in Seq(S) /\ Len(b) = Len(s) - k /\ \A i \in 1 .. Len(s) - k : b[i] = s[k + i]
    <2>1. k + 1 \in Int /\ Len(s) \in Int /\ \A i \in k + 1 .. Len(s) : s[i] \in S
      BY <1>1
    <2>2. /\ b \in Seq(S) /\ Len(b) = IF k + 1 <= Len(s) THEN Len(s) - (k + 1) + 1 ELSE 0
          /\ \A i \in 1 .. Len(s) - (k + 1) + 1 : b[i] = s[(k + 1) + i - 1]
      BY <2>1, SubSeqProperties
    <2>3. QED  BY <1>1, <2>2
  <1>4. /\ a \o b \in Seq(S) /\ Len(a \o b) = Len(a) + Len(b)
        /\ \A i \in 1 .. Len(a) + Len(b) : (a \o b)[i] = IF i <= Len(a) THEN a[i] ELSE b[i - Len(a)]
    BY <1>2, <1>3, ConcatProperties
  <1>5. RemoveAt(s, k) = a \o b
    BY DEF RemoveAt
  <1> HIDE DEF a, b
  <1>6. Len(a) + Len(b) = Len(s) - 1
    BY <1>1, <1>2, <1>3
  <1>7. ASSUME NEW i \in 1 .. Len(s) - 1
        PROVE  (a \o b)[i] = s[IF i < k THEN i ELSE i + 1]
    <2>1. CASE i < k
      <3>1. i \in 1 .. k - 1 /\ i <= Len(a) /\ i \in 1 .. Len(a) + Len(b)
        BY <1>1, <1>2, <1>6, <2>1
      <3>2. QED  BY <1>2, <1>4, <2>1, <3>1
    <2>2. CASE ~(i < k)
      <3>1. i - (k - 1) \in 1 .. Len(s) - k /\ ~(i <= Len(a)) /\ i \in 1 .. Len(a) + Len(b)
        BY <1>1, <1>2, <1>6, <2>2
      <3>2. (a \o b)[i] = b[i - (k - 1)]
        BY <1>2, <1>4, <3>1
      <3>3. k + (i - (k - 1)) = i + 1
        OBVIOUS
      <3>4. b[i - (k - 1)] = s[i + 1]
        BY <1>3, <3>1, <3>3
      <3>5. QED  BY <2>2, <3>2, <3>4
    <2>3. QED  BY <2>1, <2>2
  <1>8. QED  BY <1>4, <1>5, <1>6, <1>7

\* Removing an element leaves the order of the others.
LEMMA RemoveAtOrder ==
  ASSUME NEW S, NEW s \in Seq(S), IsInjective(s), NEW k \in 1 .. Len(s)
  PROVE  /\ IsInjective(RemoveAt(s, k))
         /\ Range(RemoveAt(s, k)) = Range(s) \ {s[k]}
         /\ \A a, b : Precedes(RemoveAt(s, k), a, b) <=> Precedes(s, a, b) /\ a # s[k] /\ b # s[k]
  <1> DEFINE r == RemoveAt(s, k)
             Old(i) == IF i < k THEN i ELSE i + 1
             New(i) == IF i < k THEN i ELSE i - 1
  <1>1. r \in Seq(S) /\ Len(r) = Len(s) - 1 /\ \A i \in 1 .. Len(s) - 1 : r[i] = s[Old(i)]
    BY RemoveAtSeq
  <1>2. DOMAIN s = 1 .. Len(s) /\ Len(s) \in Nat /\ DOMAIN r = 1 .. Len(s) - 1
    BY <1>1, SeqFacts
  <1>3. \A i, j \in DOMAIN s : s[i] = s[j] => i = j
    BY DEF IsInjective
  <1> HIDE DEF r
  <1>4. /\ \A i \in DOMAIN r : Old(i) \in DOMAIN s /\ Old(i) # k /\ r[i] = s[Old(i)]
        /\ \A i, j \in DOMAIN r : i < j <=> Old(i) < Old(j)
    BY <1>1, <1>2
  <1>5. /\ \A i \in DOMAIN s : i # k => New(i) \in DOMAIN r /\ Old(New(i)) = i /\ r[New(i)] = s[i]
        /\ \A i, j \in DOMAIN s : i # k /\ j # k => (i < j <=> New(i) < New(j))
    <2>1. \A i \in DOMAIN s : i # k => New(i) \in DOMAIN r /\ Old(New(i)) = i
      BY <1>2
    <2>2. \A i, j \in DOMAIN s : i # k /\ j # k => (i < j <=> New(i) < New(j))
      BY <1>2
    <2>3. QED  BY <1>4, <2>1, <2>2
  <1>6. IsInjective(r)
    <2>1. SUFFICES ASSUME NEW i \in DOMAIN r, NEW j \in DOMAIN r, r[i] = r[j] PROVE i = j
      BY DEF IsInjective
    <2>2. Old(i) = Old(j)
      BY <1>3, <1>4, <2>1
    <2>3. QED  BY <1>2, <2>2
  <1> HIDE DEF Old, New
  <1>7. ASSUME NEW a PROVE a \in Range(r) <=> a \in Range(s) /\ a # s[k]
    <2>1. ASSUME a \in Range(r) PROVE a \in Range(s) /\ a # s[k]
      <3>1. PICK i \in DOMAIN r : r[i] = a
        BY <2>1 DEF Range
      <3>2. Old(i) \in DOMAIN s /\ a = s[Old(i)] /\ Old(i) # k
        BY <1>4, <3>1
      <3>3. a # s[k]
        BY <1>2, <1>3, <3>2
      <3>4. QED  BY <3>2, <3>3 DEF Range
    <2>2. ASSUME a \in Range(s), a # s[k] PROVE a \in Range(r)
      <3>1. PICK i \in DOMAIN s : s[i] = a
        BY <2>2 DEF Range
      <3>2. New(i) \in DOMAIN r /\ r[New(i)] = a
        BY <1>5, <2>2, <3>1
      <3>3. QED  BY <3>2 DEF Range
    <2>3. QED  BY <2>1, <2>2
  <1>8. ASSUME NEW a, NEW b, Precedes(r, a, b)
        PROVE  Precedes(s, a, b) /\ a # s[k] /\ b # s[k]
    <2>1. PICK i \in DOMAIN r, j \in DOMAIN r : i < j /\ r[i] = a /\ r[j] = b
      BY <1>8 DEF Precedes
    <2>2. /\ Old(i) \in DOMAIN s /\ Old(j) \in DOMAIN s /\ Old(i) < Old(j)
          /\ s[Old(i)] = a /\ s[Old(j)] = b /\ Old(i) # k /\ Old(j) # k
      BY <1>4, <2>1
    <2>3. a # s[k] /\ b # s[k]
      BY <1>2, <1>3, <2>2
    <2>4. Precedes(s, a, b)
      BY <2>2 DEF Precedes
    <2>5. QED  BY <2>3, <2>4
  <1>9. ASSUME NEW a, NEW b, Precedes(s, a, b), a # s[k], b # s[k]
        PROVE  Precedes(r, a, b)
    <2>1. PICK i \in DOMAIN s, j \in DOMAIN s : i < j /\ s[i] = a /\ s[j] = b
      BY <1>9 DEF Precedes
    <2>2. /\ New(i) \in DOMAIN r /\ New(j) \in DOMAIN r /\ New(i) < New(j)
          /\ r[New(i)] = a /\ r[New(j)] = b
      BY <1>5, <1>9, <2>1
    <2>3. QED  BY <2>2 DEF Precedes
  <1>10. QED  BY <1>6, <1>7, <1>8, <1>9 DEF r

\* Without(s, x) unlinks x, and leaves the others in their order.
LEMMA WithoutFacts ==
  ASSUME NEW S, NEW s \in Seq(S), IsInjective(s), NEW x \in Range(s)
  PROVE  /\ Without(s, x) \in Seq(S) /\ IsInjective(Without(s, x))
         /\ Range(Without(s, x)) = Range(s) \ {x}
         /\ \A a, b : Precedes(Without(s, x), a, b) <=> Precedes(s, a, b) /\ a # x /\ b # x
  <1>1. PICK k \in 1 .. Len(s) : s[k] = x
    BY SeqFacts
  <1>2. {i \in 1 .. Len(s) : s[i] = x} = {k}
    <2>1. DOMAIN s = 1 .. Len(s)
      BY SeqFacts
    <2>2. QED  BY <1>1, <2>1 DEF IsInjective
  <1>3. Min({k}) = k
    <2>1. k \in Int
      OBVIOUS
    <2>2. QED  BY <2>1 DEF Min
  <1>4. SelectInSeq(s, LAMBDA v : v = x) = k
    BY <1>2, <1>3 DEF SelectInSeq
  <1>5. Without(s, x) = RemoveAt(s, k)
    BY <1>1, <1>4 DEF Without, RemoveFirst
  <1>6. QED  BY <1>1, <1>5, RemoveAtSeq, RemoveAtOrder

\* The list node after that of x.
LEMMA NextInFacts ==
  ASSUME NEW S, NEW s \in Seq(S), IsInjective(s), NEW x \in Range(s), Null \notin S
  PROVE  /\ NextIn(s, x) # Null =>
              /\ NextIn(s, x) \in Range(s) /\ NextIn(s, x) # x
              /\ \A y : Precedes(s, x, y) <=> y = NextIn(s, x) \/ Precedes(s, NextIn(s, x), y)
         /\ NextIn(s, x) = Null => \A y : ~Precedes(s, x, y)
  <1>1. PICK k \in 1 .. Len(s) : s[k] = x
    BY SeqFacts
  <1>2. DOMAIN s = 1 .. Len(s) /\ Len(s) \in Nat /\ \A i \in 1 .. Len(s) : s[i] \in S
    BY SeqFacts
  <1>3. \A i, j \in 1 .. Len(s) : s[i] = s[j] => i = j
    BY <1>2 DEF IsInjective
  <1> DEFINE after == {i \in DOMAIN s : i > 1 /\ s[i - 1] = x}
  <1>4. \A i \in after : i = k + 1
    <2>1. SUFFICES ASSUME NEW i \in after PROVE i = k + 1
      OBVIOUS
    <2>2. i - 1 \in 1 .. Len(s) /\ s[i - 1] = x
      BY <1>2
    <2>3. i - 1 = k
      BY <1>1, <1>3, <2>2
    <2>4. QED  BY <1>2, <2>3
  <1>5. CASE k = Len(s)
    <2>1. after = {}
      BY <1>2, <1>4, <1>5
    <2>2. NextIn(s, x) = Null
      BY <2>1 DEF NextIn
    <2>3. ASSUME NEW y, Precedes(s, x, y) PROVE FALSE
      <3>1. PICK i \in DOMAIN s, j \in DOMAIN s : i < j /\ s[i] = x /\ s[j] = y
        BY <2>3 DEF Precedes
      <3>2. i = k
        BY <1>1, <1>2, <1>3, <3>1
      <3>3. QED  BY <1>2, <1>5, <3>1, <3>2
    <2>4. QED  BY <2>2, <2>3
  <1>6. CASE k # Len(s)
    <2>0. k \in Nat /\ 1 <= k /\ k < Len(s)
      <3>1. Len(s) \in Nat /\ k \in Nat /\ 1 <= k /\ k <= Len(s)
        BY <1>2
      <3>2. QED  BY <1>6, <3>1
    <2>1. k + 1 \in 1 .. Len(s) /\ k + 1 > 1 /\ (k + 1) - 1 = k
      BY <1>2, <2>0
    <2>2. after = {k + 1}
      BY <1>1, <1>2, <1>4, <2>1
    <2>3. Min(after) = k + 1
      BY <2>1, <2>2 DEF Min
    <2> DEFINE p == s[k + 1]
    <2>4. NextIn(s, x) = p
      BY <2>2, <2>3 DEF NextIn
    <2>5. p \in Range(s) /\ p # x /\ p # Null
      <3>1. p # x
        BY <1>1, <1>3, <2>1
      <3>2. QED  BY <1>2, <2>1, <3>1 DEF Range
    <2>6. ASSUME NEW y, Precedes(s, x, y), y # p PROVE Precedes(s, p, y)
      <3>1. PICK i \in DOMAIN s, j \in DOMAIN s : i < j /\ s[i] = x /\ s[j] = y
        BY <2>6 DEF Precedes
      <3>2. i = k /\ j # k + 1
        BY <1>1, <1>2, <1>3, <2>6, <3>1
      <3>3. k + 1 < j
        BY <1>2, <3>1, <3>2
      <3>4. QED  BY <1>2, <2>1, <3>1, <3>3 DEF Precedes
    <2>7. Precedes(s, x, p)
      <3>1. k < k + 1 /\ k \in DOMAIN s /\ k + 1 \in DOMAIN s
        BY <1>2, <2>1
      <3>2. QED  BY <1>1, <3>1 DEF Precedes
    <2>8. ASSUME NEW y, Precedes(s, p, y) PROVE Precedes(s, x, y)
      <3>1. PICK i \in DOMAIN s, j \in DOMAIN s : i < j /\ s[i] = p /\ s[j] = y
        BY <2>8 DEF Precedes
      <3>2. i = k + 1
        BY <1>2, <1>3, <2>1, <3>1
      <3>3. k < j
        BY <1>2, <3>1, <3>2
      <3>4. QED  BY <1>1, <1>2, <3>1, <3>3 DEF Precedes
    <2> HIDE DEF p
    <2>9. QED  BY <2>4, <2>5, <2>6, <2>7, <2>8
  <1>7. QED  BY <1>5, <1>6

\* The head of a list.
LEMMA FirstFacts ==
  ASSUME NEW S, NEW s \in Seq(S), IsInjective(s), Null \notin S
  PROVE  /\ First(s) = Null <=> s = <<>>
         /\ s = <<>> <=> Range(s) = {}
         /\ First(s) # Null =>
              /\ First(s) = s[1] /\ First(s) \in Range(s)
              /\ \A y : y \in Range(s) <=> y = First(s) \/ Precedes(s, First(s), y)
  <1>1. DOMAIN s = 1 .. Len(s) /\ Len(s) \in Nat /\ (s = <<>> <=> Len(s) = 0)
        /\ \A i \in 1 .. Len(s) : s[i] \in S
    BY SeqFacts
  <1>2. CASE s = <<>>
    <2>1. Range(s) = {}
      BY <1>1, <1>2 DEF Range
    <2>2. QED  BY <1>2, <2>1 DEF First
  <1>3. CASE s # <<>>
    <2>1. 1 \in DOMAIN s /\ First(s) = s[1] /\ s[1] \in S
      BY <1>1, <1>3 DEF First
    <2>2. s[1] \in Range(s)
      BY <2>1 DEF Range
    <2>3. ASSUME NEW y \in Range(s), y # s[1] PROVE Precedes(s, s[1], y)
      <3>1. PICK j \in DOMAIN s : s[j] = y
        BY <2>3 DEF Range
      <3>2. 1 < j
        BY <1>1, <2>3, <3>1
      <3>3. QED  BY <2>1, <3>1, <3>2 DEF Precedes
    <2>4. ASSUME NEW y, Precedes(s, s[1], y) PROVE y \in Range(s)
      BY <2>4, PrecedesFacts
    <2>5. QED  BY <1>3, <2>1, <2>2, <2>3, <2>4
  <1>4. QED  BY <1>2, <1>3

-----------------------------------------------------------------------------
(***************************************************************************)
(* Edge indices.  What the proofs say of an index they say of its list of  *)
(* tags, Keys(x), and of the list of edges under a tag, Edges(x, t).       *)
(***************************************************************************)
Dirs == {"in", "out"}
NPool == NT!Pool
EPool == ET!Pool
Bucket == [tag : Tags, edges : Seq(EPool)]

\* No tag is listed twice or without edges, and no edge twice.
WellFormed(x) ==
  /\ x \in Seq(Bucket)
  /\ \A i, j \in DOMAIN x : x[i].tag = x[j].tag => i = j
  /\ \A i \in DOMAIN x : x[i].edges # <<>> /\ IsInjective(x[i].edges)
  /\ \A i, j \in DOMAIN x : \A e \in Range(x[i].edges) : e \in Range(x[j].edges) => i = j

\* The objects of the two tables are numbered from 1, and Null is none of them.
LEMMA Pools ==
  /\ Null \notin Tags /\ Null \notin EPool /\ Null \notin NPool
  /\ EPool = 1 .. NumEdges /\ NPool = 1 .. NumNodes
  /\ NumEdges \in Nat /\ NumNodes \in Nat
  BY GraphBounds DEF EPool, NPool, NT!Pool, ET!Pool

\* An interval from 1 determines its end.
LEMMA SameInterval ==
  ASSUME NEW a \in Nat, NEW b \in Nat, 1 .. a = 1 .. b
  PROVE  a = b
  <1>1. ~(a < b)
    <2>1. SUFFICES ASSUME a < b PROVE FALSE
      OBVIOUS
    <2>2. b \in 1 .. b
      BY <2>1
    <2>3. b \in 1 .. a
      BY <2>2
    <2>4. QED  BY <2>1, <2>3
  <1>2. ~(b < a)
    <2>1. SUFFICES ASSUME b < a PROVE FALSE
      OBVIOUS
    <2>2. a \in 1 .. a
      BY <2>1
    <2>3. a \in 1 .. b
      BY <2>2
    <2>4. QED  BY <2>1, <2>3
  <1>3. QED  BY <1>1, <1>2

\* The tags of an index.
LEMMA KeysFacts ==
  ASSUME NEW x, WellFormed(x)
  PROVE  /\ Len(x) \in Nat /\ DOMAIN x = 1 .. Len(x) /\ x \in Seq(Bucket)
         /\ \A i \in DOMAIN x : x[i] \in Bucket /\ x[i].tag \in Tags /\ x[i].edges \in Seq(EPool)
         /\ Keys(x) \in Seq(Tags) /\ IsInjective(Keys(x))
         /\ Len(Keys(x)) = Len(x) /\ DOMAIN Keys(x) = DOMAIN x
         /\ \A i \in DOMAIN x : Keys(x)[i] = x[i].tag
         /\ \A t : t \in Range(Keys(x)) <=> \E i \in DOMAIN x : x[i].tag = t
         /\ x = <<>> <=> Range(Keys(x)) = {}
  <1>1. x \in Seq(Bucket)
    BY DEF WellFormed
  <1>2. Len(x) \in Nat /\ DOMAIN x = 1 .. Len(x) /\ \A i \in DOMAIN x : x[i] \in Bucket
    BY <1>1, SeqFacts
  <1>3. \A i \in DOMAIN x : x[i].tag \in Tags /\ x[i].edges \in Seq(EPool)
    BY <1>2 DEF Bucket
  <1>4. /\ DOMAIN Keys(x) = DOMAIN x /\ \A i \in DOMAIN x : Keys(x)[i] = x[i].tag
    BY DEF Keys
  <1>5. Keys(x) = [i \in 1 .. Len(x) |-> x[i].tag]
    BY <1>2 DEF Keys
  <1>6. Keys(x) \in Seq(Tags) /\ Len(Keys(x)) = Len(x)
    <2>1. \A i \in 1 .. Len(x) : x[i].tag \in Tags
      BY <1>2, <1>3
    <2>2. [i \in 1 .. Len(x) |-> x[i].tag] \in Seq(Tags)
      BY <1>2, <2>1, IsASeq
    <2>3. Keys(x) \in Seq(Tags)
      BY <1>5, <2>2
    <2>4. DOMAIN Keys(x) = 1 .. Len(Keys(x)) /\ Len(Keys(x)) \in Nat
      BY <2>3, SeqFacts
    <2>5. 1 .. Len(Keys(x)) = 1 .. Len(x)
      BY <1>2, <1>4, <2>4
    <2>6. Len(Keys(x)) = Len(x)
      BY <1>2, <2>4, <2>5, SameInterval
    <2>7. QED  BY <2>3, <2>6
  <1>7. IsInjective(Keys(x))
    BY <1>4 DEF IsInjective, WellFormed
  <1>8. \A t : t \in Range(Keys(x)) <=> \E i \in DOMAIN x : x[i].tag = t
    BY <1>4 DEF Range
  <1>9. x = <<>> <=> Len(x) = 0
    BY <1>1, SeqFacts
  <1>10. x = <<>> <=> Range(Keys(x)) = {}
    <2>1. CASE Len(x) = 0
      BY <1>2, <1>8, <1>9, <2>1
    <2>2. CASE Len(x) # 0
      <3>1. 1 \in DOMAIN x
        BY <1>2, <2>2
      <3>2. QED  BY <1>8, <1>9, <2>2, <3>1
    <2>3. QED  BY <2>1, <2>2
  <1>11. QED  BY <1>1, <1>2, <1>3, <1>4, <1>6, <1>7, <1>8, <1>10

\* A tag has one bucket, and no edges where it has none.
LEMMA BucketFacts ==
  ASSUME NEW x, WellFormed(x)
  PROVE  /\ \A i \in DOMAIN x : BucketOf(x, x[i].tag) = i /\ Edges(x, x[i].tag) = x[i].edges
         /\ \A t : t \notin Range(Keys(x)) => Edges(x, t) = <<>>
  <1>1. ASSUME NEW i \in DOMAIN x PROVE BucketOf(x, x[i].tag) = i
    <2>1. \A j \in DOMAIN x : x[j].tag = x[i].tag => j = i
      BY DEF WellFormed
    <2>2. QED  BY <2>1 DEF BucketOf
  <1>2. \A i \in DOMAIN x : x[i].tag \in Range(Keys(x))
    BY KeysFacts
  <1>3. QED  BY <1>1, <1>2 DEF Edges

\* The edges of an index.
LEMMA EdgesFacts ==
  ASSUME NEW x, WellFormed(x), NEW t
  PROVE  /\ Edges(x, t) \in Seq(EPool) /\ IsInjective(Edges(x, t))
         /\ t \in Range(Keys(x)) <=> Edges(x, t) # <<>>
         /\ t \in Range(Keys(x)) <=> Range(Edges(x, t)) # {}
         /\ Range(Edges(x, t)) \subseteq EPool
         /\ \A e \in Range(Edges(x, t)) : \A u : e \in Range(Edges(x, u)) => u = t
  <1>1. \A u : u \in Range(Keys(x)) <=> \E i \in DOMAIN x : x[i].tag = u
    BY KeysFacts
  <1>2. /\ \A i \in DOMAIN x : Edges(x, x[i].tag) = x[i].edges
        /\ \A u : u \notin Range(Keys(x)) => Edges(x, u) = <<>>
    BY BucketFacts
  <1>3. <<>> \in Seq(EPool) /\ IsInjective(<<>>) /\ Range(<<>>) = {}
    BY DEF IsInjective, Range
  <1>4. Edges(x, t) \in Seq(EPool) /\ IsInjective(Edges(x, t))
    <2>1. CASE t \in Range(Keys(x))
      <3>1. PICK i \in DOMAIN x : x[i].tag = t
        BY <1>1, <2>1
      <3>2. x[i].edges \in Seq(EPool) /\ IsInjective(x[i].edges)
        BY KeysFacts DEF WellFormed
      <3>3. QED  BY <1>2, <3>1, <3>2
    <2>2. CASE t \notin Range(Keys(x))
      BY <1>2, <1>3, <2>2
    <2>3. QED  BY <2>1, <2>2
  <1>5. t \in Range(Keys(x)) <=> Edges(x, t) # <<>>
    <2>1. CASE t \in Range(Keys(x))
      <3>1. PICK i \in DOMAIN x : x[i].tag = t
        BY <1>1, <2>1
      <3>2. x[i].edges # <<>>
        BY DEF WellFormed
      <3>3. QED  BY <1>2, <2>1, <3>1, <3>2
    <2>2. CASE t \notin Range(Keys(x))
      BY <1>2, <2>2
    <2>3. QED  BY <2>1, <2>2
  <1>6. Range(Edges(x, t)) \subseteq EPool
    BY <1>4, SeqFacts
  <1>7. Edges(x, t) = <<>> <=> Range(Edges(x, t)) = {}
    BY <1>4, FirstFacts, Pools
  <1>8. ASSUME NEW e \in Range(Edges(x, t)), NEW u, e \in Range(Edges(x, u)) PROVE u = t
    <2>1. t \in Range(Keys(x)) /\ u \in Range(Keys(x))
      BY <1>2, <1>3, <1>8
    <2>2. PICK i \in DOMAIN x : x[i].tag = t
      BY <1>1, <2>1
    <2>3. PICK j \in DOMAIN x : x[j].tag = u
      BY <1>1, <2>1
    <2>4. e \in Range(x[i].edges) /\ e \in Range(x[j].edges)
      BY <1>2, <1>8, <2>2, <2>3
    <2>5. i = j
      BY <2>4 DEF WellFormed
    <2>6. QED  BY <2>2, <2>3, <2>5
  <1>9. QED  BY <1>4, <1>5, <1>6, <1>7, <1>8

\* An index whose list of edges under one tag is replaced.
LEMMA SetBucket ==
  ASSUME NEW x, WellFormed(x), NEW b \in DOMAIN x, NEW q \in Seq(EPool), IsInjective(q), q # <<>>,
         \A i \in DOMAIN x : i # b => Range(x[i].edges) \cap Range(q) = {}
  PROVE  LET y == [x EXCEPT ![b].edges = q]
         IN /\ WellFormed(y) /\ Keys(y) = Keys(x) /\ Edges(y, x[b].tag) = q
            /\ \A t : t # x[b].tag => Edges(y, t) = Edges(x, t)
  <1> DEFINE y == [x EXCEPT ![b].edges = q]
  <1>1. /\ x \in Seq(Bucket) /\ Len(x) \in Nat /\ DOMAIN x = 1 .. Len(x)
        /\ \A i \in DOMAIN x : x[i] \in Bucket
    BY KeysFacts
  <1>2. DOMAIN y = DOMAIN x /\ \A i \in DOMAIN x : y[i] = IF i = b THEN [x[b] EXCEPT !.edges = q] ELSE x[i]
    OBVIOUS
  <1>3. [x[b] EXCEPT !.edges = q] \in Bucket /\ [x[b] EXCEPT !.edges = q].tag = x[b].tag
        /\ [x[b] EXCEPT !.edges = q].edges = q
    BY <1>1 DEF Bucket
  <1>4. \A i \in DOMAIN x : y[i] \in Bucket /\ y[i].tag = x[i].tag
                            /\ y[i].edges = IF i = b THEN q ELSE x[i].edges
    BY <1>1, <1>2, <1>3
  <1>5. y \in Seq(Bucket)
    <2>1. y = [i \in 1 .. Len(x) |-> y[i]]
      BY <1>1, <1>2
    <2>2. [i \in 1 .. Len(x) |-> y[i]] \in Seq(Bucket)
      BY <1>1, <1>4, IsASeq
    <2>3. QED  BY <2>1, <2>2
  <1> HIDE DEF y
  <1>6. WellFormed(y)
    <2>1. \A i, j \in DOMAIN y : y[i].tag = y[j].tag => i = j
      BY <1>2, <1>4 DEF WellFormed
    <2>2. \A i \in DOMAIN y : y[i].edges # <<>> /\ IsInjective(y[i].edges)
      BY <1>2, <1>4 DEF WellFormed
    <2>3. ASSUME NEW i \in DOMAIN y, NEW j \in DOMAIN y,
                 NEW e \in Range(y[i].edges), e \in Range(y[j].edges)
          PROVE  i = j
      <3>1. CASE i # b /\ j # b
        <4>1. e \in Range(x[i].edges) /\ e \in Range(x[j].edges)
          BY <1>2, <1>4, <2>3, <3>1
        <4>2. QED  BY <1>2, <4>1 DEF WellFormed
      <3>2. CASE i = b /\ j # b
        <4>1. e \in Range(q) /\ e \in Range(x[j].edges)
          BY <1>2, <1>4, <2>3, <3>2
        <4>2. QED  BY <1>2, <3>2, <4>1
      <3>3. CASE i # b /\ j = b
        <4>1. e \in Range(q) /\ e \in Range(x[i].edges)
          BY <1>2, <1>4, <2>3, <3>3
        <4>2. QED  BY <1>2, <3>3, <4>1
      <3>4. QED  BY <3>1, <3>2, <3>3
    <2>4. QED  BY <1>5, <2>1, <2>2, <2>3 DEF WellFormed
  <1>7. Keys(y) = Keys(x)
    BY <1>2, <1>4 DEF Keys
  <1>8. Edges(y, x[b].tag) = q
    BY <1>2, <1>4, <1>6, BucketFacts
  <1>9. ASSUME NEW t, t # x[b].tag PROVE Edges(y, t) = Edges(x, t)
    <2>1. CASE t \in Range(Keys(x))
      <3>1. PICK i \in DOMAIN x : x[i].tag = t
        BY <2>1, KeysFacts
      <3>2. i # b /\ y[i].tag = t /\ y[i].edges = x[i].edges
        BY <1>4, <1>9, <3>1
      <3>3. Edges(y, t) = y[i].edges
        BY <1>2, <1>6, <3>2, BucketFacts
      <3>4. Edges(x, t) = x[i].edges
        BY <3>1, BucketFacts
      <3>5. QED  BY <3>2, <3>3, <3>4
    <2>2. CASE t \notin Range(Keys(x))
      BY <1>6, <1>7, <2>2, BucketFacts
    <2>3. QED  BY <2>1, <2>2
  <1>10. QED  BY <1>6, <1>7, <1>8, <1>9 DEF y

\* A tag that is new goes to the front.
LEMMA NewBucket ==
  ASSUME NEW x, WellFormed(x), NEW t \in Tags, NEW e \in EPool,
         t \notin Range(Keys(x)), \A u : e \notin Range(Edges(x, u))
  PROVE  LET y == <<[tag |-> t, edges |-> <<e>>]>> \o x
         IN /\ WellFormed(y) /\ Keys(y) = <<t>> \o Keys(x) /\ Edges(y, t) = <<e>>
            /\ \A u : u # t => Edges(y, u) = Edges(x, u)
  <1> DEFINE r == [tag |-> t, edges |-> <<e>>]
             y == <<r>> \o x
  <1>1. /\ x \in Seq(Bucket) /\ Len(x) \in Nat /\ DOMAIN x = 1 .. Len(x)
        /\ \A i \in DOMAIN x : x[i] \in Bucket
    BY KeysFacts
  <1>2. <<e>> \in Seq(EPool) /\ IsInjective(<<e>>) /\ Range(<<e>>) = {e} /\ <<e>> # <<>>
    BY DEF IsInjective, Range
  <1>3. r \in Bucket /\ r.tag = t /\ r.edges = <<e>>
    BY <1>2 DEF Bucket
  <1> HIDE DEF r
  <1>4. /\ y \in Seq(Bucket) /\ Len(y) = Len(x) + 1 /\ y[1] = r
        /\ \A i \in 1 .. Len(x) : y[i + 1] = x[i]
    BY <1>1, <1>3, ConsSeq
  <1>5. DOMAIN y = 1 .. Len(x) + 1
    BY <1>4, SeqFacts
  <1>6. /\ \A i \in DOMAIN y : i # 1 => i - 1 \in DOMAIN x /\ y[i] = x[i - 1]
        /\ \A i \in DOMAIN x : i + 1 \in DOMAIN y /\ y[i + 1] = x[i] /\ i + 1 # 1
    <2>1. ASSUME NEW i \in DOMAIN y, i # 1 PROVE i - 1 \in DOMAIN x /\ y[i] = x[i - 1]
      <3>1. i - 1 \in 1 .. Len(x) /\ (i - 1) + 1 = i
        BY <1>1, <1>5, <2>1
      <3>2. QED  BY <1>1, <1>4, <3>1
    <2>2. ASSUME NEW i \in DOMAIN x PROVE i + 1 \in DOMAIN y /\ y[i + 1] = x[i] /\ i + 1 # 1
      BY <1>1, <1>4, <1>5
    <2>3. QED  BY <2>1, <2>2
  <1> HIDE DEF y
  <1>7. \A i \in DOMAIN x : x[i].tag # t /\ e \notin Range(x[i].edges)
    <2>1. ASSUME NEW i \in DOMAIN x PROVE x[i].tag # t /\ e \notin Range(x[i].edges)
      <3>1. x[i].tag \in Range(Keys(x)) /\ Edges(x, x[i].tag) = x[i].edges
        BY KeysFacts, BucketFacts
      <3>2. QED  BY <3>1
    <2>2. QED  BY <2>1
  <1>8. WellFormed(y)
    <2>1. ASSUME NEW i \in DOMAIN y, NEW j \in DOMAIN y, y[i].tag = y[j].tag PROVE i = j
      <3>1. CASE i = 1 \/ j = 1
        BY <1>3, <1>4, <1>6, <1>7, <2>1, <3>1
      <3>2. CASE i # 1 /\ j # 1
        <4>1. i - 1 = j - 1
          BY <1>6, <2>1, <3>2 DEF WellFormed
        <4>2. QED  BY <1>5, <4>1
      <3>3. QED  BY <3>1, <3>2
    <2>2. ASSUME NEW i \in DOMAIN y PROVE y[i].edges # <<>> /\ IsInjective(y[i].edges)
      <3>1. CASE i = 1  BY <1>2, <1>3, <1>4, <3>1
      <3>2. CASE i # 1
        <4>1. i - 1 \in DOMAIN x /\ y[i] = x[i - 1]
          BY <1>6, <3>2
        <4>2. QED  BY <4>1 DEF WellFormed
      <3>3. QED  BY <3>1, <3>2
    <2>3. ASSUME NEW i \in DOMAIN y, NEW j \in DOMAIN y,
                 NEW a \in Range(y[i].edges), a \in Range(y[j].edges)
          PROVE  i = j
      <3>1. ASSUME NEW k \in DOMAIN y, k # 1, a \in Range(y[k].edges) PROVE a # e
        <4>1. k - 1 \in DOMAIN x /\ y[k] = x[k - 1]
          BY <1>6, <3>1
        <4>2. e \notin Range(x[k - 1].edges)
          BY <1>7, <4>1
        <4>3. QED  BY <3>1, <4>1, <4>2
      <3>2. a \in Range(y[1].edges) => a = e
        BY <1>2, <1>3, <1>4
      <3>3. CASE i # 1 /\ j # 1
        <4>1. /\ i - 1 \in DOMAIN x /\ j - 1 \in DOMAIN x
              /\ a \in Range(x[i - 1].edges) /\ a \in Range(x[j - 1].edges)
          BY <1>6, <2>3, <3>3
        <4>2. i - 1 = j - 1
          BY <4>1 DEF WellFormed
        <4>3. QED  BY <1>5, <4>2
      <3>4. QED  BY <2>3, <3>1, <3>2, <3>3
    <2>4. QED  BY <1>4, <2>1, <2>2, <2>3 DEF WellFormed
  <1>9. Keys(y) = <<t>> \o Keys(x)
    <2> DEFINE c == <<t>> \o Keys(x)
    <2>1. Keys(x) \in Seq(Tags) /\ Len(Keys(x)) = Len(x) /\ \A i \in DOMAIN x : Keys(x)[i] = x[i].tag
      BY KeysFacts
    <2>2. /\ c \in Seq(Tags) /\ Len(c) = Len(x) + 1 /\ c[1] = t
          /\ \A i \in 1 .. Len(x) : c[i + 1] = Keys(x)[i]
      BY <2>1, ConsSeq
    <2>3. Keys(y) \in Seq(Tags) /\ Len(Keys(y)) = Len(y) /\ \A i \in DOMAIN y : Keys(y)[i] = y[i].tag
      BY <1>8, KeysFacts
    <2> HIDE DEF c
    <2>4. ASSUME NEW i \in 1 .. Len(x) + 1 PROVE Keys(y)[i] = c[i]
      <3>1. CASE i = 1  BY <1>3, <1>4, <1>5, <2>2, <2>3, <3>1
      <3>2. CASE i # 1
        <4>1. i - 1 \in 1 .. Len(x) /\ (i - 1) + 1 = i
          BY <1>1, <3>2
        <4>2. c[i] = x[i - 1].tag
          BY <1>1, <2>1, <2>2, <4>1
        <4>3. y[i] = x[i - 1]
          BY <1>5, <1>6, <3>2
        <4>4. QED  BY <1>5, <2>3, <4>2, <4>3
      <3>3. QED  BY <3>1, <3>2
    <2>5. Keys(y) = c
      BY <1>4, <2>2, <2>3, <2>4, SeqEqual
    <2>6. QED  BY <2>5 DEF c
  <1>10. Edges(y, t) = <<e>>
    <2>1. 1 \in DOMAIN y
      BY <1>1, <1>5
    <2>2. QED  BY <1>3, <1>4, <1>8, <2>1, BucketFacts
  <1>11. ASSUME NEW u, u # t PROVE Edges(y, u) = Edges(x, u)
    <2>1. CASE u \in Range(Keys(x))
      <3>1. PICK i \in DOMAIN x : x[i].tag = u
        BY <2>1, KeysFacts
      <3>2. Edges(y, u) = x[i].edges
        BY <1>6, <1>8, <3>1, BucketFacts
      <3>3. QED  BY <3>1, <3>2, BucketFacts
    <2>2. CASE u \notin Range(Keys(x))
      <3>1. u \notin Range(Keys(y))
        <4>1. Range(Keys(y)) = {t} \cup Range(Keys(x))
          BY <1>9, ConsSeq, KeysFacts
        <4>2. QED  BY <1>11, <2>2, <4>1
      <3>2. QED  BY <1>8, <2>2, <3>1, BucketFacts
    <2>3. QED  BY <2>1, <2>2
  <1>12. QED  BY <1>8, <1>9, <1>10, <1>11 DEF y, r

\* add: the edge goes to the front of the list of its tag.
LEMMA AddFacts ==
  ASSUME NEW x, WellFormed(x), NEW t \in Tags, NEW e \in EPool, \A u : e \notin Range(Edges(x, u))
  PROVE  LET y == add(x, t, e)
         IN /\ WellFormed(y)
            /\ \A u, a : a \in Range(Edges(y, u)) <=> a \in Range(Edges(x, u)) \/ (u = t /\ a = e)
            /\ \A u, a, b : Precedes(Edges(y, u), a, b) <=>
                 Precedes(Edges(x, u), a, b) \/ (u = t /\ a = e /\ b \in Range(Edges(x, t)))
            /\ \A a, b : a \in Range(Keys(x)) => (Precedes(Keys(x), a, b) <=> Precedes(Keys(y), a, b))
  <1> DEFINE y == add(x, t, e)
             q == Edges(x, t)
  <1>1. q \in Seq(EPool) /\ IsInjective(q) /\ e \notin Range(q)
    BY EdgesFacts
  <1>2. /\ <<e>> \o q \in Seq(EPool) /\ IsInjective(<<e>> \o q) /\ <<e>> \o q # <<>>
        /\ Range(<<e>> \o q) = {e} \cup Range(q)
        /\ \A a, b : Precedes(<<e>> \o q, a, b) <=> Precedes(q, a, b) \/ (a = e /\ b \in Range(q))
    <2>1. <<e>> \o q \in Seq(EPool) /\ Len(<<e>> \o q) = Len(q) + 1 /\ Range(<<e>> \o q) = {e} \cup Range(q)
      BY <1>1, ConsSeq
    <2>2. <<e>> \o q # <<>>
      <3>1. Len(q) \in Nat
        BY <1>1, SeqFacts
      <3>2. QED  BY <2>1, <3>1, SeqFacts
    <2>3. QED  BY <1>1, <2>1, <2>2, ConsOrder
  <1>3. /\ WellFormed(y) /\ Edges(y, t) = <<e>> \o q /\ \A u : u # t => Edges(y, u) = Edges(x, u)
        /\ Keys(y) = IF t \in Range(Keys(x)) THEN Keys(x) ELSE <<t>> \o Keys(x)
    <2>1. CASE t \in Range(Keys(x))
      <3>1. PICK b \in DOMAIN x : x[b].tag = t
        BY <2>1, KeysFacts
      <3>2. BucketOf(x, t) = b /\ x[b].edges = q
        BY <3>1, BucketFacts
      <3>3. y = [x EXCEPT ![b].edges = <<e>> \o x[b].edges]
        BY <2>1, <3>1, <3>2 DEF add
      <3>4. ASSUME NEW i \in DOMAIN x, i # b PROVE Range(x[i].edges) \cap Range(<<e>> \o q) = {}
        <4>1. Edges(x, x[i].tag) = x[i].edges
          BY BucketFacts
        <4>2. e \notin Range(x[i].edges)
          BY <4>1
        <4>3. \A a \in Range(x[i].edges) : a \notin Range(x[b].edges)
          BY <3>4 DEF WellFormed
        <4>4. QED  BY <1>2, <3>2, <4>2, <4>3
      <3> DEFINE p == <<e>> \o q
      <3>5. y = [x EXCEPT ![b].edges = p] /\ p \in Seq(EPool) /\ IsInjective(p) /\ p # <<>>
            /\ \A i \in DOMAIN x : i # b => Range(x[i].edges) \cap Range(p) = {}
        BY <1>2, <3>2, <3>3, <3>4
      <3> HIDE DEF p, y
      <3> DEFINE z == [x EXCEPT ![b].edges = p]
      <3>0. WellFormed(z) /\ Keys(z) = Keys(x) /\ Edges(z, x[b].tag) = p
            /\ \A u : u # x[b].tag => Edges(z, u) = Edges(x, u)
        BY <3>5, SetBucket
      <3>6. WellFormed(y) /\ Keys(y) = Keys(x) /\ Edges(y, x[b].tag) = p
            /\ \A u : u # x[b].tag => Edges(y, u) = Edges(x, u)
        BY <3>5, <3>0
      <3>7. QED  BY <2>1, <3>1, <3>6 DEF p
    <2>2. CASE t \notin Range(Keys(x))
      <3>1. y = <<[tag |-> t, edges |-> <<e>>]>> \o x
        BY <2>2 DEF add
      <3>2. q = <<>> /\ <<e>> \o q = <<e>>
        <4>1. q = <<>>
          BY <2>2, BucketFacts
        <4>2. <<e>> \in Seq(EPool)
          OBVIOUS
        <4>3. QED  BY <4>1, <4>2, ConcatEmptySeq
      <3>3. /\ WellFormed(y) /\ Keys(y) = <<t>> \o Keys(x) /\ Edges(y, t) = <<e>>
            /\ \A u : u # t => Edges(y, u) = Edges(x, u)
        BY <2>2, <3>1, NewBucket
      <3>4. QED  BY <2>2, <3>2, <3>3
    <2>3. QED  BY <2>1, <2>2
  <1> HIDE DEF y, q
  <1>4. ASSUME NEW a \in Range(Keys(x)), NEW b
        PROVE  Precedes(Keys(x), a, b) <=> Precedes(Keys(y), a, b)
    <2>1. CASE t \in Range(Keys(x))  BY <1>3, <2>1
    <2>2. CASE t \notin Range(Keys(x))
      <3>1. Keys(x) \in Seq(Tags) /\ IsInjective(Keys(x))
        BY KeysFacts
      <3>2. Precedes(Keys(y), a, b) <=> Precedes(Keys(x), a, b) \/ (a = t /\ b \in Range(Keys(x)))
        <4>1. Precedes(<<t>> \o Keys(x), a, b) <=> Precedes(Keys(x), a, b) \/ (a = t /\ b \in Range(Keys(x)))
          BY <2>2, <3>1, ConsOrder
        <4>2. QED  BY <1>3, <2>2, <4>1
      <3>3. QED  BY <2>2, <3>2
    <2>3. QED  BY <2>1, <2>2
  <1>5. \A u, a : a \in Range(Edges(y, u)) <=> a \in Range(Edges(x, u)) \/ (u = t /\ a = e)
    BY <1>2, <1>3 DEF q
  <1>6. \A u, a, b : Precedes(Edges(y, u), a, b) <=>
          Precedes(Edges(x, u), a, b) \/ (u = t /\ a = e /\ b \in Range(Edges(x, t)))
    BY <1>2, <1>3 DEF q
  <1>7. QED  BY <1>3, <1>4, <1>5, <1>6 DEF y

\* A tag that goes away.
LEMMA DropBucket ==
  ASSUME NEW x, WellFormed(x), NEW b \in DOMAIN x
  PROVE  LET y == RemoveAt(x, b)
         IN /\ WellFormed(y) /\ Keys(y) = RemoveAt(Keys(x), b) /\ Edges(y, x[b].tag) = <<>>
            /\ \A u : u # x[b].tag => Edges(y, u) = Edges(x, u)
  <1> DEFINE y == RemoveAt(x, b)
             Old(i) == IF i < b THEN i ELSE i + 1
             New(i) == IF i < b THEN i ELSE i - 1
  <1>1. /\ x \in Seq(Bucket) /\ Len(x) \in Nat /\ DOMAIN x = 1 .. Len(x)
        /\ \A i \in DOMAIN x : x[i] \in Bucket
    BY KeysFacts
  <1>2. b \in 1 .. Len(x)
    BY <1>1
  <1>3. y \in Seq(Bucket) /\ Len(y) = Len(x) - 1 /\ \A i \in 1 .. Len(x) - 1 : y[i] = x[Old(i)]
    BY <1>1, <1>2, RemoveAtSeq
  <1>4. DOMAIN y = 1 .. Len(x) - 1
    BY <1>3, SeqFacts
  <1> HIDE DEF y
  <1>5. /\ \A i \in DOMAIN y : Old(i) \in DOMAIN x /\ Old(i) # b /\ y[i] = x[Old(i)]
        /\ \A i, j \in DOMAIN y : Old(i) = Old(j) => i = j
    BY <1>1, <1>2, <1>3, <1>4
  <1>6. \A i \in DOMAIN x : i # b => New(i) \in DOMAIN y /\ y[New(i)] = x[i]
    <2>1. \A i \in DOMAIN x : i # b => New(i) \in DOMAIN y /\ Old(New(i)) = i
      BY <1>1, <1>2, <1>4
    <2>2. QED  BY <1>5, <2>1
  <1> HIDE DEF Old, New
  <1>7. WellFormed(y)
    <2>1. \A i, j \in DOMAIN y : y[i].tag = y[j].tag => i = j
      BY <1>5 DEF WellFormed
    <2>2. \A i \in DOMAIN y : y[i].edges # <<>> /\ IsInjective(y[i].edges)
      BY <1>5 DEF WellFormed
    <2>3. ASSUME NEW i \in DOMAIN y, NEW j \in DOMAIN y,
                 NEW a \in Range(y[i].edges), a \in Range(y[j].edges)
          PROVE  i = j
      <3>1. /\ Old(i) \in DOMAIN x /\ Old(j) \in DOMAIN x
            /\ a \in Range(x[Old(i)].edges) /\ a \in Range(x[Old(j)].edges)
        BY <1>5, <2>3
      <3>2. Old(i) = Old(j)
        BY <3>1 DEF WellFormed
      <3>3. QED  BY <1>5, <3>2
    <2>4. QED  BY <1>3, <2>1, <2>2, <2>3 DEF WellFormed
  <1>8. Keys(y) = RemoveAt(Keys(x), b)
    <2> DEFINE c == RemoveAt(Keys(x), b)
    <2>1. Keys(x) \in Seq(Tags) /\ Len(Keys(x)) = Len(x) /\ \A i \in DOMAIN x : Keys(x)[i] = x[i].tag
      BY KeysFacts
    <2>2. /\ c \in Seq(Tags) /\ Len(c) = Len(x) - 1
          /\ \A i \in 1 .. Len(x) - 1 : c[i] = Keys(x)[Old(i)]
      BY <1>2, <2>1, RemoveAtSeq DEF Old
    <2>3. Keys(y) \in Seq(Tags) /\ Len(Keys(y)) = Len(y) /\ \A i \in DOMAIN y : Keys(y)[i] = y[i].tag
      BY <1>7, KeysFacts
    <2> HIDE DEF c
    <2>4. ASSUME NEW i \in 1 .. Len(x) - 1 PROVE Keys(y)[i] = c[i]
      BY <1>4, <1>5, <2>1, <2>2, <2>3
    <2>5. Keys(y) = c
      BY <1>3, <2>2, <2>3, <2>4, SeqEqual
    <2>6. QED  BY <2>5 DEF c
  <1>9. Edges(y, x[b].tag) = <<>>
    <2>1. \A i \in DOMAIN y : y[i].tag # x[b].tag
      BY <1>5 DEF WellFormed
    <2>2. x[b].tag \notin Range(Keys(y))
      BY <1>7, <2>1, KeysFacts
    <2>3. QED  BY <1>7, <2>2, BucketFacts
  <1>10. ASSUME NEW u, u # x[b].tag PROVE Edges(y, u) = Edges(x, u)
    <2>1. CASE u \in Range(Keys(x))
      <3>1. PICK i \in DOMAIN x : x[i].tag = u
        BY <2>1, KeysFacts
      <3>2. i # b
        BY <1>10, <3>1
      <3>3. New(i) \in DOMAIN y /\ y[New(i)] = x[i]
        BY <1>6, <3>2
      <3>4. Edges(y, u) = x[i].edges
        BY <1>7, <3>1, <3>3, BucketFacts
      <3>5. QED  BY <3>1, <3>4, BucketFacts
    <2>2. CASE u \notin Range(Keys(x))
      <3>1. \A i \in DOMAIN y : y[i].tag # u
        BY <1>5, <2>2, KeysFacts
      <3>2. u \notin Range(Keys(y))
        BY <1>7, <3>1, KeysFacts
      <3>3. QED  BY <1>7, <2>2, <3>2, BucketFacts
    <2>3. QED  BY <2>1, <2>2
  <1>11. QED  BY <1>7, <1>8, <1>9, <1>10 DEF y

\* remove: the edge leaves the list of its tag, and the tag goes with the last.
LEMMA RemoveFacts ==
  ASSUME NEW x, WellFormed(x), NEW t, NEW e \in Range(Edges(x, t))
  PROVE  LET y == remove(x, t, e)
         IN /\ WellFormed(y)
            /\ \A u, a : a \in Range(Edges(y, u)) <=> a \in Range(Edges(x, u)) /\ ~(u = t /\ a = e)
            /\ \A u, a, b : Precedes(Edges(y, u), a, b) <=>
                 Precedes(Edges(x, u), a, b) /\ {a, b} \subseteq Range(Edges(y, u))
            /\ \A a, b : Precedes(Keys(y), a, b) <=>
                 Precedes(Keys(x), a, b) /\ {a, b} \subseteq Range(Keys(y))
  <1> DEFINE y == remove(x, t, e)
             q == Edges(x, t)
             p == Without(q, e)
  <1>1. q \in Seq(EPool) /\ IsInjective(q) /\ e \in Range(q)
    BY EdgesFacts
  <1>2. /\ p \in Seq(EPool) /\ IsInjective(p) /\ Range(p) = Range(q) \ {e}
        /\ \A a, b : Precedes(p, a, b) <=> Precedes(q, a, b) /\ a # e /\ b # e
    BY <1>1, WithoutFacts
  <1>3. t \in Range(Keys(x))
    BY EdgesFacts
  <1>4. PICK k \in DOMAIN x : x[k].tag = t
    BY <1>3, KeysFacts
  <1>5. BucketOf(x, t) = k /\ x[k].edges = q
    BY <1>4, BucketFacts
  <1>6. Keys(x) \in Seq(Tags) /\ IsInjective(Keys(x)) /\ Len(Keys(x)) = Len(x) /\ DOMAIN x = 1 .. Len(x)
        /\ Keys(x)[k] = t
    BY <1>4, KeysFacts
  <1>7. /\ WellFormed(y) /\ Edges(y, t) = p /\ \A u : u # t => Edges(y, u) = Edges(x, u)
        /\ \A a, b : Precedes(Keys(y), a, b) <=>
             Precedes(Keys(x), a, b) /\ {a, b} \subseteq Range(Keys(y))
    <2>1. CASE p = <<>>
      <3>1. y = RemoveAt(x, k)
        BY <1>3, <1>5, <2>1 DEF remove
      <3>2. /\ WellFormed(y) /\ Keys(y) = RemoveAt(Keys(x), k) /\ Edges(y, t) = <<>>
            /\ \A u : u # t => Edges(y, u) = Edges(x, u)
        BY <1>4, <3>1, DropBucket
      <3> HIDE DEF y, p
      <3>3. k \in 1 .. Len(Keys(x))
        BY <1>6
      <3>4. /\ Range(Keys(y)) = Range(Keys(x)) \ {t}
            /\ \A a, b : Precedes(Keys(y), a, b) <=> Precedes(Keys(x), a, b) /\ a # t /\ b # t
        BY <1>6, <3>2, <3>3, RemoveAtOrder
      <3>5. \A a, b : Precedes(Keys(x), a, b) => a \in Range(Keys(x)) /\ b \in Range(Keys(x))
        BY <1>6, PrecedesFacts
      <3>6. QED  BY <2>1, <3>2, <3>4, <3>5
    <2>2. CASE p # <<>>
      <3>1. y = [x EXCEPT ![k].edges = p]
        BY <1>3, <1>5, <2>2 DEF remove
      <3>2. ASSUME NEW i \in DOMAIN x, i # k PROVE Range(x[i].edges) \cap Range(p) = {}
        <4>1. \A a \in Range(x[i].edges) : a \notin Range(x[k].edges)
          BY <3>2 DEF WellFormed
        <4>2. QED  BY <1>2, <1>5, <4>1
      <3> HIDE DEF p, y
      <3> DEFINE z == [x EXCEPT ![k].edges = p]
      <3>3. WellFormed(z) /\ Keys(z) = Keys(x) /\ Edges(z, x[k].tag) = p
            /\ \A u : u # x[k].tag => Edges(z, u) = Edges(x, u)
        BY <1>2, <2>2, <3>2, SetBucket
      <3>4. WellFormed(y) /\ Keys(y) = Keys(x) /\ Edges(y, t) = p
            /\ \A u : u # t => Edges(y, u) = Edges(x, u)
        BY <1>4, <3>1, <3>3
      <3>5. \A a, b : Precedes(Keys(x), a, b) => a \in Range(Keys(x)) /\ b \in Range(Keys(x))
        BY <1>6, PrecedesFacts
      <3>6. QED  BY <3>4, <3>5
    <2>3. QED  BY <2>1, <2>2
  <1> HIDE DEF y, p
  <1>8. \A u, a : a \in Range(Edges(y, u)) <=> a \in Range(Edges(x, u)) /\ ~(u = t /\ a = e)
    BY <1>2, <1>7
  <1>9. ASSUME NEW u, NEW a, NEW b
        PROVE  Precedes(Edges(y, u), a, b) <=>
                 Precedes(Edges(x, u), a, b) /\ {a, b} \subseteq Range(Edges(y, u))
    <2>1. Precedes(Edges(x, u), a, b) => a \in Range(Edges(x, u)) /\ b \in Range(Edges(x, u))
      BY EdgesFacts, PrecedesFacts
    <2>2. CASE u = t
      BY <1>2, <1>7, <2>1, <2>2
    <2>3. CASE u # t
      BY <1>7, <2>1, <2>3
    <2>4. QED  BY <2>2, <2>3
  <1>10. QED  BY <1>7, <1>8, <1>9 DEF y

-----------------------------------------------------------------------------
(***************************************************************************)
(* Iterators: where one stands, and what it has yet to show.               *)
(***************************************************************************)
Shape(ix) == ix \in [NPool -> [Dirs -> {x \in Seq(Bucket) : WellFormed(x)}]]

Listed(ix, n, dir, t) == Range(Edges(ix[n][dir], t))

Iterator ==
  [node : NPool \cup {Null}, dir : Dirs, more : BOOLEAN, key_pos : Tags \cup {Null},
   tag : Tags \cup {Null}, pos : EPool \cup {Null}, vacant : BOOLEAN, dead : BOOLEAN]

Standing(ix, i) ==
  /\ i \in Iterator
  /\ i.key_pos \in {Null, i.tag}
  /\ i.more => i.dir = "in"
  /\ i.dead => i.pos = Null
  /\ i.pos # Null => i.node \in NPool /\ i.tag \in Tags /\ i.pos \in Listed(ix, i.node, i.dir, i.tag)

\* e is listed in direction d behind the place where i stands.
Behind(ix, i, d, e) ==
  \/ d = i.dir /\ Precedes(Edges(ix[i.node][d], i.tag), i.pos, e)
  \/ /\ d = i.dir /\ i.key_pos # Null
     /\ \E t \in Tags : Precedes(Keys(ix[i.node][d]), i.tag, t) /\ e \in Listed(ix, i.node, d, t)
  \/ /\ d = "out" /\ i.more
     /\ \E t \in Tags : (i.key_pos = Null => t = i.tag) /\ e \in Listed(ix, i.node, d, t)

\* The place itself, or behind it.
Ahead(ix, i, d, e) == (d = i.dir /\ e = i.pos) \/ Behind(ix, i, d, e)

\* What i has yet to show: what is behind it, and its place when vacant.
Coming(ix, i, d, e) ==
  i.pos # Null /\ IF i.vacant THEN Ahead(ix, i, d, e) ELSE Behind(ix, i, d, e)

\* Every index of every node is well formed.
LEMMA ShapeFacts ==
  ASSUME NEW ix, Shape(ix)
  PROVE  /\ DOMAIN ix = NPool /\ \A n \in NPool : DOMAIN ix[n] = Dirs
         /\ \A n \in NPool, d \in Dirs : WellFormed(ix[n][d])
  BY DEF Shape

\* The head of the list of a tag.
LEMMA GetFirstFacts ==
  ASSUME NEW x, WellFormed(x), NEW t
  PROVE  /\ get_first(x, t) \in EPool \cup {Null}
         /\ t \notin Range(Keys(x)) => get_first(x, t) = Null /\ Range(Edges(x, t)) = {}
         /\ t \in Range(Keys(x)) =>
              /\ get_first(x, t) # Null /\ get_first(x, t) \in Range(Edges(x, t)) /\ t \in Tags
              /\ \A e : e \in Range(Edges(x, t)) <=>
                          e = get_first(x, t) \/ Precedes(Edges(x, t), get_first(x, t), e)
  <1> DEFINE s == Edges(x, t)
  <1>1. /\ s \in Seq(EPool) /\ IsInjective(s) /\ (t \in Range(Keys(x)) <=> s # <<>>)
        /\ Range(s) \subseteq EPool
    BY EdgesFacts
  <1>2. t \in Range(Keys(x)) => t \in Tags
    BY KeysFacts, SeqFacts
  <1>3. /\ First(s) = Null <=> s = <<>>
        /\ s = <<>> <=> Range(s) = {}
        /\ First(s) # Null =>
             /\ First(s) \in Range(s)
             /\ \A y : y \in Range(s) <=> y = First(s) \/ Precedes(s, First(s), y)
    BY <1>1, FirstFacts, Pools
  <1>4. get_first(x, t) = First(s)
    BY DEF get_first
  <1> HIDE DEF s
  <1>5. QED  BY <1>1, <1>2, <1>3, <1>4 DEF s

\* An iterator does not stand behind itself, and what is behind it is listed.
LEMMA NotBehindItself ==
  ASSUME NEW ix, Shape(ix), NEW i, Standing(ix, i), i.pos # Null
  PROVE  ~Behind(ix, i, i.dir, i.pos)
  <1> DEFINE x == ix[i.node][i.dir]
  <1>1. i.node \in NPool /\ i.dir \in Dirs /\ i.pos \in Range(Edges(x, i.tag)) /\ (i.more => i.dir = "in")
    BY DEF Standing, Iterator, Listed
  <1>2. WellFormed(x)
    BY <1>1, ShapeFacts
  <1> HIDE DEF x
  <1>3. ~Precedes(Edges(x, i.tag), i.pos, i.pos)
    BY <1>2, EdgesFacts, PrecedesFacts
  <1>4. ASSUME NEW t, Precedes(Keys(x), i.tag, t), i.pos \in Range(Edges(x, t)) PROVE FALSE
    <2>1. t # i.tag
      BY <1>2, <1>4, KeysFacts, PrecedesFacts
    <2>2. t = i.tag
      BY <1>1, <1>2, <1>4, EdgesFacts
    <2>3. QED  BY <2>1, <2>2
  <1>5. ~(i.dir = "out" /\ i.more)
    BY <1>1
  <1>6. QED  BY <1>3, <1>4, <1>5 DEF Behind, Listed, x

\* What the iterator has ahead of it is in the lists of its node.
LEMMA AheadListed ==
  ASSUME NEW ix, Shape(ix), NEW i, Standing(ix, i), i.pos # Null, NEW d, NEW e, Ahead(ix, i, d, e)
  PROVE  d \in Dirs /\ \E t \in Tags : e \in Listed(ix, i.node, d, t) /\ (i.key_pos = Null => t = i.tag)
  <1>1. i.node \in NPool /\ i.dir \in Dirs /\ i.tag \in Tags /\ i.pos \in Listed(ix, i.node, i.dir, i.tag)
    BY DEF Standing, Iterator
  <1>2. CASE d = i.dir /\ e = i.pos
    BY <1>1, <1>2
  <1>3. CASE d = i.dir /\ Precedes(Edges(ix[i.node][d], i.tag), i.pos, e)
    <2>1. WellFormed(ix[i.node][d])
      BY <1>1, <1>3, ShapeFacts
    <2>2. e \in Range(Edges(ix[i.node][d], i.tag))
      BY <1>3, <2>1, EdgesFacts, PrecedesFacts
    <2>3. QED  BY <1>1, <1>3, <2>2 DEF Listed
  <1>4. CASE /\ d = i.dir /\ i.key_pos # Null
             /\ \E t \in Tags : Precedes(Keys(ix[i.node][d]), i.tag, t) /\ e \in Listed(ix, i.node, d, t)
    BY <1>1, <1>4
  <1>5. CASE /\ d = "out" /\ i.more
             /\ \E t \in Tags : (i.key_pos = Null => t = i.tag) /\ e \in Listed(ix, i.node, d, t)
    BY <1>5 DEF Dirs
  <1>6. QED  BY <1>2, <1>3, <1>4, <1>5 DEF Ahead, Behind

\* next() of an iterator that is not vacant goes to the first of what is
\* behind it; the rest is then behind it.
LEMMA NextFacts ==
  ASSUME NEW ix, Shape(ix), NEW i, Standing(ix, i), i.pos # Null, ~i.vacant, ~i.dead
  PROVE  LET j == next(i, ix[i.node])
         IN /\ Standing(ix, j) /\ ~j.vacant /\ j.node = i.node
            /\ ~j.dead /\ j.pos = Null => \A d, e : ~Behind(ix, i, d, e)
            /\ j.pos # Null => \A d, e : Behind(ix, i, d, e) <=> Ahead(ix, j, d, e)
  <1> DEFINE cur == ix[i.node][i.dir]
             out == ix[i.node]["out"]
             p == NextIn(Edges(cur, i.tag), i.pos)
             k == NextIn(Keys(cur), i.key_pos)
             j == next(i, ix[i.node])
  <1>1. /\ i \in Iterator /\ i.node \in NPool /\ i.dir \in Dirs /\ i.tag \in Tags
        /\ i.pos \in Range(Edges(cur, i.tag)) /\ i.key_pos \in {Null, i.tag}
        /\ (i.more => i.dir = "in") /\ i.more \in BOOLEAN /\ i.key_pos \in Tags \cup {Null}
    BY DEF Standing, Iterator, Listed
  <1>2. WellFormed(cur) /\ WellFormed(out)
    BY <1>1, ShapeFacts DEF Dirs
  <1>3. i.tag \in Range(Keys(cur))
    BY <1>1, <1>2, EdgesFacts
  <1>4. /\ p # Null =>
             /\ p \in Range(Edges(cur, i.tag)) /\ p # i.pos /\ p \in EPool
             /\ \A y : Precedes(Edges(cur, i.tag), i.pos, y) <=> y = p \/ Precedes(Edges(cur, i.tag), p, y)
        /\ p = Null => \A y : ~Precedes(Edges(cur, i.tag), i.pos, y)
    <2>1. Edges(cur, i.tag) \in Seq(EPool) /\ IsInjective(Edges(cur, i.tag))
          /\ Range(Edges(cur, i.tag)) \subseteq EPool
      BY <1>2, EdgesFacts
    <2> HIDE DEF cur
    <2>2. QED  BY <1>1, <2>1, NextInFacts, Pools
  <1>5. i.key_pos # Null =>
          /\ k # Null =>
               /\ k \in Range(Keys(cur)) /\ k # i.tag /\ k \in Tags
               /\ \A y : Precedes(Keys(cur), i.tag, y) <=> y = k \/ Precedes(Keys(cur), k, y)
          /\ k = Null => \A y : ~Precedes(Keys(cur), i.tag, y)
    <2>1. Keys(cur) \in Seq(Tags) /\ IsInjective(Keys(cur)) /\ Range(Keys(cur)) \subseteq Tags
      BY <1>2, KeysFacts, SeqFacts
    <2> HIDE DEF cur
    <2>2. QED  BY <1>1, <1>3, <2>1, NextInFacts, Pools
  <1>6. \A d, e : Behind(ix, i, d, e) <=>
          \/ d = i.dir /\ Precedes(Edges(cur, i.tag), i.pos, e)
          \/ /\ d = i.dir /\ i.key_pos # Null
             /\ \E t \in Tags : Precedes(Keys(cur), i.tag, t) /\ e \in Range(Edges(cur, t))
          \/ /\ d = "out" /\ i.more
             /\ \E t \in Tags : (i.key_pos = Null => t = i.tag) /\ e \in Range(Edges(out, t))
    BY DEF Behind, Listed
  <1>7. CASE p # Null
    <2>1. j = [i EXCEPT !.pos = p]
      BY <1>7 DEF next
    <2> HIDE DEF j, p, cur, out
    <2>2. /\ j \in Iterator /\ j.node = i.node /\ j.dir = i.dir /\ j.more = i.more
          /\ j.key_pos = i.key_pos /\ j.tag = i.tag /\ j.pos = p /\ ~j.vacant /\ ~j.dead
      BY <1>1, <1>4, <1>7, <2>1 DEF Iterator
    <2>3. Standing(ix, j)
      BY <1>1, <1>4, <1>7, <2>2 DEF Standing, Listed, cur
    <2>4. \A d, e : Behind(ix, j, d, e) <=>
            \/ d = i.dir /\ Precedes(Edges(cur, i.tag), p, e)
            \/ /\ d = i.dir /\ i.key_pos # Null
               /\ \E t \in Tags : Precedes(Keys(cur), i.tag, t) /\ e \in Range(Edges(cur, t))
            \/ /\ d = "out" /\ i.more
               /\ \E t \in Tags : (i.key_pos = Null => t = i.tag) /\ e \in Range(Edges(out, t))
      BY <2>2 DEF Behind, Listed, cur, out
    <2>5. \A d, e : Behind(ix, i, d, e) <=> Ahead(ix, j, d, e)
      BY <1>4, <1>6, <1>7, <2>2, <2>4 DEF Ahead
    <2>6. QED  BY <1>7, <2>2, <2>3, <2>5 DEF j
  <1>8. CASE p = Null
    <2> DEFINE z == [i EXCEPT !.pos = Null]
    <2>1. j = next_list(z, cur, out)
      BY <1>8 DEF next
    <2>2. /\ z \in Iterator /\ z.node = i.node /\ z.dir = i.dir /\ z.more = i.more
          /\ z.key_pos = i.key_pos /\ z.tag = i.tag /\ z.pos = Null /\ ~z.vacant /\ ~z.dead
      BY <1>1 DEF Iterator
    <2> HIDE DEF z
    <2>3. CASE i.key_pos = Null /\ ~i.more
      <3>1. j = z
        BY <2>1, <2>2, <2>3 DEF next_list, switch_direction
      <3> HIDE DEF j, p, cur, out
      <3>2. Standing(ix, z)
        BY <1>1, <2>2 DEF Standing
      <3>3. \A d, e : ~Behind(ix, i, d, e)
        BY <1>4, <1>6, <1>8, <2>3
      <3>4. QED  BY <2>2, <3>1, <3>2, <3>3 DEF j
    <2>4. CASE i.key_pos = Null /\ i.more
      <3> DEFINE f == get_first(out, i.tag)
      <3>1. j = [z EXCEPT !.dir = "out", !.more = FALSE, !.pos = f]
        BY <2>1, <2>2, <2>4 DEF next_list, switch_direction
      <3> HIDE DEF j, p, cur, out
      <3>2. /\ f \in EPool \cup {Null}
            /\ f = Null => Range(Edges(out, i.tag)) = {}
            /\ f # Null => /\ f \in Range(Edges(out, i.tag))
                           /\ \A e : e \in Range(Edges(out, i.tag)) <=> e = f \/ Precedes(Edges(out, i.tag), f, e)
        BY <1>2, GetFirstFacts
      <3> HIDE DEF f
      <3>3. /\ j \in Iterator /\ j.node = i.node /\ j.dir = "out" /\ j.more = FALSE
            /\ j.key_pos = Null /\ j.tag = i.tag /\ j.pos = f /\ ~j.vacant /\ ~j.dead
        BY <2>2, <2>4, <3>1, <3>2 DEF Iterator, Dirs
      <3>4. Standing(ix, j)
        BY <1>1, <3>2, <3>3 DEF Standing, Listed, out
      <3>5. \A d, e : Behind(ix, i, d, e) <=> d = "out" /\ e \in Range(Edges(out, i.tag))
        BY <1>1, <1>4, <1>6, <1>8, <2>4
      <3>6. \A d, e : Behind(ix, j, d, e) <=> d = "out" /\ Precedes(Edges(out, i.tag), f, e)
        BY <3>3 DEF Behind, out
      <3>7. f # Null => \A d, e : Behind(ix, i, d, e) <=> Ahead(ix, j, d, e)
        BY <3>2, <3>3, <3>5, <3>6 DEF Ahead
      <3>8. f = Null => \A d, e : ~Behind(ix, i, d, e)
        BY <3>2, <3>5
      <3>9. QED  BY <3>3, <3>4, <3>7, <3>8 DEF j
    <2>5. CASE i.key_pos # Null /\ k # Null
      <3> DEFINE f == get_first(cur, k)
      <3>1. j = [z EXCEPT !.key_pos = k, !.tag = k, !.pos = f]
        BY <2>1, <2>2, <2>5 DEF next_list
      <3> HIDE DEF j, p, cur, out, k
      <3>2. /\ f \in EPool \cup {Null} /\ f # Null /\ f \in Range(Edges(cur, k))
            /\ \A e : e \in Range(Edges(cur, k)) <=> e = f \/ Precedes(Edges(cur, k), f, e)
        BY <1>2, <1>5, <2>5, GetFirstFacts
      <3> HIDE DEF f
      <3>3. /\ j \in Iterator /\ j.node = i.node /\ j.dir = i.dir /\ j.more = i.more
            /\ j.key_pos = k /\ j.tag = k /\ j.pos = f /\ ~j.vacant /\ ~j.dead
        BY <1>5, <2>2, <2>5, <3>1, <3>2 DEF Iterator
      <3>4. Standing(ix, j)
        BY <1>1, <1>5, <2>5, <3>2, <3>3 DEF Standing, Listed, cur
      <3>5. \A d, e : Behind(ix, j, d, e) <=>
              \/ d = i.dir /\ Precedes(Edges(cur, k), f, e)
              \/ d = i.dir /\ \E t \in Tags : Precedes(Keys(cur), k, t) /\ e \in Range(Edges(cur, t))
              \/ d = "out" /\ i.more /\ \E t \in Tags : e \in Range(Edges(out, t))
        BY <2>5, <3>3 DEF Behind, Listed, cur, out
      <3>6. \A d, e : Behind(ix, i, d, e) <=>
              \/ d = i.dir /\ \E t \in Tags : Precedes(Keys(cur), i.tag, t) /\ e \in Range(Edges(cur, t))
              \/ d = "out" /\ i.more /\ \E t \in Tags : e \in Range(Edges(out, t))
        BY <1>4, <1>6, <1>8, <2>5
      <3>7. \A e : (\E t \in Tags : Precedes(Keys(cur), i.tag, t) /\ e \in Range(Edges(cur, t)))
                   <=> \/ e = f \/ Precedes(Edges(cur, k), f, e)
                       \/ \E t \in Tags : Precedes(Keys(cur), k, t) /\ e \in Range(Edges(cur, t))
        BY <1>5, <2>5, <3>2
      <3>8. \A d, e : Behind(ix, i, d, e) <=> Ahead(ix, j, d, e)
        BY <3>3, <3>5, <3>6, <3>7 DEF Ahead
      <3>9. QED  BY <3>2, <3>3, <3>4, <3>8 DEF j
    <2>6. CASE i.key_pos # Null /\ k = Null
      <3> DEFINE w == [z EXCEPT !.key_pos = Null]
      <3>1. j = switch_direction(w, out, TRUE)
        BY <2>1, <2>2, <2>6 DEF next_list
      <3>2. /\ w \in Iterator /\ w.node = i.node /\ w.dir = i.dir /\ w.more = i.more
            /\ w.key_pos = Null /\ w.tag = i.tag /\ w.pos = Null /\ ~w.vacant /\ ~w.dead
        BY <2>2 DEF Iterator
      <3> HIDE DEF w
      <3>3. \A d, e : Behind(ix, i, d, e) <=> d = "out" /\ i.more /\ \E t \in Tags : e \in Range(Edges(out, t))
        BY <1>4, <1>5, <1>6, <1>8, <2>6
      <3>4. CASE ~i.more
        <4>1. j = w
          BY <3>1, <3>2, <3>4 DEF switch_direction
        <4> HIDE DEF j, p, cur, out, k
        <4>2. Standing(ix, w)
          BY <3>2, <3>4 DEF Standing
        <4>3. QED  BY <3>2, <3>3, <3>4, <4>1, <4>2 DEF j
      <3>5. CASE i.more /\ out = <<>>
        <4>1. j = [w EXCEPT !.dead = TRUE]
          BY <3>1, <3>2, <3>5 DEF switch_direction
        <4> HIDE DEF j, p, cur, out, k
        <4>2. /\ j \in Iterator /\ j.node = i.node /\ j.dir = i.dir /\ j.more = i.more
              /\ j.key_pos = Null /\ j.tag = i.tag /\ j.pos = Null /\ ~j.vacant /\ j.dead
          BY <3>2, <4>1 DEF Iterator
        <4>3. Standing(ix, j)
          BY <1>1, <4>2 DEF Standing
        <4>4. QED  BY <4>2, <4>3 DEF j
      <3>6. CASE i.more /\ out # <<>>
        <4> DEFINE u == out[1].tag
                   f == First(out[1].edges)
        <4>1. j = [w EXCEPT !.dir = "out", !.more = FALSE, !.key_pos = u, !.tag = u, !.pos = f]
          BY <3>1, <3>2, <3>6 DEF switch_direction
        <4> HIDE DEF j, p, cur, k, out
        <4>2. 1 \in DOMAIN out /\ u \in Tags /\ u \in Range(Keys(out)) /\ Keys(out)[1] = u
          <5>1. 1 \in DOMAIN out
            <6>1. Len(out) \in Nat /\ DOMAIN out = 1 .. Len(out) /\ out \in Seq(Bucket)
              BY <1>2, KeysFacts
            <6>2. Len(out) # 0
              BY <3>6, <6>1, SeqFacts
            <6>3. QED  BY <6>1, <6>2
          <5>2. QED  BY <1>2, <5>1, KeysFacts
        <4>3. f = get_first(out, u)
          <5>1. Edges(out, u) = out[1].edges
            BY <1>2, <4>2, BucketFacts
          <5>2. QED  BY <5>1 DEF get_first
        <4> HIDE DEF u, f
        <4>4. /\ f \in EPool \cup {Null} /\ f # Null /\ f \in Range(Edges(out, u))
              /\ \A e : e \in Range(Edges(out, u)) <=> e = f \/ Precedes(Edges(out, u), f, e)
          BY <1>2, <4>2, <4>3, GetFirstFacts
        <4>5. /\ j \in Iterator /\ j.node = i.node /\ j.dir = "out" /\ j.more = FALSE
              /\ j.key_pos = u /\ j.tag = u /\ j.pos = f /\ ~j.vacant /\ ~j.dead
          BY <3>2, <4>1, <4>2, <4>4 DEF Iterator, Dirs
        <4>6. Standing(ix, j)
          BY <1>1, <4>2, <4>4, <4>5 DEF Standing, Listed, out
        <4>7. \A t : t \in Range(Keys(out)) <=> t = u \/ Precedes(Keys(out), u, t)
          <5>1. Keys(out) \in Seq(Tags) /\ IsInjective(Keys(out)) /\ Keys(out) # <<>>
            <6>1. Keys(out) \in Seq(Tags) /\ IsInjective(Keys(out))
              BY <1>2, KeysFacts
            <6>2. QED  BY <4>2, <6>1, FirstFacts, Pools
          <5>2. First(Keys(out)) = u /\ u # Null
            BY <4>2, <5>1, Pools DEF First
          <5>3. QED  BY <5>1, <5>2, FirstFacts, Pools
        <4>8. \A e : (\E t \in Tags : e \in Range(Edges(out, t)))
                     <=> \/ e = f \/ Precedes(Edges(out, u), f, e)
                         \/ \E t \in Tags : Precedes(Keys(out), u, t) /\ e \in Range(Edges(out, t))
          <5>1. \A e, t : e \in Range(Edges(out, t)) => t \in Range(Keys(out))
            BY <1>2, EdgesFacts
          <5>2. QED  BY <4>2, <4>4, <4>7, <5>1
        <4>9. \A d, e : Behind(ix, j, d, e) <=>
                \/ d = "out" /\ Precedes(Edges(out, u), f, e)
                \/ d = "out" /\ \E t \in Tags : Precedes(Keys(out), u, t) /\ e \in Range(Edges(out, t))
          <5>1. u # Null
            BY <4>2, Pools
          <5>2. QED  BY <4>5, <5>1 DEF Behind, Listed, out
        <4>10. \A d, e : Behind(ix, i, d, e) <=> Ahead(ix, j, d, e)
          BY <3>3, <3>6, <4>5, <4>8, <4>9 DEF Ahead
        <4>11. QED  BY <4>4, <4>5, <4>6, <4>10 DEF j
      <3>7. QED  BY <3>4, <3>5, <3>6
    <2>7. QED  BY <1>1, <2>3, <2>4, <2>5, <2>6
  <1>9. QED  BY <1>7, <1>8

\* The indices after an edge left one of them.
Unlisted(ix, n, d, t, e) == [ix EXCEPT ![n][d] = remove(@, t, e)]

\* remove() of the edge index takes out one edge, and nothing else moves.
LEMMA UnlistedFacts ==
  ASSUME NEW ix, Shape(ix), NEW n \in NPool, NEW d \in Dirs, NEW t, NEW e \in Listed(ix, n, d, t)
  PROVE  LET iy == Unlisted(ix, n, d, t, e)
         IN /\ Shape(iy)
            /\ \A m \in NPool, c \in Dirs : \A u, a :
                 a \in Listed(iy, m, c, u) <=> a \in Listed(ix, m, c, u) /\ ~(m = n /\ c = d /\ a = e)
            /\ \A m \in NPool, c \in Dirs : \A u, a, b :
                 Precedes(Edges(iy[m][c], u), a, b) <=>
                   Precedes(Edges(ix[m][c], u), a, b) /\ {a, b} \subseteq Listed(iy, m, c, u)
            /\ \A m \in NPool, c \in Dirs : \A a, b :
                 Precedes(Keys(iy[m][c]), a, b) <=>
                   Precedes(Keys(ix[m][c]), a, b) /\ Listed(iy, m, c, a) # {} /\ Listed(iy, m, c, b) # {}
  <1> DEFINE iy == Unlisted(ix, n, d, t, e)
             x == ix[n][d]
             y == remove(x, t, e)
  <1>1. ix \in [NPool -> [Dirs -> {z \in Seq(Bucket) : WellFormed(z)}]]
    BY DEF Shape
  <1>2. WellFormed(x) /\ e \in Range(Edges(x, t))
    BY ShapeFacts DEF Listed
  <1>3. /\ WellFormed(y)
        /\ \A u, a : a \in Range(Edges(y, u)) <=> a \in Range(Edges(x, u)) /\ ~(u = t /\ a = e)
        /\ \A u, a, b : Precedes(Edges(y, u), a, b) <=>
             Precedes(Edges(x, u), a, b) /\ {a, b} \subseteq Range(Edges(y, u))
        /\ \A a, b : Precedes(Keys(y), a, b) <=>
             Precedes(Keys(x), a, b) /\ {a, b} \subseteq Range(Keys(y))
    BY <1>2, RemoveFacts
  <1>4. y \in {z \in Seq(Bucket) : WellFormed(z)}
    BY <1>3 DEF WellFormed
  <1>5. iy = [ix EXCEPT ![n] = [ix[n] EXCEPT ![d] = y]]
    BY DEF Unlisted
  <1> HIDE DEF iy, y
  <1>6. Shape(iy) /\ \A m \in NPool, c \in Dirs : iy[m][c] = IF m = n /\ c = d THEN y ELSE ix[m][c]
    BY <1>1, <1>4, <1>5 DEF Shape
  <1>7. \A u, a : a \in Range(Edges(y, u)) <=> a \in Range(Edges(x, u)) /\ a # e
    BY <1>2, <1>3, EdgesFacts
  <1>8. \A m \in NPool, c \in Dirs : \A u, a :
          a \in Listed(iy, m, c, u) <=> a \in Listed(ix, m, c, u) /\ ~(m = n /\ c = d /\ a = e)
    BY <1>6, <1>7 DEF Listed
  <1>9. ASSUME NEW m \in NPool, NEW c \in Dirs, NEW u, NEW a, NEW b
        PROVE  Precedes(Edges(iy[m][c], u), a, b) <=>
                 Precedes(Edges(ix[m][c], u), a, b) /\ {a, b} \subseteq Listed(iy, m, c, u)
    <2>1. CASE m = n /\ c = d  BY <1>3, <1>6, <2>1 DEF Listed
    <2>2. CASE ~(m = n /\ c = d)
      <3>1. iy[m][c] = ix[m][c] /\ WellFormed(ix[m][c])
        BY <1>6, <2>2, ShapeFacts
      <3>2. Precedes(Edges(ix[m][c], u), a, b) => {a, b} \subseteq Range(Edges(ix[m][c], u))
        BY <3>1, EdgesFacts, PrecedesFacts
      <3>3. QED  BY <3>1, <3>2 DEF Listed
    <2>3. QED  BY <2>1, <2>2
  <1>10. ASSUME NEW m \in NPool, NEW c \in Dirs, NEW a, NEW b
         PROVE  Precedes(Keys(iy[m][c]), a, b) <=>
                  Precedes(Keys(ix[m][c]), a, b) /\ Listed(iy, m, c, a) # {} /\ Listed(iy, m, c, b) # {}
    <2>1. WellFormed(iy[m][c])
      BY <1>6, ShapeFacts
    <2>2. \A u : Listed(iy, m, c, u) # {} <=> u \in Range(Keys(iy[m][c]))
      BY <2>1, EdgesFacts DEF Listed
    <2>3. CASE m = n /\ c = d
      BY <1>3, <1>6, <2>2, <2>3
    <2>4. CASE ~(m = n /\ c = d)
      <3>1. iy[m][c] = ix[m][c]
        BY <1>6, <2>4
      <3>2. Precedes(Keys(ix[m][c]), a, b) => {a, b} \subseteq Range(Keys(ix[m][c]))
        BY <2>1, <3>1, KeysFacts, PrecedesFacts
      <3>3. QED  BY <2>2, <3>1, <3>2
    <2>5. QED  BY <2>3, <2>4
  <1>11. QED  BY <1>6, <1>8, <1>9, <1>10 DEF iy

\* An iterator that stands elsewhere misses the edge, and nothing else.
LEMMA ElsewhereFacts ==
  ASSUME NEW ix, Shape(ix), NEW n \in NPool, NEW d \in Dirs, NEW t, NEW e \in Listed(ix, n, d, t),
         NEW i, Standing(ix, i), ~(i.node = n /\ i.dir = d /\ i.pos = e)
  PROVE  LET iy == Unlisted(ix, n, d, t, e)
         IN /\ Standing(iy, i)
            /\ i.pos # Null => \A c, a :
                 Behind(iy, i, c, a) <=> Behind(ix, i, c, a) /\ ~(i.node = n /\ c = d /\ a = e)
  <1> DEFINE iy == Unlisted(ix, n, d, t, e)
  <1>1. /\ Shape(iy)
        /\ \A m \in NPool, c \in Dirs : \A u, a :
             a \in Listed(iy, m, c, u) <=> a \in Listed(ix, m, c, u) /\ ~(m = n /\ c = d /\ a = e)
        /\ \A m \in NPool, c \in Dirs : \A u, a, b :
             Precedes(Edges(iy[m][c], u), a, b) <=>
               Precedes(Edges(ix[m][c], u), a, b) /\ {a, b} \subseteq Listed(iy, m, c, u)
        /\ \A m \in NPool, c \in Dirs : \A a, b :
             Precedes(Keys(iy[m][c]), a, b) <=>
               Precedes(Keys(ix[m][c]), a, b) /\ Listed(iy, m, c, a) # {} /\ Listed(iy, m, c, b) # {}
    BY UnlistedFacts
  <1> HIDE DEF iy
  <1>2. Standing(iy, i)
    <2>1. CASE i.pos = Null  BY <2>1 DEF Standing
    <2>2. CASE i.pos # Null
      <3>1. i.node \in NPool /\ i.dir \in Dirs /\ i.pos \in Listed(ix, i.node, i.dir, i.tag)
        BY <2>2 DEF Standing, Iterator
      <3>2. i.pos \in Listed(iy, i.node, i.dir, i.tag)
        BY <1>1, <3>1
      <3>3. QED  BY <3>2 DEF Standing
    <2>3. QED  BY <2>1, <2>2
  <1>3. ASSUME i.pos # Null, NEW c, NEW a
        PROVE  Behind(iy, i, c, a) <=> Behind(ix, i, c, a) /\ ~(i.node = n /\ c = d /\ a = e)
    <2>1. /\ i.node \in NPool /\ i.dir \in Dirs /\ i.pos \in Listed(iy, i.node, i.dir, i.tag)
          /\ i.pos \in Listed(ix, i.node, i.dir, i.tag)
      BY <1>2, <1>3 DEF Standing, Iterator
    <2>2. ASSUME c = i.dir
          PROVE  Precedes(Edges(iy[i.node][c], i.tag), i.pos, a) <=>
                 Precedes(Edges(ix[i.node][c], i.tag), i.pos, a) /\ ~(i.node = n /\ c = d /\ a = e)
      <3>1. Precedes(Edges(ix[i.node][c], i.tag), i.pos, a) => a \in Listed(ix, i.node, c, i.tag)
        BY <2>1, <2>2, ShapeFacts, EdgesFacts, PrecedesFacts DEF Listed
      <3>2. c \in Dirs /\ (a \in Listed(iy, i.node, c, i.tag) <=>
                           a \in Listed(ix, i.node, c, i.tag) /\ ~(i.node = n /\ c = d /\ a = e))
        BY <1>1, <2>1, <2>2
      <3>3. Precedes(Edges(iy[i.node][c], i.tag), i.pos, a) <=>
            Precedes(Edges(ix[i.node][c], i.tag), i.pos, a) /\ {i.pos, a} \subseteq Listed(iy, i.node, c, i.tag)
        <4>1. \A m \in NPool, g \in Dirs : \A u, x, b :
                Precedes(Edges(iy[m][g], u), x, b) <=>
                  Precedes(Edges(ix[m][g], u), x, b) /\ {x, b} \subseteq Listed(iy, m, g, u)
          BY <1>1
        <4>2. i.node \in NPool /\ c \in Dirs
          BY <2>1, <3>2
        <4>3. QED  BY <4>1, <4>2
      <3>4. QED  BY <2>1, <2>2, <3>1, <3>2, <3>3
    <2>3. ASSUME c = i.dir, NEW u \in Tags
          PROVE  (Precedes(Keys(iy[i.node][c]), i.tag, u) /\ a \in Listed(iy, i.node, c, u)) <=>
                 /\ Precedes(Keys(ix[i.node][c]), i.tag, u) /\ a \in Listed(ix, i.node, c, u)
                 /\ ~(i.node = n /\ c = d /\ a = e)
      BY <1>1, <2>1, <2>3
    <2>4. ASSUME c = "out", NEW u \in Tags
          PROVE  a \in Listed(iy, i.node, c, u) <=>
                 a \in Listed(ix, i.node, c, u) /\ ~(i.node = n /\ c = d /\ a = e)
      BY <1>1, <2>1, <2>4 DEF Dirs
    <2>5. QED  BY <2>2, <2>3, <2>4 DEF Behind
  <1>4. QED  BY <1>2, <1>3 DEF iy

\* remove_notify and the removal: the iterator stands on a listed edge, and
\* what it has yet to show is what it had, without the edge.
LEMMA NotifyFacts ==
  ASSUME NEW ix, Shape(ix), NEW n \in NPool, NEW d \in Dirs, NEW t, NEW e \in Listed(ix, n, d, t),
         NEW i, Standing(ix, i)
  PROVE  LET iy == Unlisted(ix, n, d, t, e)
             j == remove_notify(i, ix[i.node], n, d, e)
         IN /\ Standing(iy, j)
            /\ i.node = n /\ i.dir = d /\ i.pos = e => j.vacant
            /\ ~(i.node = n /\ i.dir = d /\ i.pos = e) => j = i
            /\ j.node = i.node
            /\ ~j.dead => ~i.dead
            /\ ~j.dead => \A c, a :
                 Coming(iy, j, c, a) <=> Coming(ix, i, c, a) /\ ~(i.node = n /\ c = d /\ a = e)
            /\ ~j.dead => \A c, a :
                 (j.pos # Null /\ Ahead(iy, j, c, a)) <=>
                   i.pos # Null /\ Ahead(ix, i, c, a) /\ ~(i.node = n /\ c = d /\ a = e)
  <1> DEFINE iy == Unlisted(ix, n, d, t, e)
             j == remove_notify(i, ix[i.node], n, d, e)
             Here == i.node = n /\ i.dir = d /\ i.pos = e
  <1>1. CASE ~Here
    <2>1. j = i
      <3>1. <<i.node, i.dir, i.pos>> # <<n, d, e>>
        BY <1>1
      <3>2. QED  BY <3>1 DEF remove_notify
    <2>2. /\ Standing(iy, i)
          /\ i.pos # Null => \A c, a :
               Behind(iy, i, c, a) <=> Behind(ix, i, c, a) /\ ~(i.node = n /\ c = d /\ a = e)
      BY <1>1, ElsewhereFacts
    <2> HIDE DEF j, iy
    <2>3. \A c, a : i.pos # Null =>
            (Ahead(iy, i, c, a) <=> Ahead(ix, i, c, a) /\ ~(i.node = n /\ c = d /\ a = e))
      BY <1>1, <2>2 DEF Ahead
    <2>4. \A c, a : Coming(iy, i, c, a) <=> Coming(ix, i, c, a) /\ ~(i.node = n /\ c = d /\ a = e)
      BY <2>2, <2>3 DEF Coming
    <2>5. QED  BY <1>1, <2>1, <2>2, <2>3, <2>4 DEF j, iy
  <1>2. CASE Here
    <2> DEFINE z == [i EXCEPT !.vacant = FALSE]
               k == next(z, ix[z.node])
    <2>1. /\ i \in Iterator /\ e \in EPool /\ e # Null
      <3>1. e \in EPool
        BY ShapeFacts, EdgesFacts DEF Listed
      <3>2. QED  BY <3>1, Pools DEF Standing
    <2>2. ~i.dead /\ i.pos # Null
      BY <1>2, <2>1 DEF Standing
    <2>3. /\ z \in Iterator /\ z.node = i.node /\ z.dir = i.dir /\ z.more = i.more
          /\ z.key_pos = i.key_pos /\ z.tag = i.tag /\ z.pos = i.pos /\ ~z.vacant /\ ~z.dead
      BY <2>1, <2>2 DEF Iterator
    <2>4. j = [k EXCEPT !.vacant = TRUE]
      <3>1. <<i.node, i.dir, i.pos>> = <<n, d, e>>
        BY <1>2
      <3>2. QED  BY <2>3, <3>1 DEF remove_notify
    <2> HIDE DEF z
    <2>5. Standing(ix, z) /\ \A c, a : Behind(ix, z, c, a) <=> Behind(ix, i, c, a)
      BY <2>3 DEF Standing, Behind
    <2>6. /\ Standing(ix, k) /\ ~k.vacant /\ k.node = i.node
          /\ ~k.dead /\ k.pos = Null => \A c, a : ~Behind(ix, z, c, a)
          /\ k.pos # Null => \A c, a : Behind(ix, z, c, a) <=> Ahead(ix, k, c, a)
      BY <2>2, <2>3, <2>5, NextFacts
    <2> HIDE DEF k, j, iy
    <2>7. /\ j \in Iterator /\ j.node = k.node /\ j.dir = k.dir /\ j.more = k.more
          /\ j.key_pos = k.key_pos /\ j.tag = k.tag /\ j.pos = k.pos /\ j.vacant /\ j.dead = k.dead
      BY <2>4, <2>6 DEF Iterator, Standing
    <2>8. /\ Standing(ix, j)
          /\ \A c, a : Behind(ix, k, c, a) <=> Behind(ix, j, c, a)
          /\ \A c, a : Ahead(ix, k, c, a) <=> Ahead(ix, j, c, a)
      BY <2>6, <2>7 DEF Standing, Behind, Ahead
    <2>9. ~Behind(ix, i, i.dir, i.pos)
      BY <2>2, NotBehindItself
    <2>10. ~(j.node = n /\ j.dir = d /\ j.pos = e)
      BY <1>2, <2>2, <2>5, <2>6, <2>7, <2>8, <2>9 DEF Ahead
    <2>11. /\ Standing(iy, j)
           /\ j.pos # Null => \A c, a :
                Behind(iy, j, c, a) <=> Behind(ix, j, c, a) /\ ~(j.node = n /\ c = d /\ a = e)
      BY <2>8, <2>10, ElsewhereFacts DEF iy
    <2>12. \A c, a : j.pos # Null =>
             (Ahead(iy, j, c, a) <=> Ahead(ix, j, c, a) /\ ~(j.node = n /\ c = d /\ a = e))
      BY <2>10, <2>11 DEF Ahead
    <2>13. ~j.dead => \A c, a : (j.pos # Null /\ Ahead(ix, j, c, a)) <=> Behind(ix, i, c, a)
      BY <2>5, <2>6, <2>7, <2>8
    <2>14. \A c, a : Behind(ix, i, c, a) <=> Ahead(ix, i, c, a) /\ ~(i.node = n /\ c = d /\ a = e)
      BY <1>2, <2>9 DEF Ahead
    <2>15. ~j.dead => \A c, a :
             (j.pos # Null /\ Ahead(iy, j, c, a)) <=>
               i.pos # Null /\ Ahead(ix, i, c, a) /\ ~(i.node = n /\ c = d /\ a = e)
      BY <2>2, <2>6, <2>7, <2>12, <2>13, <2>14
    <2>16. ~j.dead => \A c, a :
             Coming(iy, j, c, a) <=> Coming(ix, i, c, a) /\ ~(i.node = n /\ c = d /\ a = e)
      <3>1. \A c, a : Coming(iy, j, c, a) <=> j.pos # Null /\ Ahead(iy, j, c, a)
        BY <2>7 DEF Coming
      <3>2. \A c, a : (Coming(ix, i, c, a) /\ ~(i.node = n /\ c = d /\ a = e)) <=>
               i.pos # Null /\ Ahead(ix, i, c, a) /\ ~(i.node = n /\ c = d /\ a = e)
        BY <1>2, <2>14 DEF Coming
      <3>3. QED  BY <2>15, <3>1, <3>2
    <2>17. QED  BY <1>2, <2>2, <2>6, <2>7, <2>11, <2>15, <2>16 DEF j, iy
  <1>3. QED  BY <1>1, <1>2

\* The indices after an edge was added to one of them.
Inserted(ix, n, d, t, e) == [ix EXCEPT ![n][d] = add(@, t, e)]

\* add() of the edge index puts in one edge, in front of its list, and the
\* rest keeps its order.
LEMMA InsertedFacts ==
  ASSUME NEW ix, Shape(ix), NEW n \in NPool, NEW d \in Dirs, NEW t \in Tags, NEW e \in EPool,
         \A u : e \notin Listed(ix, n, d, u)
  PROVE  LET iy == Inserted(ix, n, d, t, e)
         IN /\ Shape(iy) /\ \A m \in NPool : m # n => iy[m] = ix[m]
            /\ \A m \in NPool, c \in Dirs : \A u, a :
                 a \in Listed(iy, m, c, u) <=>
                   a \in Listed(ix, m, c, u) \/ (m = n /\ c = d /\ u = t /\ a = e)
            /\ \A m \in NPool, c \in Dirs : \A u, a, b : ~(m = n /\ c = d /\ a = e) =>
                 (Precedes(Edges(iy[m][c], u), a, b) <=> Precedes(Edges(ix[m][c], u), a, b))
            /\ \A m \in NPool, c \in Dirs : \A a, b : Listed(ix, m, c, a) # {} =>
                 (Precedes(Keys(iy[m][c]), a, b) <=> Precedes(Keys(ix[m][c]), a, b))
  <1> DEFINE iy == Inserted(ix, n, d, t, e)
             x == ix[n][d]
             y == add(x, t, e)
  <1>1. ix \in [NPool -> [Dirs -> {z \in Seq(Bucket) : WellFormed(z)}]]
    BY DEF Shape
  <1>2. WellFormed(x) /\ \A u : e \notin Range(Edges(x, u))
    BY ShapeFacts DEF Listed
  <1>3. /\ WellFormed(y)
        /\ \A u, a : a \in Range(Edges(y, u)) <=> a \in Range(Edges(x, u)) \/ (u = t /\ a = e)
        /\ \A u, a, b : Precedes(Edges(y, u), a, b) <=>
             Precedes(Edges(x, u), a, b) \/ (u = t /\ a = e /\ b \in Range(Edges(x, t)))
        /\ \A a, b : a \in Range(Keys(x)) => (Precedes(Keys(x), a, b) <=> Precedes(Keys(y), a, b))
    BY <1>2, AddFacts
  <1>4. y \in {z \in Seq(Bucket) : WellFormed(z)}
    BY <1>3 DEF WellFormed
  <1>5. iy = [ix EXCEPT ![n] = [ix[n] EXCEPT ![d] = y]]
    BY DEF Inserted
  <1> HIDE DEF iy, y
  <1>6. /\ Shape(iy) /\ \A m \in NPool : m # n => iy[m] = ix[m]
        /\ \A m \in NPool, c \in Dirs : iy[m][c] = IF m = n /\ c = d THEN y ELSE ix[m][c]
    BY <1>1, <1>4, <1>5 DEF Shape
  <1>7. \A m \in NPool, c \in Dirs : \A u, a :
          a \in Listed(iy, m, c, u) <=> a \in Listed(ix, m, c, u) \/ (m = n /\ c = d /\ u = t /\ a = e)
    BY <1>3, <1>6 DEF Listed
  <1>8. \A m \in NPool, c \in Dirs : \A u, a, b : ~(m = n /\ c = d /\ a = e) =>
          (Precedes(Edges(iy[m][c], u), a, b) <=> Precedes(Edges(ix[m][c], u), a, b))
    BY <1>3, <1>6
  <1>9. ASSUME NEW m \in NPool, NEW c \in Dirs, NEW a, NEW b, Listed(ix, m, c, a) # {}
        PROVE  Precedes(Keys(iy[m][c]), a, b) <=> Precedes(Keys(ix[m][c]), a, b)
    <2>1. a \in Range(Keys(ix[m][c]))
      BY <1>9, ShapeFacts, EdgesFacts DEF Listed
    <2>2. QED  BY <1>3, <1>6, <2>1
  <1>10. QED  BY <1>6, <1>7, <1>8, <1>9 DEF iy

\* An iterator keeps its place, and misses nothing.
LEMMA AddedFacts ==
  ASSUME NEW ix, Shape(ix), NEW n \in NPool, NEW d \in Dirs, NEW t \in Tags, NEW e \in EPool,
         \A u : e \notin Listed(ix, n, d, u), NEW i, Standing(ix, i)
  PROVE  LET iy == Inserted(ix, n, d, t, e)
         IN /\ Standing(iy, i)
            /\ i.pos # Null => \A c, a :
                 /\ Behind(ix, i, c, a) => Behind(iy, i, c, a)
                 /\ Behind(iy, i, c, a) => Behind(ix, i, c, a) \/ a = e
  <1> DEFINE iy == Inserted(ix, n, d, t, e)
  <1>1. \A m \in NPool, c \in Dirs : \A u, a :
          a \in Listed(iy, m, c, u) <=> a \in Listed(ix, m, c, u) \/ (m = n /\ c = d /\ u = t /\ a = e)
    BY InsertedFacts
  <1>2. \A m \in NPool, c \in Dirs : \A u, a, b : ~(m = n /\ c = d /\ a = e) =>
          (Precedes(Edges(iy[m][c], u), a, b) <=> Precedes(Edges(ix[m][c], u), a, b))
    BY InsertedFacts
  <1>3. \A m \in NPool, c \in Dirs : \A a, b : Listed(ix, m, c, a) # {} =>
          (Precedes(Keys(iy[m][c]), a, b) <=> Precedes(Keys(ix[m][c]), a, b))
    BY InsertedFacts
  <1> HIDE DEF iy
  <1>4. CASE i.pos = Null
    BY <1>4 DEF Standing, iy
  <1>5. CASE i.pos # Null
    <2>1. i.node \in NPool /\ i.dir \in Dirs /\ i.pos \in Listed(ix, i.node, i.dir, i.tag)
      BY <1>5 DEF Standing, Iterator
    <2>2. Standing(iy, i)
      BY <1>1, <2>1 DEF Standing
    <2>3. ~(i.node = n /\ i.dir = d /\ i.pos = e) /\ Listed(ix, i.node, i.dir, i.tag) # {}
      BY <2>1
    <2>4. ASSUME NEW c, NEW a
          PROVE  /\ Behind(ix, i, c, a) => Behind(iy, i, c, a)
                 /\ Behind(iy, i, c, a) => Behind(ix, i, c, a) \/ a = e
      <3>1. c = i.dir => (Precedes(Edges(iy[i.node][c], i.tag), i.pos, a) <=>
                          Precedes(Edges(ix[i.node][c], i.tag), i.pos, a))
        BY <1>2, <2>1, <2>3
      <3>2. \A u : c = i.dir => (Precedes(Keys(iy[i.node][c]), i.tag, u) <=>
                                 Precedes(Keys(ix[i.node][c]), i.tag, u))
        BY <1>3, <2>1, <2>3
      <3>3. \A u : c \in Dirs =>
              (a \in Listed(iy, i.node, c, u) <=>
                 a \in Listed(ix, i.node, c, u) \/ (i.node = n /\ c = d /\ u = t /\ a = e))
        BY <1>1, <2>1
      <3>4. c = "out" \/ c = i.dir => c \in Dirs
        BY <2>1 DEF Dirs
      <3>5. QED  BY <3>1, <3>2, <3>3, <3>4 DEF Behind
    <2>5. QED  BY <2>2, <2>4 DEF iy
  <1>6. QED  BY <1>4, <1>5

-----------------------------------------------------------------------------
(***************************************************************************)
(* Opening an iterator.                                                    *)
(***************************************************************************)
\* The head of the list of tags.
LEMMA FirstKey ==
  ASSUME NEW x, WellFormed(x), x # <<>>
  PROVE  /\ 1 \in DOMAIN x /\ x[1].tag \in Tags /\ x[1].tag \in Range(Keys(x)) /\ x[1].tag # Null
         /\ First(x[1].edges) = get_first(x, x[1].tag)
         /\ \A t : t \in Range(Keys(x)) <=> t = x[1].tag \/ Precedes(Keys(x), x[1].tag, t)
  <1>1. 1 \in DOMAIN x
    <2>1. Len(x) \in Nat /\ DOMAIN x = 1 .. Len(x) /\ x \in Seq(Bucket)
      BY KeysFacts
    <2>2. Len(x) # 0
      BY <2>1, SeqFacts
    <2>3. QED  BY <2>1, <2>2
  <1>2. x[1].tag \in Tags /\ x[1].tag \in Range(Keys(x)) /\ Keys(x)[1] = x[1].tag /\ x[1].tag # Null
    BY <1>1, KeysFacts, Pools
  <1>3. Edges(x, x[1].tag) = x[1].edges
    BY <1>1, BucketFacts
  <1>4. First(x[1].edges) = get_first(x, x[1].tag)
    BY <1>3 DEF get_first
  <1>5. Keys(x) \in Seq(Tags) /\ IsInjective(Keys(x))
    BY KeysFacts
  <1>6. Keys(x) # <<>>
    BY <1>2, <1>5, FirstFacts, Pools
  <1>7. First(Keys(x)) = x[1].tag
    BY <1>2, <1>6 DEF First
  <1>8. QED  BY <1>1, <1>2, <1>4, <1>5, <1>7, FirstFacts, Pools

\* Iterator i shows the edges in index x of node n, direction d and tag g.
Starts(x, i, n, d, g) ==
  /\ i.node = n /\ i.dir = d /\ ~i.more /\ ~i.vacant /\ ~i.dead
  /\ g # Null => i.key_pos = Null /\ i.tag = g
  /\ g = Null => i.key_pos # Null
  /\ i.pos = Null => g # Null /\ Range(Edges(x, g)) = {}
  /\ i.pos # Null => \A e :
       (\E t \in Tags : e \in Range(Edges(x, t)) /\ g \in {Null, t}) <=>
         \/ e = i.pos \/ Precedes(Edges(x, i.tag), i.pos, e)
         \/ /\ i.key_pos # Null
            /\ \E t \in Tags : Precedes(Keys(x), i.tag, t) /\ e \in Range(Edges(x, t))

\* An iterator over one direction starts at the first edge of what it asks for.
LEMMA OneWayFacts ==
  ASSUME NEW ix, Shape(ix), NEW n \in NPool, NEW d \in Dirs, NEW g \in Tags \cup {Null},
         g = Null => ix[n][d] # <<>>
  PROVE  /\ Standing(ix, OneWay(n, d, ix[n], g))
         /\ Starts(ix[n][d], OneWay(n, d, ix[n], g), n, d, g)
  <1> DEFINE x == ix[n][d]
             i == OneWay(n, d, ix[n], g)
             u == IF g = Null THEN x[1].tag ELSE g
             f == get_first(x, u)
  <1>1. WellFormed(x)
    BY ShapeFacts
  <1>2. g = Null =>
          /\ x[1].tag \in Tags /\ x[1].tag \in Range(Keys(x)) /\ x[1].tag # Null
          /\ First(x[1].edges) = get_first(x, x[1].tag)
          /\ \A t : t \in Range(Keys(x)) <=> t = x[1].tag \/ Precedes(Keys(x), x[1].tag, t)
    BY <1>1, FirstKey
  <1>3. i = [NoIterator EXCEPT !.node = n, !.dir = d, !.key_pos = IF g = Null THEN u ELSE Null,
                               !.tag = u, !.pos = f]
    BY <1>2 DEF OneWay
  <1> HIDE DEF i
  <1>4. u \in Tags /\ f \in EPool \cup {Null} /\ u # Null
    BY <1>1, <1>2, GetFirstFacts, Pools
  <1>5. /\ u \notin Range(Keys(x)) => f = Null /\ Range(Edges(x, u)) = {}
        /\ u \in Range(Keys(x)) =>
             /\ f # Null /\ f \in Range(Edges(x, u))
             /\ \A e : e \in Range(Edges(x, u)) <=> e = f \/ Precedes(Edges(x, u), f, e)
    BY <1>1, GetFirstFacts
  <1> HIDE DEF u, f, x
  <1>6. /\ i \in Iterator /\ i.node = n /\ i.dir = d /\ i.more = FALSE
        /\ i.key_pos = (IF g = Null THEN u ELSE Null)
        /\ i.tag = u /\ i.pos = f /\ i.vacant = FALSE /\ i.dead = FALSE
    BY <1>3, <1>4 DEF NoIterator, Iterator
  <1>7. Standing(ix, i)
    BY <1>4, <1>5, <1>6 DEF Standing, Listed, x
  <1>8. g # Null => i.key_pos = Null /\ i.tag = g
    BY <1>6 DEF u
  <1>9. g = Null => i.key_pos # Null
    BY <1>4, <1>6
  <1>10. i.pos = Null => g # Null /\ Range(Edges(x, g)) = {}
    BY <1>2, <1>5, <1>6 DEF u
  <1>11. ASSUME i.pos # Null, NEW e
         PROVE  (\E t \in Tags : e \in Range(Edges(x, t)) /\ g \in {Null, t}) <=>
                  \/ e = f \/ Precedes(Edges(x, u), f, e)
                  \/ /\ i.key_pos # Null
                     /\ \E t \in Tags : Precedes(Keys(x), u, t) /\ e \in Range(Edges(x, t))
    <2>1. e \in Range(Edges(x, u)) <=> e = f \/ Precedes(Edges(x, u), f, e)
      BY <1>5, <1>6, <1>11
    <2>2. CASE g # Null
      <3>1. (\E t \in Tags : e \in Range(Edges(x, t)) /\ g \in {Null, t}) <=> e \in Range(Edges(x, u))
        BY <1>4, <2>2 DEF u
      <3>2. QED  BY <1>8, <2>1, <2>2, <3>1
    <2>3. CASE g = Null
      <3>1. \A t : e \in Range(Edges(x, t)) => t \in Range(Keys(x))
        BY <1>1, EdgesFacts
      <3>2. \A t : t \in Range(Keys(x)) <=> t = u \/ Precedes(Keys(x), u, t)
        BY <1>2, <2>3 DEF u
      <3>3. QED  BY <1>4, <1>9, <2>1, <2>3, <3>1, <3>2
    <2>4. QED  BY <2>2, <2>3
  <1>12. Starts(x, i, n, d, g)
    BY <1>6, <1>8, <1>9, <1>10, <1>11 DEF Starts
  <1>13. QED  BY <1>7, <1>12 DEF i, x

\* The entries at node n that get_edges(n, dir, .., g) is asked for.
Wanted(ix, n, dir, g, d, e) ==
  /\ d \in Dirs /\ dir \in {"any", d}
  /\ \E t \in Tags : e \in Listed(ix, n, d, t) /\ g \in {Null, t}

Opens(ix, i, n, dir, g) ==
  /\ Standing(ix, i) /\ ~i.vacant /\ ~i.dead
  /\ i.pos = Null => \A d, e : ~Wanted(ix, n, dir, g, d, e)
  /\ i.pos # Null => i.node = n /\ \A d, e : Wanted(ix, n, dir, g, d, e) <=> Ahead(ix, i, d, e)

\* Such an iterator has exactly the wanted edges ahead of it.
LEMMA OneWayOpens ==
  ASSUME NEW ix, Shape(ix), NEW n \in NPool, NEW d \in Dirs, NEW g \in Tags \cup {Null},
         g = Null => ix[n][d] # <<>>
  PROVE  Opens(ix, OneWay(n, d, ix[n], g), n, d, g)
  <1> DEFINE i == OneWay(n, d, ix[n], g)
             x == ix[n][d]
  <1>0. Standing(ix, i) /\ Starts(x, i, n, d, g)
    BY OneWayFacts
  <1> HIDE DEF i, x
  <1>1. /\ Standing(ix, i) /\ i.node = n /\ i.dir = d /\ ~i.more /\ ~i.vacant /\ ~i.dead
        /\ i.pos = Null => g # Null /\ Range(Edges(x, g)) = {}
        /\ i.pos # Null => \A e :
             (\E t \in Tags : e \in Range(Edges(x, t)) /\ g \in {Null, t}) <=>
               \/ e = i.pos \/ Precedes(Edges(x, i.tag), i.pos, e)
               \/ /\ i.key_pos # Null
                  /\ \E t \in Tags : Precedes(Keys(x), i.tag, t) /\ e \in Range(Edges(x, t))
    BY <1>0 DEF Starts
  <1>2. \A c, e : Wanted(ix, n, d, g, c, e) <=>
          c = d /\ \E t \in Tags : e \in Range(Edges(x, t)) /\ g \in {Null, t}
    BY DEF Wanted, Listed, Dirs, x
  <1>3. \A c, e : Ahead(ix, i, c, e) <=>
          c = d /\ \/ e = i.pos \/ Precedes(Edges(x, i.tag), i.pos, e)
                   \/ /\ i.key_pos # Null
                      /\ \E t \in Tags : Precedes(Keys(x), i.tag, t) /\ e \in Range(Edges(x, t))
    BY <1>1 DEF Ahead, Behind, Listed, x
  <1>4. i.pos = Null => \A c, e : ~Wanted(ix, n, d, g, c, e)
    BY <1>1, <1>2
  <1>5. i.pos # Null => \A c, e : Wanted(ix, n, d, g, c, e) <=> Ahead(ix, i, c, e)
    BY <1>1, <1>2, <1>3
  <1>6. QED  BY <1>1, <1>4, <1>5 DEF Opens, i

\* The same for an iterator over both directions that has edges coming in.
LEMMA BothWaysOpens ==
  ASSUME NEW ix, Shape(ix), NEW n \in NPool, NEW g \in Tags \cup {Null}, ix[n]["in"] # <<>>
  PROVE  Opens(ix, BothWays(n, ix[n], g), n, "any", g)
  <1> DEFINE x == ix[n]["in"]
             y == ix[n]["out"]
             w == OneWay(n, "in", ix[n], g)
             z == [w EXCEPT !.more = (y # <<>>)]
             i == BothWays(n, ix[n], g)
  <1>0. Standing(ix, w) /\ Starts(x, w, n, "in", g)
    BY OneWayFacts DEF Dirs
  <1>1. /\ Standing(ix, w) /\ w.node = n /\ w.dir = "in" /\ ~w.more /\ ~w.vacant /\ ~w.dead
        /\ g # Null => w.key_pos = Null /\ w.tag = g
        /\ g = Null => w.key_pos # Null
        /\ w.pos = Null => g # Null /\ Range(Edges(x, g)) = {}
        /\ w.pos # Null => \A e :
             (\E t \in Tags : e \in Range(Edges(x, t)) /\ g \in {Null, t}) <=>
               \/ e = w.pos \/ Precedes(Edges(x, w.tag), w.pos, e)
               \/ /\ w.key_pos # Null
                  /\ \E t \in Tags : Precedes(Keys(x), w.tag, t) /\ e \in Range(Edges(x, t))
    BY <1>0 DEF Starts
  <1>2. WellFormed(y) /\ WellFormed(x)
    BY ShapeFacts DEF Dirs
  <1>3. i = IF z.pos = Null THEN next_list(z, x, y) ELSE z
    BY DEF BothWays
  <1>4. \A c, e : Wanted(ix, n, "any", g, c, e) <=>
          \/ c = "in" /\ \E t \in Tags : e \in Range(Edges(x, t)) /\ g \in {Null, t}
          \/ c = "out" /\ \E t \in Tags : e \in Range(Edges(y, t)) /\ g \in {Null, t}
    BY DEF Wanted, Listed, Dirs
  <1>5. y = <<>> => \A t : Range(Edges(y, t)) = {}
    BY <1>2, KeysFacts, EdgesFacts
  <1> HIDE DEF w
  <1>6. /\ z \in Iterator /\ z.node = n /\ z.dir = "in" /\ (z.more <=> y # <<>>)
        /\ z.key_pos = w.key_pos /\ z.tag = w.tag /\ z.pos = w.pos /\ ~z.vacant /\ ~z.dead
    BY <1>1 DEF Iterator, Standing
  <1> HIDE DEF z, i
  <1>7. CASE z.pos # Null
    <2>1. i = z
      BY <1>3, <1>7
    <2> HIDE DEF x, y
    <2>2. Standing(ix, z)
      BY <1>1, <1>6 DEF Standing
    <2>3. \A c, e : Behind(ix, z, c, e) <=>
            \/ c = "in" /\ \/ Precedes(Edges(x, w.tag), w.pos, e)
                           \/ /\ w.key_pos # Null
                              /\ \E t \in Tags : Precedes(Keys(x), w.tag, t) /\ e \in Range(Edges(x, t))
            \/ /\ c = "out" /\ y # <<>>
               /\ \E t \in Tags : (w.key_pos = Null => t = w.tag) /\ e \in Range(Edges(y, t))
      BY <1>6 DEF Behind, Listed, x, y
    <2>4. \A e : (\E t \in Tags : e \in Range(Edges(y, t)) /\ g \in {Null, t}) <=>
            y # <<>> /\ \E t \in Tags : (w.key_pos = Null => t = w.tag) /\ e \in Range(Edges(y, t))
      BY <1>1, <1>5
    <2>5. \A c, e : Wanted(ix, n, "any", g, c, e) <=> Ahead(ix, z, c, e)
      BY <1>1, <1>4, <1>6, <1>7, <2>3, <2>4 DEF Ahead
    <2>6. QED  BY <1>6, <1>7, <2>1, <2>2, <2>5 DEF Opens, i
  <1>8. CASE z.pos = Null
    <2>1. g # Null /\ z.key_pos = Null /\ z.tag = g /\ Range(Edges(x, g)) = {} /\ g \in Tags
      BY <1>1, <1>6, <1>8
    <2>2. \A c, e : Wanted(ix, n, "any", g, c, e) <=> c = "out" /\ e \in Range(Edges(y, g))
      BY <1>4, <2>1
    <2>3. CASE ~z.more
      <3>1. i = z
        BY <1>3, <1>8, <2>1, <2>3 DEF next_list, switch_direction
      <3>2. Standing(ix, z)
        BY <1>1, <1>6, <1>8 DEF Standing
      <3>3. \A c, e : ~Wanted(ix, n, "any", g, c, e)
        BY <1>5, <1>6, <2>2, <2>3
      <3>4. QED  BY <1>6, <1>8, <3>1, <3>2, <3>3 DEF Opens, i
    <2>4. CASE z.more
      <3> DEFINE f == get_first(y, g)
      <3>1. i = [z EXCEPT !.dir = "out", !.more = FALSE, !.pos = f]
        BY <1>3, <1>8, <2>1, <2>4 DEF next_list, switch_direction
      <3> HIDE DEF x, y
      <3>2. /\ f \in EPool \cup {Null}
            /\ f = Null => Range(Edges(y, g)) = {}
            /\ f # Null => /\ f \in Range(Edges(y, g))
                           /\ \A e : e \in Range(Edges(y, g)) <=> e = f \/ Precedes(Edges(y, g), f, e)
        BY <1>2, GetFirstFacts
      <3> HIDE DEF f
      <3>3. /\ i \in Iterator /\ i.node = n /\ i.dir = "out" /\ i.more = FALSE
            /\ i.key_pos = Null /\ i.tag = g /\ i.pos = f /\ ~i.vacant /\ ~i.dead
        BY <1>6, <2>1, <3>1, <3>2 DEF Iterator, Dirs
      <3>4. Standing(ix, i)
        BY <2>1, <3>2, <3>3 DEF Standing, Listed, y
      <3>5. \A c, e : Behind(ix, i, c, e) <=> c = "out" /\ Precedes(Edges(y, g), f, e)
        BY <3>3 DEF Behind, y
      <3>6. f # Null => \A c, e : Wanted(ix, n, "any", g, c, e) <=> Ahead(ix, i, c, e)
        BY <2>2, <3>2, <3>3, <3>5 DEF Ahead
      <3>7. f = Null => \A c, e : ~Wanted(ix, n, "any", g, c, e)
        BY <2>2, <3>2
      <3>8. QED  BY <3>3, <3>4, <3>6, <3>7 DEF Opens, i
    <2>5. QED  BY <2>3, <2>4
  <1>9. QED  BY <1>7, <1>8

\* get_edges: what was asked for is where the iterator stands, or behind.
LEMMA OpenFacts ==
  ASSUME NEW ix, Shape(ix), NEW n \in NPool, NEW dir \in {"in", "out", "any"},
         NEW g \in Tags \cup {Null}
  PROVE  Opens(ix, get_edges(n, dir, ix[n], g), n, dir, g)
  <1> DEFINE i == get_edges(n, dir, ix[n], g)
  <1>1. NoIterator \in Iterator /\ Standing(ix, NoIterator) /\ ~NoIterator.vacant /\ ~NoIterator.dead
        /\ NoIterator.pos = Null
    BY DEF NoIterator, Iterator, Standing, Dirs
  <1>2. \A d \in Dirs : ix[n][d] = <<>> => \A t : Listed(ix, n, d, t) = {}
    <2>1. SUFFICES ASSUME NEW d \in Dirs, ix[n][d] = <<>>, NEW t PROVE Listed(ix, n, d, t) = {}
      OBVIOUS
    <2>2. WellFormed(ix[n][d])
      BY ShapeFacts
    <2>3. Range(Keys(ix[n][d])) = {}
      BY <2>1, <2>2, KeysFacts
    <2>4. QED  BY <2>2, <2>3, EdgesFacts DEF Listed
  <1>3. CASE dir # "any"
    <2>1. dir \in Dirs
      BY <1>3 DEF Dirs
    <2>2. CASE g = Null /\ ix[n][dir] = <<>>
      <3>1. i = NoIterator
        BY <1>3, <2>2 DEF get_edges
      <3>2. \A d, e : ~Wanted(ix, n, dir, g, d, e)
        BY <1>2, <1>3, <2>1, <2>2 DEF Wanted
      <3>3. QED  BY <1>1, <3>1, <3>2 DEF Opens
    <2>3. CASE ~(g = Null /\ ix[n][dir] = <<>>)
      <3>1. i = OneWay(n, dir, ix[n], g)
        BY <1>3, <2>3 DEF get_edges
      <3>2. QED  BY <2>1, <2>3, <3>1, OneWayOpens
    <2>4. QED  BY <2>2, <2>3
  <1>4. CASE dir = "any" /\ ix[n]["in"] # <<>>
    <2>1. i = BothWays(n, ix[n], g)
      BY <1>4 DEF get_edges
    <2>2. QED  BY <1>4, <2>1, BothWaysOpens
  <1>5. CASE dir = "any" /\ ix[n]["in"] = <<>> /\ ix[n]["out"] # <<>>
    <2>1. i = OneWay(n, "out", ix[n], g)
      BY <1>5 DEF get_edges
    <2> HIDE DEF i
    <2>2. Opens(ix, i, n, "out", g)
      BY <1>5, <2>1, OneWayOpens DEF Dirs
    <2>3. \A d, e : Wanted(ix, n, "any", g, d, e) <=> Wanted(ix, n, "out", g, d, e)
      BY <1>2, <1>5 DEF Wanted, Dirs
    <2>4. QED  BY <1>5, <2>2, <2>3 DEF Opens, i
  <1>6. CASE dir = "any" /\ ix[n]["in"] = <<>> /\ ix[n]["out"] = <<>>
    <2>1. i = NoIterator
      BY <1>6 DEF get_edges
    <2>2. \A d, e : ~Wanted(ix, n, dir, g, d, e)
      BY <1>2, <1>6 DEF Wanted, Dirs
    <2>3. QED  BY <1>1, <2>1, <2>2 DEF Opens
  <1>7. QED  BY <1>3, <1>4, <1>5, <1>6

-----------------------------------------------------------------------------
(***************************************************************************)
(* Removing edges.                                                         *)
(***************************************************************************)
\* The node in whose index for direction dir an edge belongs.
End(r, dir) == IF dir = "in" THEN r.dest ELSE r.src

\* The indices hold the edges in F, and nothing else.
IndexOK(ix, edges, F) ==
  /\ Shape(ix)
  /\ \A n \in NPool, d \in Dirs : \A t, e :
       e \in Listed(ix, n, d, t) <=> e \in F /\ edges[e].tag = t /\ End(edges[e], d) = n

EdgeRecord == [src : NPool, dest : NPool, tag : Tags]

\* The contents of the edges.
EdgesOK(pm, edges) ==
  \A e \in DOMAIN edges :
    /\ pm[ET!Word(e)] = ET!Data(edges[e].src)
    /\ pm[Rest(e)] = [dest |-> edges[e].dest, tag |-> edges[e].tag]

\* What a removal sees and changes.
View(s) ==
  /\ DOMAIN s = {"idx", "its", "gone"} /\ Shape(s.idx)
  /\ \A k \in DOMAIN s.its : Standing(s.idx, s.its[k])

\* remove_from() keeps every iterator standing and takes the edge out of one index.
LEMMA RemoveFromFacts ==
  ASSUME NEW s, View(s), NEW n \in NPool, NEW d \in Dirs, NEW e,
         e \in Listed(s.idx, n, d, etable[Rest(e)].tag)
  PROVE  LET r == remove_from(s, n, d, e)
         IN /\ View(r) /\ r.gone = s.gone /\ DOMAIN r.its = DOMAIN s.its
            /\ r.idx = Unlisted(s.idx, n, d, etable[Rest(e)].tag, e)
            /\ \A k \in DOMAIN s.its : r.its[k] = remove_notify(s.its[k], s.idx[s.its[k].node], n, d, e)
  <1> DEFINE t == etable[Rest(e)].tag
             r == remove_from(s, n, d, e)
             its == [k \in DOMAIN s.its |-> remove_notify(s.its[k], s.idx[s.its[k].node], n, d, e)]
             ix == [s.idx EXCEPT ![n][d] = remove(@, t, e)]
  <1>1. DOMAIN s = {"idx", "its", "gone"} /\ Shape(s.idx)
    BY DEF View
  <1>2. r = [s EXCEPT !.idx = ix, !.its = its]
    BY DEF remove_from, Listed
  <1>3. ix = Unlisted(s.idx, n, d, t, e)
    BY DEF Unlisted
  <1>4. DOMAIN its = DOMAIN s.its /\ \A k \in DOMAIN s.its :
          its[k] = remove_notify(s.its[k], s.idx[s.its[k].node], n, d, e)
    OBVIOUS
  <1> HIDE DEF r, ix, its
  <1>5. DOMAIN r = {"idx", "its", "gone"} /\ r.idx = ix /\ r.its = its /\ r.gone = s.gone
    BY <1>1, <1>2
  <1>6. Shape(ix)
    BY <1>1, <1>3, UnlistedFacts
  <1>7. ASSUME NEW k \in DOMAIN s.its PROVE Standing(ix, its[k])
    <2>1. Standing(s.idx, s.its[k])
      BY DEF View
    <2>2. QED  BY <1>1, <1>3, <1>4, <2>1, NotifyFacts
  <1>8. View(r)
    BY <1>4, <1>5, <1>6, <1>7 DEF View
  <1>9. QED  BY <1>3, <1>4, <1>5, <1>8 DEF r

\* What an iterator has yet to show is a set of edges of its node.
LEMMA ComingListed ==
  ASSUME NEW ix, Shape(ix), NEW i, Standing(ix, i), NEW c, NEW a,
         Coming(ix, i, c, a) \/ (i.pos # Null /\ Ahead(ix, i, c, a))
  PROVE  c \in Dirs /\ i.node \in NPool /\ \E t \in Tags : a \in Listed(ix, i.node, c, t)
  <1>1. i.pos # Null /\ Ahead(ix, i, c, a)
    BY DEF Coming, Ahead
  <1>2. i.node \in NPool
    BY <1>1 DEF Standing
  <1>3. QED  BY <1>1, <1>2, AheadListed

\* How a removal of edge e moves an iterator from i to j.
Passes(ix, i, iy, j, e) ==
  /\ j.node = i.node
  /\ ~j.dead =>
       /\ ~i.dead
       /\ \A c, a : Coming(iy, j, c, a) <=> Coming(ix, i, c, a) /\ a # e
       /\ \A c, a : (j.pos # Null /\ Ahead(iy, j, c, a)) <=> i.pos # Null /\ Ahead(ix, i, c, a) /\ a # e

\* Graph::remove(edge): the edge leaves both indices.
LEMMA RemoveEdgeFacts ==
  ASSUME NEW s, View(s), NEW F, NEW e \in F, F \subseteq DOMAIN graph.edges,
         IndexOK(s.idx, graph.edges, F), EdgesOK(etable, graph.edges),
         graph.edges[e] \in EdgeRecord
  PROVE  LET r == remove_edge_from(s, e)
         IN /\ View(r) /\ r.gone = <<e>> \o s.gone /\ DOMAIN r.its = DOMAIN s.its
            /\ IndexOK(r.idx, graph.edges, F \ {e})
            /\ \A k \in DOMAIN s.its : Passes(s.idx, s.its[k], r.idx, r.its[k], e)
            /\ \A k \in DOMAIN s.its : s.its[k].pos = e => r.its[k].vacant
            /\ Shape(remove_from(s, Source(e), "out", e).idx)
  <1> DEFINE w == graph.edges[e]
             p == remove_from(s, w.src, "out", e)
             q == remove_from(p, w.dest, "in", e)
             r == remove_edge_from(s, e)
  <1>1. etable[Rest(e)].tag = w.tag /\ Source(e) = w.src /\ Destination(e) = w.dest
    <2>1. etable[ET!Word(e)] = ET!Data(w.src) /\ etable[Rest(e)] = [dest |-> w.dest, tag |-> w.tag]
      BY DEF EdgesOK
    <2>2. ET!Data(w.src).to = w.src
      BY DEF ET!Data
    <2>3. QED  BY <2>1, <2>2 DEF Source, Destination
  <1>2. w.src \in NPool /\ w.dest \in NPool /\ w.tag \in Tags /\ "in" \in Dirs /\ "out" \in Dirs
    BY DEF EdgeRecord, Dirs
  <1>3. /\ Shape(s.idx)
        /\ \A n \in NPool, d \in Dirs : \A t, a :
             a \in Listed(s.idx, n, d, t) <=>
               a \in F /\ graph.edges[a].tag = t /\ End(graph.edges[a], d) = n
    BY DEF IndexOK
  <1>4. e \in Listed(s.idx, w.src, "out", w.tag) /\ e \in Listed(s.idx, w.dest, "in", w.tag)
    BY <1>2, <1>3 DEF End
  <1> HIDE DEF w
  <1>5. /\ View(p) /\ p.gone = s.gone /\ DOMAIN p.its = DOMAIN s.its
        /\ p.idx = Unlisted(s.idx, w.src, "out", w.tag, e)
        /\ \A k \in DOMAIN s.its :
             p.its[k] = remove_notify(s.its[k], s.idx[s.its[k].node], w.src, "out", e)
    BY <1>1, <1>2, <1>4, RemoveFromFacts
  <1> HIDE DEF p
  <1>6. /\ Shape(p.idx)
        /\ \A n \in NPool, d \in Dirs : \A t, a :
             a \in Listed(p.idx, n, d, t) <=>
               a \in Listed(s.idx, n, d, t) /\ ~(n = w.src /\ d = "out" /\ a = e)
    BY <1>2, <1>3, <1>4, <1>5, UnlistedFacts
  <1>7. e \in Listed(p.idx, w.dest, "in", w.tag)
    BY <1>2, <1>4, <1>6
  <1>8. /\ View(q) /\ q.gone = s.gone /\ DOMAIN q.its = DOMAIN s.its
        /\ q.idx = Unlisted(p.idx, w.dest, "in", w.tag, e)
        /\ \A k \in DOMAIN s.its :
             q.its[k] = remove_notify(p.its[k], p.idx[p.its[k].node], w.dest, "in", e)
    BY <1>1, <1>2, <1>5, <1>7, RemoveFromFacts
  <1> HIDE DEF q
  <1>9. /\ Shape(q.idx)
        /\ \A n \in NPool, d \in Dirs : \A t, a :
             a \in Listed(q.idx, n, d, t) <=>
               a \in Listed(p.idx, n, d, t) /\ ~(n = w.dest /\ d = "in" /\ a = e)
    BY <1>2, <1>6, <1>7, <1>8, UnlistedFacts
  <1>10. IndexOK(q.idx, graph.edges, F \ {e})
    <2>1. ASSUME NEW n \in NPool, NEW d \in Dirs, NEW t, NEW a
          PROVE  a \in Listed(q.idx, n, d, t) <=>
                   a \in F \ {e} /\ graph.edges[a].tag = t /\ End(graph.edges[a], d) = n
      <3>1. a \in Listed(q.idx, n, d, t) <=>
              /\ a \in Listed(s.idx, n, d, t)
              /\ ~(n = w.src /\ d = "out" /\ a = e) /\ ~(n = w.dest /\ d = "in" /\ a = e)
        BY <1>6, <1>9
      <3>2. a \in Listed(s.idx, n, d, t) <=>
              a \in F /\ graph.edges[a].tag = t /\ End(graph.edges[a], d) = n
        BY <1>3
      <3>3. End(graph.edges[e], d) = n => (n = w.src /\ d = "out") \/ (n = w.dest /\ d = "in")
        BY DEF End, Dirs, w
      <3>4. QED  BY <3>1, <3>2, <3>3
    <2>2. QED  BY <1>9, <2>1 DEF IndexOK
  <1>11. r = [q EXCEPT !.gone = <<e>> \o @]
    BY <1>1 DEF remove_edge_from, q, p
  <1> HIDE DEF r
  <1>12. /\ DOMAIN r = {"idx", "its", "gone"} /\ r.idx = q.idx /\ r.its = q.its
         /\ r.gone = <<e>> \o s.gone
    BY <1>8, <1>11 DEF View
  <1>13. View(r)
    BY <1>8, <1>12 DEF View
  <1>14. ASSUME NEW k \in DOMAIN s.its
         PROVE  /\ Passes(s.idx, s.its[k], q.idx, q.its[k], e)
                /\ s.its[k].pos = e => q.its[k].vacant
    <2> DEFINE i == s.its[k]
               j == p.its[k]
               l == q.its[k]
    <2>1. Standing(s.idx, i) /\ Standing(p.idx, j)
      BY <1>5 DEF View
    <2> HIDE DEF i, j, l
    <2>2. /\ i.node = w.src /\ i.dir = "out" /\ i.pos = e => j.vacant
          /\ ~(i.node = w.src /\ i.dir = "out" /\ i.pos = e) => j = i
          /\ j.node = i.node /\ (~j.dead => ~i.dead)
          /\ ~j.dead => \A c, a :
               Coming(p.idx, j, c, a) <=> Coming(s.idx, i, c, a) /\ ~(i.node = w.src /\ c = "out" /\ a = e)
          /\ ~j.dead => \A c, a :
               (j.pos # Null /\ Ahead(p.idx, j, c, a)) <=>
                 i.pos # Null /\ Ahead(s.idx, i, c, a) /\ ~(i.node = w.src /\ c = "out" /\ a = e)
      BY <1>2, <1>3, <1>4, <1>5, <2>1, NotifyFacts DEF i, j
    <2>3. /\ j.node = w.dest /\ j.dir = "in" /\ j.pos = e => l.vacant
          /\ ~(j.node = w.dest /\ j.dir = "in" /\ j.pos = e) => l = j
          /\ l.node = j.node /\ (~l.dead => ~j.dead)
          /\ ~l.dead => \A c, a :
               Coming(q.idx, l, c, a) <=> Coming(p.idx, j, c, a) /\ ~(j.node = w.dest /\ c = "in" /\ a = e)
          /\ ~l.dead => \A c, a :
               (l.pos # Null /\ Ahead(q.idx, l, c, a)) <=>
                 j.pos # Null /\ Ahead(p.idx, j, c, a) /\ ~(j.node = w.dest /\ c = "in" /\ a = e)
      BY <1>2, <1>6, <1>7, <1>8, <2>1, NotifyFacts DEF l, j
    <2>4. ASSUME NEW c, Coming(s.idx, i, c, e) \/ (i.pos # Null /\ Ahead(s.idx, i, c, e))
          PROVE  (i.node = w.src /\ c = "out") \/ (i.node = w.dest /\ c = "in")
      <3>1. c \in Dirs /\ i.node \in NPool /\ \E t \in Tags : e \in Listed(s.idx, i.node, c, t)
        BY <1>3, <2>1, <2>4, ComingListed
      <3>2. End(graph.edges[e], c) = i.node
        BY <1>3, <3>1
      <3>3. QED  BY <3>1, <3>2 DEF End, Dirs, w
    <2>5. ASSUME ~l.dead, NEW c, NEW a
          PROVE  Coming(q.idx, l, c, a) <=> Coming(s.idx, i, c, a) /\ a # e
      BY <2>2, <2>3, <2>4, <2>5
    <2>6. ASSUME ~l.dead, NEW c, NEW a
          PROVE  (l.pos # Null /\ Ahead(q.idx, l, c, a)) <=>
                   i.pos # Null /\ Ahead(s.idx, i, c, a) /\ a # e
      BY <2>2, <2>3, <2>4, <2>6
    <2>7. Passes(s.idx, i, q.idx, l, e)
      BY <2>2, <2>3, <2>5, <2>6 DEF Passes
    <2>8. ASSUME i.pos = e PROVE l.vacant
      <3>1. i.pos # Null /\ Ahead(s.idx, i, i.dir, e)
        <4>1. e # Null
          <5>1. WellFormed(s.idx[w.src]["out"])
            BY <1>2, <1>3, ShapeFacts
          <5>2. e \in EPool
            BY <1>4, <5>1, EdgesFacts DEF Listed
          <5>3. QED  BY <5>2, Pools
        <4>2. QED  BY <2>8, <4>1 DEF Ahead
      <3>2. (i.node = w.src /\ i.dir = "out") \/ (i.node = w.dest /\ i.dir = "in")
        BY <2>4, <3>1
      <3>3. CASE i.node = w.src /\ i.dir = "out"
        <4>1. j.vacant
          BY <2>2, <2>8, <3>3
        <4>2. QED  BY <2>3, <4>1
      <3>4. CASE i.node = w.dest /\ i.dir = "in"
        <4>1. j = i
          BY <2>2, <3>4
        <4>2. QED  BY <2>3, <2>8, <3>4, <4>1
      <3>5. QED  BY <3>2, <3>3, <3>4
    <2>9. QED  BY <2>7, <2>8 DEF i, l
  <1>15. Shape(remove_from(s, Source(e), "out", e).idx)
    BY <1>1, <1>6 DEF p
  <1>16. QED  BY <1>8, <1>10, <1>12, <1>13, <1>14, <1>15 DEF r

-----------------------------------------------------------------------------
(***************************************************************************)
(* The loop of Graph::remove(node).                                        *)
(***************************************************************************)
\* The edges that were removed are gone from the indices, the others are not;
\* what is left at the node is where its iterator stands, or behind; and the
\* client's iterator misses what was removed.
LoopOK(n, s) ==
  /\ View(s) /\ DOMAIN s.its = {"client", "inner"}
  /\ s.gone \in Seq(EPool) /\ IsInjective(s.gone) /\ Range(s.gone) \subseteq DOMAIN graph.edges
  /\ IndexOK(s.idx, graph.edges, DOMAIN graph.edges \ Range(s.gone))
  /\ ~s.its.inner.vacant
  /\ ~s.its.inner.dead => \A d \in Dirs : \A t, e :
       e \in Listed(s.idx, n, d, t) => s.its.inner.pos # Null /\ Ahead(s.idx, s.its.inner, d, e)
  /\ ~s.its.client.dead => \A c, a :
       Coming(s.idx, s.its.client, c, a) <=> Coming(idx, it, c, a) /\ a \notin Range(s.gone)

\* The graph and its indices agree.
GraphNow ==
  /\ DOMAIN graph.edges \subseteq EPool /\ \A e \in DOMAIN graph.edges : graph.edges[e] \in EdgeRecord
  /\ EdgesOK(etable, graph.edges) /\ IndexOK(idx, graph.edges, DOMAIN graph.edges)

\* An iterator that is no longer vacant.
LEMMA OccupiedFacts ==
  ASSUME NEW ix, NEW i, Standing(ix, i)
  PROVE  LET j == [i EXCEPT !.vacant = FALSE]
         IN /\ Standing(ix, j) /\ ~j.vacant /\ j.pos = i.pos /\ j.dead = i.dead
            /\ \A c, a : Behind(ix, j, c, a) <=> Behind(ix, i, c, a)
            /\ \A c, a : Ahead(ix, j, c, a) <=> Ahead(ix, i, c, a)
  <1> DEFINE j == [i EXCEPT !.vacant = FALSE]
  <1>1. i \in Iterator
    BY DEF Standing
  <1>2. /\ j \in Iterator /\ j.node = i.node /\ j.dir = i.dir /\ j.more = i.more
        /\ j.key_pos = i.key_pos /\ j.tag = i.tag /\ j.pos = i.pos /\ ~j.vacant /\ j.dead = i.dead
    BY <1>1 DEF Iterator
  <1> HIDE DEF j
  <1>3. Standing(ix, j)
    BY <1>2 DEF Standing
  <1>4. \A c, a : Behind(ix, j, c, a) <=> Behind(ix, i, c, a)
    BY <1>2 DEF Behind
  <1>5. \A c, a : Ahead(ix, j, c, a) <=> Ahead(ix, i, c, a)
    BY <1>2, <1>4 DEF Ahead
  <1>6. QED  BY <1>2, <1>3, <1>4, <1>5 DEF j

\* One turn of the loop of remove_node() keeps what its loop relies on.
LEMMA TurnFacts ==
  ASSUME GraphNow, NEW n \in NPool, NEW s, LoopOK(n, s)
  PROVE  LoopOK(n, Turn(n, s))
  <1> DEFINE i == s.its.inner
             e == i.pos
             G == DOMAIN graph.edges
             F == G \ Range(s.gone)
             r == remove_edge_from(s, e)
             y == Turn(n, s)
  <1>1. CASE Ended(s)
    <2>1. y = s
      BY <1>1 DEF Turn
    <2>2. QED  BY <2>1
  <1>2. CASE ~Ended(s)
    <2>1. ~i.dead /\ ~i.vacant /\ e # Null
      BY <1>2 DEF Ended, More, LoopOK
    <2>2. View(s) /\ "inner" \in DOMAIN s.its /\ "client" \in DOMAIN s.its
      BY DEF LoopOK
    <2>3. Standing(s.idx, i)
      BY <2>2 DEF View
    <2>4. i.node \in NPool /\ i.dir \in Dirs /\ e \in Listed(s.idx, i.node, i.dir, i.tag)
      BY <2>1, <2>3 DEF Standing, Iterator
    <2>5. IndexOK(s.idx, graph.edges, F)
      BY DEF LoopOK
    <2>6. e \in F /\ F \subseteq G
      BY <2>4, <2>5 DEF IndexOK
    <2>7. EdgesOK(etable, graph.edges) /\ graph.edges[e] \in EdgeRecord /\ e \in EPool
      BY <2>6 DEF GraphNow
    <2>8. y = [r EXCEPT !.its.inner = next(@, r.idx[n])]
      BY <1>2 DEF Turn
    <2> HIDE DEF F, G, e, y
    <2>9. /\ View(r) /\ r.gone = <<e>> \o s.gone /\ DOMAIN r.its = DOMAIN s.its
          /\ IndexOK(r.idx, graph.edges, F \ {e})
          /\ \A k \in DOMAIN s.its : Passes(s.idx, s.its[k], r.idx, r.its[k], e)
          /\ \A k \in DOMAIN s.its : s.its[k].pos = e => r.its[k].vacant
      BY <2>2, <2>5, <2>6, <2>7, RemoveEdgeFacts DEF G
    <2> HIDE DEF r, i
    <2> DEFINE j == r.its.inner
               z == [j EXCEPT !.vacant = FALSE]
    <2>10. /\ Passes(s.idx, i, r.idx, j, e) /\ j.vacant /\ Standing(r.idx, j)
           /\ Passes(s.idx, s.its.client, r.idx, r.its.client, e) /\ Standing(r.idx, r.its.client)
      BY <2>2, <2>9 DEF View, i, e
    <2>11. next(j, r.idx[n]) = z
      BY <2>10 DEF next
    <2>12. y = [r EXCEPT !.its = [r.its EXCEPT !.inner = z]]
      BY <2>8, <2>11
    <2>13. /\ Standing(r.idx, z) /\ ~z.vacant /\ z.pos = j.pos /\ z.dead = j.dead
           /\ \A c, a : Ahead(r.idx, z, c, a) <=> Ahead(r.idx, j, c, a)
      BY <2>10, OccupiedFacts
    <2> HIDE DEF j, z
    <2>14. /\ DOMAIN y = {"idx", "its", "gone"} /\ y.idx = r.idx /\ y.gone = <<e>> \o s.gone
           /\ DOMAIN y.its = {"client", "inner"} /\ y.its.inner = z /\ y.its.client = r.its.client
      <3>1. DOMAIN r = {"idx", "its", "gone"} /\ DOMAIN r.its = {"client", "inner"}
        BY <2>9 DEF View, LoopOK
      <3>2. QED  BY <2>9, <2>12, <3>1
    <2>15. View(y) /\ DOMAIN y.its = {"client", "inner"}
      BY <2>9, <2>10, <2>13, <2>14 DEF View
    <2>16. /\ s.gone \in Seq(EPool) /\ IsInjective(s.gone) /\ Range(s.gone) \subseteq G /\ e \notin Range(s.gone)
      BY <2>6 DEF LoopOK, F, G
    <2>17. /\ y.gone \in Seq(EPool) /\ IsInjective(y.gone) /\ Range(y.gone) = {e} \cup Range(s.gone)
      BY <2>7, <2>14, <2>16, ConsSeq, ConsOrder
    <2>18. F \ {e} = G \ Range(y.gone) /\ Range(y.gone) \subseteq G
      BY <2>6, <2>16, <2>17 DEF F
    <2>19. IndexOK(y.idx, graph.edges, G \ Range(y.gone))
      BY <2>9, <2>14, <2>18
    <2>20. ASSUME ~z.dead, NEW d \in Dirs, NEW t, NEW a, a \in Listed(y.idx, n, d, t)
           PROVE  z.pos # Null /\ Ahead(y.idx, z, d, a)
      <3>1. a \in F \ {e} /\ graph.edges[a].tag = t /\ End(graph.edges[a], d) = n
        BY <2>9, <2>14, <2>20 DEF IndexOK
      <3>2. a \in Listed(s.idx, n, d, t)
        BY <2>5, <3>1 DEF IndexOK
      <3>3. i.pos # Null /\ Ahead(s.idx, i, d, a)
        BY <2>1, <3>2 DEF LoopOK, i
      <3>4. j.pos # Null /\ Ahead(r.idx, j, d, a)
        BY <2>10, <2>13, <2>20, <3>1, <3>3 DEF Passes
      <3>5. QED  BY <2>13, <2>14, <3>4
    <2>21. ASSUME ~r.its.client.dead, NEW c, NEW a
           PROVE  Coming(y.idx, r.its.client, c, a) <=> Coming(idx, it, c, a) /\ a \notin Range(y.gone)
      <3>1. Coming(r.idx, r.its.client, c, a) <=> Coming(s.idx, s.its.client, c, a) /\ a # e
        BY <2>10, <2>21 DEF Passes
      <3>2. Coming(s.idx, s.its.client, c, a) <=> Coming(idx, it, c, a) /\ a \notin Range(s.gone)
        BY <2>10, <2>21 DEF Passes, LoopOK
      <3>3. QED  BY <2>14, <2>17, <3>1, <3>2
    <2>22. LoopOK(n, y)
      BY <2>13, <2>14, <2>15, <2>17, <2>18, <2>19, <2>20, <2>21 DEF LoopOK, G
    <2>23. QED  BY <2>22 DEF y
  <1>3. QED  BY <1>1, <1>2

\* The state in which the loop starts.
Start(n) ==
  [idx |-> idx, its |-> [client |-> it, inner |-> get_edges(n, "any", idx[n], Null)], gone |-> <<>>]

\* The loop of remove_node() starts with what it relies on.
LEMMA StartFacts ==
  ASSUME GraphNow, Standing(idx, it), NEW n \in NPool
  PROVE  LoopOK(n, Start(n))
  <1> DEFINE s == Start(n)
             i == get_edges(n, "any", idx[n], Null)
  <1>1. Shape(idx) /\ IndexOK(idx, graph.edges, DOMAIN graph.edges)
    BY DEF GraphNow, IndexOK
  <1>2. Opens(idx, i, n, "any", Null)
    BY <1>1, OpenFacts
  <1> HIDE DEF i
  <1>3. /\ DOMAIN s = {"idx", "its", "gone"} /\ s.idx = idx /\ s.gone = <<>>
        /\ DOMAIN s.its = {"client", "inner"} /\ s.its.client = it /\ s.its.inner = i
    BY DEF Start, i
  <1> HIDE DEF s
  <1>4. Standing(idx, i) /\ ~i.vacant
    BY <1>2 DEF Opens
  <1>5. View(s)
    BY <1>1, <1>3, <1>4 DEF View
  <1>6. <<>> \in Seq(EPool) /\ IsInjective(<<>>) /\ Range(<<>>) = {}
    BY DEF IsInjective, Range
  <1>7. IndexOK(s.idx, graph.edges, DOMAIN graph.edges \ Range(s.gone))
    <2>1. DOMAIN graph.edges \ Range(s.gone) = DOMAIN graph.edges
      BY <1>3, <1>6
    <2>2. QED  BY <1>1, <1>3, <2>1
  <1>8. ASSUME NEW d \in Dirs, NEW t, NEW e, e \in Listed(idx, n, d, t)
        PROVE  i.pos # Null /\ Ahead(idx, i, d, e)
    <2>1. t \in Tags
      <3>1. WellFormed(idx[n][d])
        BY <1>1, ShapeFacts
      <3>2. t \in Range(Keys(idx[n][d]))
        BY <1>8, <3>1, EdgesFacts DEF Listed
      <3>3. QED  BY <3>1, <3>2, KeysFacts, SeqFacts
    <2>2. Wanted(idx, n, "any", Null, d, e)
      BY <1>8, <2>1 DEF Wanted
    <2>3. QED  BY <1>2, <2>2 DEF Opens
  <1>9. LoopOK(n, s)
    BY <1>3, <1>4, <1>5, <1>6, <1>7, <1>8 DEF LoopOK
  <1>10. QED  BY <1>9 DEF s

\* A recursive function exists because it exists up to every n: there is no
\* least n up to which it does not.
Smaller == {p \in Nat \X Nat : p[1] < p[2]}

\* A set of numbers has a least one.
LEMMA LeastNat ==
  ASSUME NEW T, T \subseteq Nat, T # {}
  PROVE  \E x \in T : \A y \in T : x <= y
  <1>1. IsWellFoundedOn(OpToRel(<, Nat), Nat)  BY NatLessThanWellFounded, Zenon
  <1>2. IsWellFoundedOn(Smaller, Nat)  BY <1>1, Zenon DEF OpToRel, Smaller
  <1>3. PICK x \in T : \A y \in T : ~(<<y, x>> \in Smaller)  BY <1>2, WFMin
  <1>4. \A y \in T : ~(y < x)  BY <1>3 DEF Smaller
  <1>5. QED  BY <1>4

Turns(n, f, m) ==
  f = [k \in 0 .. m |-> IF k = 0 THEN Start(n) ELSE Turn(n, f[k - 1])]

\* The turns of the loop define a function, up to any number of turns.
LEMMA TurnsExist ==
  ASSUME NEW n, NEW m \in Nat
  PROVE  \E f : Turns(n, f, m)
  <1> DEFINE T == {k \in Nat : ~ \E f : Turns(n, f, k)}
  <1>1. SUFFICES ASSUME T # {} PROVE FALSE
    OBVIOUS
  <1>2. PICK k \in T : \A y \in T : k <= y
    BY <1>1, LeastNat
  <1>3. CASE k = 0
    <2> DEFINE g == [p \in 0 .. 0 |-> Start(n)]
    <2>1. g = [p \in 0 .. 0 |-> IF p = 0 THEN Start(n) ELSE Turn(n, g[p - 1])]
      OBVIOUS
    <2>2. Turns(n, g, 0)
      BY <2>1 DEF Turns
    <2>3. QED  BY <1>3, <2>2
  <1>4. CASE k # 0
    <2> DEFINE l == k - 1
    <2>1. l \in Nat /\ l \notin T /\ k = l + 1
      BY <1>2, <1>4
    <2>2. PICK f : Turns(n, f, l)
      BY <2>1
    <2> DEFINE g == [p \in 0 .. k |-> IF p = k THEN Turn(n, f[l]) ELSE f[p]]
    <2>3. \A p \in 0 .. l : f[p] = IF p = 0 THEN Start(n) ELSE Turn(n, f[p - 1])
      BY <2>2 DEF Turns
    <2>4. ASSUME NEW p \in 0 .. k
          PROVE  g[p] = IF p = 0 THEN Start(n) ELSE Turn(n, g[p - 1])
      <3>1. CASE p = k
        <4>1. g[p] = Turn(n, f[l]) /\ p # 0
          BY <1>4, <3>1
        <4>2. p - 1 \in 0 .. k /\ p - 1 # k /\ p - 1 = l
          BY <2>1, <3>1
        <4>3. g[p - 1] = f[l]
          BY <4>2
        <4>4. QED  BY <4>1, <4>3
      <3>2. CASE p # k
        <4>1. p \in 0 .. l /\ g[p] = f[p]
          BY <2>1, <3>2
        <4>2. CASE p = 0  BY <2>3, <4>1, <4>2
        <4>3. CASE p # 0
          <5>1. p - 1 \in 0 .. k /\ p - 1 # k
            BY <2>1, <4>1, <4>3
          <5>2. g[p - 1] = f[p - 1]
            BY <5>1
          <5>3. QED  BY <2>3, <4>1, <4>3, <5>2
        <4>4. QED  BY <4>2, <4>3
      <3>3. QED  BY <3>1, <3>2
    <2>5. g = [p \in 0 .. k |-> IF p = 0 THEN Start(n) ELSE Turn(n, g[p - 1])]
      <3>1. g = [p \in 0 .. k |-> g[p]]
        OBVIOUS
      <3> HIDE DEF g
      <3>2. QED  BY <2>4, <3>1
    <2> HIDE DEF g
    <2>6. Turns(n, g, k)
      BY <2>5 DEF Turns
    <2>7. QED  BY <1>2, <2>6
  <1>5. QED  BY <1>3, <1>4

\* Process is that function: its recursive definition holds.
LEMMA ProcessIs ==
  ASSUME NEW n
  PROVE  /\ 2 * NumEdges \in Nat
         /\ \A k \in 0 .. 2 * NumEdges :
              Process(n)[k] = IF k = 0 THEN Start(n) ELSE Turn(n, Process(n)[k - 1])
  <1> DEFINE m == 2 * NumEdges
             f == CHOOSE f : Turns(n, f, m)
  <1>1. m \in Nat
    BY GraphBounds
  <1>2. \E g : Turns(n, g, m)
    BY <1>1, TurnsExist
  <1>3. Turns(n, f, m)
    BY <1>2
  <1>4. Process(n) = f
    BY DEF Process, Turns, Start
  <1> HIDE DEF f
  <1>5. \A k \in 0 .. m : f[k] = IF k = 0 THEN Start(n) ELSE Turn(n, f[k - 1])
    BY <1>3 DEF Turns
  <1>6. QED  BY <1>1, <1>4, <1>5

\* After any number of turns, the loop has what it relies on.
LEMMA ProcessFacts ==
  ASSUME GraphNow, Standing(idx, it), NEW n \in NPool, NEW k \in 0 .. 2 * NumEdges
  PROVE  LoopOK(n, Process(n)[k])
  <1> DEFINE f == Process(n)
             T == {l \in 0 .. 2 * NumEdges : ~LoopOK(n, f[l])}
  <1>1. /\ 2 * NumEdges \in Nat
        /\ \A l \in 0 .. 2 * NumEdges : f[l] = IF l = 0 THEN Start(n) ELSE Turn(n, f[l - 1])
    BY ProcessIs
  <1> HIDE DEF f
  <1>2. T = {}
    <2>1. SUFFICES ASSUME T # {} PROVE FALSE
      OBVIOUS
    <2>2. T \subseteq Nat
      BY <1>1
    <2>3. PICK l \in T : \A y \in T : l <= y
      BY <2>1, <2>2, LeastNat
    <2>4. CASE l = 0
      BY <1>1, <2>3, <2>4, StartFacts
    <2>5. CASE l # 0
      <3>1. l - 1 \in 0 .. 2 * NumEdges /\ ~(l <= l - 1)
        BY <1>1, <2>3, <2>5
      <3>2. LoopOK(n, f[l - 1])
        BY <2>3, <3>1
      <3>3. f[l] = Turn(n, f[l - 1])
        BY <1>1, <2>3, <2>5
      <3>4. LoopOK(n, f[l])
        BY <3>2, <3>3, TurnFacts
      <3>5. QED  BY <2>3, <3>4
    <2>6. QED  BY <2>4, <2>5
  <1>3. QED  BY <1>2 DEF f

-----------------------------------------------------------------------------
(***************************************************************************)
(* Tables.  Both are FixedAllocators, which differ in their size only.     *)
(***************************************************************************)
H == NT!Hdr
W(o) == NT!Word(o)

\* The two tables use the same code.
LEMMA SameOperators ==
  /\ ET!Hdr = H /\ \A o : ET!Word(o) = W(o) /\ ET!Data(o) = NT!Data(o)
  /\ \A pm : ET!fa_alloc(pm) = NT!fa_alloc(pm)
  /\ \A pm, s : ET!clean_free_list(pm, s) = NT!clean_free_list(pm, s)
  <1>1. ET!Hdr = H /\ \A o : ET!Word(o) = W(o) /\ ET!Data(o) = NT!Data(o)
    BY DEF H, W, ET!Hdr, NT!Hdr, ET!Word, NT!Word, ET!Data, NT!Data
  <1>2. \A pm : ET!fa_alloc(pm) = NT!fa_alloc(pm)
    BY DEF ET!fa_alloc, NT!fa_alloc, ET!Hdr, NT!Hdr, ET!Word, NT!Word, ET!Data, NT!Data
  <1>3. \A pm, s : ET!clean_free_list(pm, s) = NT!clean_free_list(pm, s)
    BY DEF ET!clean_free_list, NT!clean_free_list, ET!Hdr, NT!Hdr, ET!Link, NT!Link, ET!Range, NT!Range
  <1>4. QED  BY <1>1, <1>2, <1>3

\* The locations of a table are distinct.
LEMMA Locations ==
  /\ \A o : W(o) # H /\ Rest(o) # H
  /\ \A o, p : Rest(o) # W(p)
  /\ \A o, p : W(o) = W(p) => o = p
  /\ \A o, p : Rest(o) = Rest(p) => o = p
  /\ \A o : W(o)[1] = "word" /\ W(o)[2] = o /\ Rest(o)[1] # "word" /\ Rest(o)[2] = o
  BY DEF H, W, Rest, NT!Hdr, NT!Word

\* A table of the given size in which the objects in `used` are taken.
TableOK(pm, size, used) ==
  /\ {H} \cup {W(o) : o \in 1 .. size} \subseteq DOMAIN pm
  /\ pm[H] \in [tail : 1 .. size + 1, free : Nat, num : Int]
  /\ \A o \in 1 .. size : pm[W(o)] \in [to : Nat, free_bit : BOOLEAN]
  /\ TableMatches(pm, used)

\* The objects in S are linked in the order f, from the head of the free list.
Chain(pm, f, S) == f \in Seq(S) /\ IsInjective(f) /\ Range(f) = S /\ FreeList(pm, f)

Known(pm) == 1 .. pm[H].tail - 1

Matches(pm, used) ==
  /\ \E f : Chain(pm, f, Known(pm) \ used)
  /\ \A o \in Known(pm) : pm[W(o)].free_bit <=> o \notin used
  /\ used \subseteq Known(pm)
  /\ pm[H].num = Cardinality(used)

\* As many places as there are objects.
LEMMA SeqCardinality ==
  ASSUME NEW S, NEW f \in Seq(S), IsInjective(f), Range(f) = S
  PROVE  IsFiniteSet(S) /\ Cardinality(S) = Len(f) /\ f \in Bijection(1 .. Len(f), S)
  <1>1. Len(f) \in Nat /\ DOMAIN f = 1 .. Len(f) /\ f \in [1 .. Len(f) -> S]
    BY LenProperties
  <1>2. f \in Injection(1 .. Len(f), S)
    BY <1>1 DEF Injection
  <1>3. f \in Surjection(1 .. Len(f), S)
    BY <1>1 DEF Surjection, Range
  <1>4. f \in Bijection(1 .. Len(f), S)
    BY <1>2, <1>3 DEF Bijection
  <1>5. IsFiniteSet(1 .. Len(f)) /\ Cardinality(1 .. Len(f)) = Len(f)
    BY <1>1, FS_Interval
  <1>6. ExistsBijection(1 .. Len(f), S)
    BY <1>4 DEF ExistsBijection
  <1>7. QED  BY <1>4, <1>5, <1>6, FS_Bijection

\* A bijection from an interval lists its range without repetition.
LEMMA BijectionSeq ==
  ASSUME NEW S, NEW c \in Nat, NEW f \in Bijection(1 .. c, S)
  PROVE  f \in Seq(S) /\ IsInjective(f) /\ Range(f) = S
  <1>1. f \in [1 .. c -> S] /\ IsInjective(f) /\ \A y \in S : \E x \in 1 .. c : f[x] = y
    BY DEF Bijection, Injection, Surjection
  <1>2. f \in Seq(S)
    BY <1>1
  <1>3. QED  BY <1>1, <1>2 DEF Range

\* A table matches when some list of the unused objects is its free list.
LEMMA MatchesIs ==
  ASSUME NEW pm, NEW used, pm[H].tail \in Nat
  PROVE  TableMatches(pm, used) <=> Matches(pm, used)
  <1> DEFINE S == Known(pm) \ used
  <1>1. IsFiniteSet(S) /\ Cardinality(S) \in Nat
    <2>1. IsFiniteSet(Known(pm))
      <3>1. pm[H].tail - 1 \in Int
        OBVIOUS
      <3>2. QED  BY <3>1, FS_Interval DEF Known
    <2>2. S \in SUBSET Known(pm)
      OBVIOUS
    <2>3. QED  BY <2>1, <2>2, FS_Subset, FS_CardinalityType
  <1>2. ASSUME NEW f \in Bijection(1 .. Cardinality(S), S), FreeList(pm, f) PROVE Chain(pm, f, S)
    BY <1>1, <1>2, BijectionSeq DEF Chain
  <1>3. ASSUME NEW f, Chain(pm, f, S) PROVE f \in Bijection(1 .. Cardinality(S), S) /\ FreeList(pm, f)
    <2>1. f \in Seq(S) /\ IsInjective(f) /\ Range(f) = S /\ FreeList(pm, f)
      BY <1>3 DEF Chain
    <2> HIDE DEF S
    <2>2. QED  BY <2>1, SeqCardinality
  <1>4. (\E f \in Bijection(1 .. Cardinality(S), S) : FreeList(pm, f)) <=> \E f : Chain(pm, f, S)
    BY <1>2, <1>3
  <1>5. QED  BY <1>4 DEF TableMatches, Matches, Known, H, W

\* What a table says of an object, unfolded.
LEMMA TableFacts ==
  ASSUME NEW pm, NEW size \in Nat, NEW used, TableOK(pm, size, used)
  PROVE  /\ pm[H].tail \in Nat /\ pm[H].tail >= 1 /\ pm[H].tail <= size + 1
         /\ pm[H].free \in Nat /\ pm[H].num \in Int
         /\ pm[H] = [tail |-> pm[H].tail, free |-> pm[H].free, num |-> pm[H].num]
         /\ H \in DOMAIN pm /\ \A o \in 1 .. size : W(o) \in DOMAIN pm
         /\ \A o \in 1 .. size : pm[W(o)].to \in Nat /\ pm[W(o)].free_bit \in BOOLEAN
         /\ Known(pm) \subseteq 1 .. size
         /\ Matches(pm, used) /\ used \subseteq 1 .. size
         /\ IsFiniteSet(used) /\ Cardinality(used) \in Nat
  <1>1. pm[H] \in [tail : 1 .. size + 1, free : Nat, num : Int]
    BY DEF TableOK
  <1>2. /\ pm[H].tail \in Nat /\ pm[H].tail >= 1 /\ pm[H].tail <= size + 1
        /\ pm[H].free \in Nat /\ pm[H].num \in Int
        /\ pm[H] = [tail |-> pm[H].tail, free |-> pm[H].free, num |-> pm[H].num]
    BY <1>1
  <1>3. H \in DOMAIN pm /\ \A o \in 1 .. size : W(o) \in DOMAIN pm
    BY DEF TableOK
  <1>4. \A o \in 1 .. size : pm[W(o)].to \in Nat /\ pm[W(o)].free_bit \in BOOLEAN
    BY DEF TableOK
  <1>5. Known(pm) \subseteq 1 .. size
    BY <1>2 DEF Known
  <1>6. Matches(pm, used)
    BY <1>2, MatchesIs DEF TableOK
  <1>7. used \subseteq Known(pm)
    BY <1>6 DEF Matches
  <1>8. IsFiniteSet(Known(pm))
    <2>1. pm[H].tail - 1 \in Int
      BY <1>2
    <2>2. QED  BY <2>1, FS_Interval DEF Known
  <1>9. IsFiniteSet(used) /\ Cardinality(used) \in Nat
    BY <1>7, <1>8, FS_Subset, FS_CardinalityType
  <1>10. QED  BY <1>2, <1>3, <1>4, <1>5, <1>6, <1>7, <1>9

\* What makes a table right.
LEMMA TableIntro ==
  ASSUME NEW q, NEW size \in Nat, NEW used,
         H \in DOMAIN q, \A o \in 1 .. size : W(o) \in DOMAIN q,
         q[H] \in [tail : 1 .. size + 1, free : Nat, num : Int],
         \A o \in 1 .. size : q[W(o)] \in [to : Nat, free_bit : BOOLEAN],
         Matches(q, used)
  PROVE  TableOK(q, size, used)
  <1>1. q[H].tail \in Nat
    OBVIOUS
  <1>2. TableMatches(q, used)
    BY <1>1, MatchesIs
  <1>3. QED  BY <1>2 DEF TableOK

\* A table depends on its header and on the words below the tail.
LEMMA TableFrame ==
  ASSUME NEW p, NEW size \in Nat, NEW used, TableOK(p, size, used), NEW q,
         H \in DOMAIN q, \A o \in 1 .. size : W(o) \in DOMAIN q, q[H] = p[H],
         \A o \in 1 .. size : q[W(o)] \in [to : Nat, free_bit : BOOLEAN],
         \A o \in 1 .. size : o < p[H].tail => q[W(o)] = p[W(o)]
  PROVE  TableOK(q, size, used)
  <1>1. /\ p[H].tail \in Nat /\ p[H].tail >= 1 /\ p[H].tail <= size + 1
        /\ Matches(p, used) /\ Known(p) \subseteq 1 .. size
    BY TableFacts
  <1>2. Known(q) = Known(p) /\ \A o \in Known(p) : q[W(o)] = p[W(o)]
    <2>1. Known(q) = Known(p)
      BY DEF Known
    <2>2. \A o \in Known(p) : o < p[H].tail
      BY <1>1 DEF Known
    <2>3. QED  BY <1>1, <2>1, <2>2
  <1>3. ASSUME NEW f, Chain(p, f, Known(p) \ used) PROVE Chain(q, f, Known(p) \ used)
    <2>1. f \in Seq(Known(p) \ used)
      BY <1>3 DEF Chain
    <2>2. \A i \in DOMAIN f : f[i] \in Known(p)
      BY <2>1, SeqFacts
    <2>3. \A i \in DOMAIN f : q[W(f[i])] = p[W(f[i])]
      BY <1>2, <2>2
    <2>4. FreeList(q, f)
      BY <1>3, <2>3 DEF Chain, FreeList, H, W
    <2>5. QED  BY <1>3, <2>4 DEF Chain
  <1>4. Matches(q, used)
    BY <1>1, <1>2, <1>3 DEF Matches
  <1>5. q[H] \in [tail : 1 .. size + 1, free : Nat, num : Int]
    BY DEF TableOK
  <1>6. QED  BY <1>4, <1>5, TableIntro

\* The header after an update of two of its fields.
LEMMA HeaderFacts ==
  ASSUME NEW A, NEW r \in [tail : A, free : Nat, num : Int], NEW x, NEW y
  PROVE  /\ [r EXCEPT !.free = x, !.num = y] = [tail |-> r.tail, free |-> x, num |-> y]
         /\ [r EXCEPT !.tail = x, !.num = y] = [tail |-> x, free |-> r.free, num |-> y]
  <1> DEFINE v == [r EXCEPT !.free = x, !.num = y]
             w == [r EXCEPT !.tail = x, !.num = y]
  <1>1. v \in [tail : {r.tail}, free : {x}, num : {y}]
    OBVIOUS
  <1>2. w \in [tail : {x}, free : {r.free}, num : {y}]
    OBVIOUS
  <1> HIDE DEF v, w
  <1>3. v = [tail |-> r.tail, free |-> x, num |-> y]
    BY <1>1
  <1>4. w = [tail |-> x, free |-> r.free, num |-> y]
    BY <1>2
  <1>5. QED  BY <1>3, <1>4 DEF v, w

\* alloc(): the object at the head of the free list, or the one at the tail.
LEMMA AllocFacts ==
  ASSUME NEW pm, NEW size \in Nat, NEW used, TableOK(pm, size, used),
         ~(pm[H].free = Null /\ pm[H].tail > size)
  PROVE  LET a == NT!fa_alloc(pm)
             h == pm[H]
         IN /\ a.obj \in (1 .. size) \ used
            /\ a.obj = IF h.free # Null THEN h.free ELSE h.tail
            /\ a.logs = IF h.free # Null THEN {H, W(a.obj)} ELSE {H}
            /\ DOMAIN a.pm = DOMAIN pm
            /\ \A l \in DOMAIN pm : l \notin {H, W(a.obj)} => a.pm[l] = pm[l]
            /\ a.pm[H] = IF h.free # Null
                         THEN [tail |-> h.tail, free |-> pm[W(a.obj)].to, num |-> h.num + 1]
                         ELSE [tail |-> h.tail + 1, free |-> h.free, num |-> h.num + 1]
  <1> DEFINE h == pm[H]
             a == NT!fa_alloc(pm)
             o == IF h.free # Null THEN h.free ELSE h.tail
  <1>0. h \in [tail : 1 .. size + 1, free : Nat, num : Int]
    BY DEF TableOK
  <1>h. \A x, y :
           /\ [h EXCEPT !.free = x, !.num = y] = [tail |-> h.tail, free |-> x, num |-> y]
           /\ [h EXCEPT !.tail = x, !.num = y] = [tail |-> x, free |-> h.free, num |-> y]
    BY <1>0, HeaderFacts
  <1>1. /\ h.tail \in Nat /\ h.tail >= 1 /\ h.tail <= size + 1 /\ h.free \in Nat /\ h.num \in Int
        /\ H \in DOMAIN pm /\ \A p \in 1 .. size : W(p) \in DOMAIN pm
        /\ Known(pm) \subseteq 1 .. size /\ Matches(pm, used) /\ Null = 0
    BY TableFacts, GraphBounds
  <1>2. PICK f : Chain(pm, f, Known(pm) \ used)
    BY <1>1 DEF Matches
  <1>3. o \in (1 .. size) \ used
    <2>1. CASE h.free # Null
      <3>1. f \in Seq(Known(pm) \ used) /\ f # <<>> /\ h.free = f[1]
        BY <1>2, <2>1 DEF Chain, FreeList, H
      <3>2. Len(f) \in Nat /\ Len(f) # 0 /\ \A i \in 1 .. Len(f) : f[i] \in Known(pm) \ used
        BY <3>1, SeqFacts
      <3>3. QED  BY <1>1, <2>1, <3>1, <3>2
    <2>2. CASE h.free = Null
      <3>1. h.tail \in 1 .. size /\ h.tail \notin Known(pm)
        BY <1>1, <2>2 DEF Known
      <3>2. QED  BY <1>1, <2>2, <3>1 DEF Matches
    <2>3. QED  BY <2>1, <2>2
  <1>4. W(o) \in DOMAIN pm /\ W(o) # H
    BY <1>1, <1>3, Locations
  <1>5. CASE h.free # Null
    <2> DEFINE v == [tail |-> h.tail, free |-> pm[W(o)].to, num |-> h.num + 1]
    <2>0. [h EXCEPT !.free = pm[W(o)].to, !.num = @ + 1] = v
      BY <1>h
    <2>1. a = [obj |-> o, logs |-> {H, W(o)},
               pm |-> [pm EXCEPT ![W(o)] = NT!Data(pm[W(o)].to),
                                 ![H] = [h EXCEPT !.free = pm[W(o)].to, !.num = @ + 1]]]
      BY <1>5 DEF NT!fa_alloc, H, W
    <2> HIDE DEF o, a, h, v
    <2>2. a = [obj |-> o, logs |-> {H, W(o)},
               pm |-> [pm EXCEPT ![W(o)] = NT!Data(pm[W(o)].to), ![H] = v]]
      BY <2>0, <2>1
    <2>3. a.obj = o /\ a.logs = {H, W(o)} /\ a.pm = [pm EXCEPT ![W(o)] = NT!Data(pm[W(o)].to), ![H] = v]
      BY <2>2
    <2>4. DOMAIN a.pm = DOMAIN pm /\ a.pm[H] = v /\ \A l \in DOMAIN pm : l \notin {H, W(o)} => a.pm[l] = pm[l]
      BY <1>1, <1>4, <2>3
    <2>5. QED  BY <1>3, <1>5, <2>3, <2>4 DEF o, a, h, v
  <1>6. CASE h.free = Null
    <2> DEFINE v == [tail |-> h.tail + 1, free |-> h.free, num |-> h.num + 1]
    <2>0. [h EXCEPT !.tail = @ + 1, !.num = @ + 1] = v
      BY <1>h
    <2>1. a = [obj |-> o, logs |-> {H}, pm |-> [pm EXCEPT ![H] = [h EXCEPT !.tail = @ + 1, !.num = @ + 1]]]
      BY <1>6 DEF NT!fa_alloc, H, W
    <2> HIDE DEF o, a, h, v
    <2>2. a = [obj |-> o, logs |-> {H}, pm |-> [pm EXCEPT ![H] = v]]
      BY <2>0, <2>1
    <2>3. a.obj = o /\ a.logs = {H} /\ a.pm = [pm EXCEPT ![H] = v]
      BY <2>2
    <2>4. DOMAIN a.pm = DOMAIN pm /\ a.pm[H] = v /\ \A l \in DOMAIN pm : l \notin {H, W(o)} => a.pm[l] = pm[l]
      BY <1>1, <2>3
    <2>5. QED  BY <1>3, <1>6, <2>3, <2>4 DEF o, a, h, v
  <1>7. QED  BY <1>5, <1>6

\* The table after alloc() and after the first word of the object was set.
LEMMA AllocTable ==
  ASSUME NEW pm, NEW size \in Nat, NEW used, TableOK(pm, size, used),
         ~(pm[H].free = Null /\ pm[H].tail > size),
         NEW q, NEW o, o = NT!fa_alloc(pm).obj, q[H] = NT!fa_alloc(pm).pm[H],
         H \in DOMAIN q, \A p \in 1 .. size : W(p) \in DOMAIN q,
         NEW x \in Nat, q[W(o)] = NT!Data(x), \A p \in 1 .. size : p # o => q[W(p)] = pm[W(p)]
  PROVE  TableOK(q, size, used \cup {o}) /\ q[H].tail >= pm[H].tail
  <1> DEFINE h == pm[H]
             S == Known(pm) \ used
             T == Known(q) \ (used \cup {o})
  <1>1. /\ h.tail \in Nat /\ h.tail >= 1 /\ h.tail <= size + 1 /\ h.free \in Nat /\ h.num \in Int
        /\ Known(pm) \subseteq 1 .. size /\ Matches(pm, used) /\ Null = 0
        /\ IsFiniteSet(used) /\ used \subseteq 1 .. size
        /\ \A p \in 1 .. size : pm[W(p)].to \in Nat /\ pm[W(p)].free_bit \in BOOLEAN
    BY TableFacts, GraphBounds
  <1>2. /\ o \in (1 .. size) \ used /\ o = IF h.free # Null THEN h.free ELSE h.tail
        /\ q[H] = IF h.free # Null
                  THEN [tail |-> h.tail, free |-> pm[W(o)].to, num |-> h.num + 1]
                  ELSE [tail |-> h.tail + 1, free |-> h.free, num |-> h.num + 1]
    BY AllocFacts
  <1>3. /\ q[W(o)] \in [to : Nat, free_bit : BOOLEAN] /\ ~q[W(o)].free_bit
        /\ \A p \in 1 .. size : q[W(p)] \in [to : Nat, free_bit : BOOLEAN]
    <2>1. q[W(o)] = [to |-> x, free_bit |-> FALSE]
      BY DEF NT!Data
    <2>2. \A p \in 1 .. size : pm[W(p)] \in [to : Nat, free_bit : BOOLEAN]
      BY DEF TableOK
    <2>3. q[W(o)] \in [to : Nat, free_bit : BOOLEAN] /\ ~q[W(o)].free_bit
      BY <2>1
    <2>4. QED  BY <2>2, <2>3
  <1>4. Cardinality(used \cup {o}) = Cardinality(used) + 1
    BY <1>1, <1>2, FS_AddElement
  <1>5. PICK f : Chain(pm, f, S)
    BY <1>1 DEF Matches
  <1>6. f \in Seq(S) /\ IsInjective(f) /\ Range(f) = S /\ FreeList(pm, f)
    BY <1>5 DEF Chain
  <1>7. Len(f) \in Nat /\ DOMAIN f = 1 .. Len(f) /\ \A i \in 1 .. Len(f) : f[i] \in S
    BY <1>6, SeqFacts
  <1>8. /\ h.free = IF f = <<>> THEN Null ELSE f[1]
        /\ \A i \in 1 .. Len(f) : pm[W(f[i])].to = IF i = Len(f) THEN Null ELSE f[i + 1]
    BY <1>6, <1>7 DEF FreeList, H, W
  <1>9. \A p \in Known(pm) : pm[W(p)].free_bit <=> p \notin used
    BY <1>1 DEF Matches
  <1>10. used \subseteq Known(pm) /\ h.num = Cardinality(used)
    BY <1>1 DEF Matches
  <1>11. CASE h.free # Null
    <2>1. o = h.free /\ f # <<>> /\ o = f[1] /\ q[H] = [tail |-> h.tail, free |-> pm[W(o)].to, num |-> h.num + 1]
      BY <1>2, <1>8, <1>11
    <2>2. 1 \in 1 .. Len(f)
      BY <1>6, <1>7, <2>1, SeqFacts
    <2>3. Known(q) = Known(pm) /\ o \in Known(pm) /\ T = S \ {o} /\ T \subseteq 1 .. size
      <3>1. Known(q) = Known(pm)
        BY <2>1 DEF Known
      <3>2. o \in S
        BY <1>7, <2>1, <2>2
      <3>3. QED  BY <1>1, <3>1, <3>2
    <2> DEFINE g == RemoveAt(f, 1)
    <2>4. /\ g \in Seq(S) /\ Len(g) = Len(f) - 1
          /\ \A i \in 1 .. Len(f) - 1 : g[i] = f[IF i < 1 THEN i ELSE i + 1]
      BY <1>6, <2>2, RemoveAtSeq
    <2>5. IsInjective(g) /\ Range(g) = T
      BY <1>6, <2>1, <2>2, <2>3, RemoveAtOrder
    <2> HIDE DEF g
    <2>6. /\ Len(g) \in Nat /\ Len(f) = Len(g) + 1 /\ DOMAIN g = 1 .. Len(g) /\ (g = <<>> <=> Len(g) = 0)
          /\ \A i \in 1 .. Len(g) : g[i] = f[i + 1]
      BY <1>7, <2>2, <2>4, SeqFacts
    <2>7. g \in Seq(T)
      <3>1. g \in [1 .. Len(g) -> T]
        <4>1. g = [i \in 1 .. Len(g) |-> g[i]]
          BY <2>4, <2>6, LenProperties
        <4>2. \A i \in 1 .. Len(g) : g[i] \in T
          BY <2>5, <2>6 DEF Range
        <4>3. QED  BY <4>1, <4>2
      <3>2. QED  BY <2>6, <3>1
    <2>8. FreeList(q, g)
      <3>1. q[H].free = IF g = <<>> THEN Null ELSE g[1]
        <4>0. pm[W(f[1])].to = IF 1 = Len(f) THEN Null ELSE f[1 + 1]
          BY <1>8, <2>2
        <4>1. q[H].free = IF 1 = Len(f) THEN Null ELSE f[1 + 1]
          <5>1. q[H].free = pm[W(o)].to
            BY <2>1
          <5>2. QED  BY <2>1, <4>0, <5>1
        <4>2. CASE g = <<>>
          BY <1>7, <2>4, <2>6, <4>1, <4>2
        <4>3. CASE g # <<>>
          <5>1. 1 \in 1 .. Len(g) /\ 1 # Len(f)
            BY <2>4, <2>6, <4>3
          <5>2. QED  BY <2>6, <4>1, <4>3, <5>1
        <4>4. QED  BY <4>2, <4>3
      <3>2. ASSUME NEW i \in 1 .. Len(g) PROVE q[W(g[i])].to = IF i = Len(g) THEN Null ELSE g[i + 1]
        <4>1. g[i] \in T
          BY <2>5, <2>6 DEF Range
        <4>2. q[W(g[i])] = pm[W(g[i])]
          BY <2>3, <4>1
        <4>3. i + 1 \in 1 .. Len(f) /\ g[i] = f[i + 1]
          BY <1>7, <2>4, <2>6
        <4>4. pm[W(f[i + 1])].to = IF i + 1 = Len(f) THEN Null ELSE f[i + 1 + 1]
          BY <1>8, <4>3
        <4>5. CASE i = Len(g)
          BY <1>7, <2>4, <4>2, <4>3, <4>4, <4>5
        <4>6. CASE i # Len(g)
          <5>1. i + 1 \in 1 .. Len(g) /\ i + 1 # Len(f)
            <6>1. Len(g) \in Nat /\ Len(f) = Len(g) + 1
              BY <2>6
            <6>2. QED  BY <4>6, <6>1
          <5>2. g[i + 1] = f[i + 1 + 1]
            BY <2>6, <5>1
          <5>3. QED  BY <4>2, <4>3, <4>4, <4>6, <5>1, <5>2
        <4>7. QED  BY <4>5, <4>6
      <3>3. QED  BY <2>6, <3>1, <3>2 DEF FreeList, H, W
    <2>9. \E e : Chain(q, e, T)
      BY <2>5, <2>7, <2>8 DEF Chain
    <2>10. ASSUME NEW p \in Known(q) PROVE q[W(p)].free_bit <=> p \notin used \cup {o}
      <3>1. CASE p = o  BY <1>3, <3>1
      <3>2. CASE p # o
        <4>1. p \in 1 .. size /\ p \in Known(pm)
          BY <1>1, <2>3
        <4>2. q[W(p)] = pm[W(p)]
          BY <3>2, <4>1
        <4>3. QED  BY <1>9, <3>2, <4>1, <4>2
      <3>3. QED  BY <3>1, <3>2
    <2>11. Matches(q, used \cup {o})
      <3>1. used \cup {o} \subseteq Known(q)
        BY <1>10, <2>3
      <3>2. q[H].num = Cardinality(used \cup {o})
        BY <1>4, <1>10, <2>1
      <3>3. QED  BY <2>9, <2>10, <3>1, <3>2 DEF Matches
    <2>12. q[H] \in [tail : 1 .. size + 1, free : Nat, num : Int] /\ q[H].tail >= h.tail
      BY <1>1, <1>2, <2>1
    <2>13. QED  BY <1>3, <2>11, <2>12, TableIntro
  <1>12. CASE h.free = Null
    <2>1. o = h.tail /\ q[H] = [tail |-> h.tail + 1, free |-> Null, num |-> h.num + 1]
      BY <1>2, <1>12
    <2>2. f = <<>>
      <3>1. SUFFICES ASSUME f # <<>> PROVE FALSE
        OBVIOUS
      <3>2. 1 \in 1 .. Len(f) /\ h.free = f[1]
        <4>1. Len(f) # 0
          BY <1>6, <3>1, SeqFacts
        <4>2. Len(f) \in Nat
          BY <1>7
        <4>3. 1 \in 1 .. Len(f)
          BY <4>1, <4>2
        <4>4. QED  BY <1>8, <3>1, <4>3
      <3>3. f[1] \in Known(pm)
        BY <1>7, <3>2
      <3>4. QED  BY <1>1, <1>12, <3>2, <3>3 DEF Known
    <2>3. S = {}
      BY <1>6, <2>2 DEF Range
    <2>4. Known(q) = Known(pm) \cup {o}
      BY <1>1, <2>1 DEF Known
    <2>5. T = {}
      BY <2>3, <2>4
    <2>6. Chain(q, <<>>, T)
      <3>1. <<>> \in Seq(T) /\ IsInjective(<<>>) /\ Range(<<>>) = T
        BY <2>5 DEF IsInjective, Range
      <3>2. FreeList(q, <<>>)
        BY <2>1 DEF FreeList, H
      <3>3. QED  BY <3>1, <3>2 DEF Chain
    <2>10. ASSUME NEW p \in Known(q) PROVE q[W(p)].free_bit <=> p \notin used \cup {o}
      <3>1. CASE p = o  BY <1>3, <3>1
      <3>2. CASE p # o
        <4>1. p \in 1 .. size /\ p \in Known(pm)
          BY <1>1, <2>4, <3>2
        <4>2. q[W(p)] = pm[W(p)]
          BY <3>2, <4>1
        <4>3. QED  BY <1>9, <3>2, <4>1, <4>2
      <3>3. QED  BY <3>1, <3>2
    <2>11. Matches(q, used \cup {o})
      <3>1. used \cup {o} \subseteq Known(q)
        BY <1>10, <2>4
      <3>2. q[H].num = Cardinality(used \cup {o})
        BY <1>4, <1>10, <2>1
      <3>3. QED  BY <2>6, <2>10, <3>1, <3>2 DEF Matches
    <2>12. q[H] \in [tail : 1 .. size + 1, free : Nat, num : Int] /\ q[H].tail >= h.tail
      BY <1>1, <1>2, <2>1
    <2>13. QED  BY <1>3, <2>11, <2>12, TableIntro
  <1>13. QED  BY <1>11, <1>12

\* What clean_free_list() writes.
Cleaned(q, pm, list) ==
  /\ DOMAIN q = DOMAIN pm
  /\ q[H] = [tail |-> pm[H].tail, free |-> list[Len(list)], num |-> pm[H].num - Len(list)]
  /\ \A i \in 1 .. Len(list) : W(list[i]) \in DOMAIN pm =>
       q[W(list[i])] = NT!Link(IF i = 1 THEN pm[H].free ELSE list[i - 1])
  /\ \A o : W(o) \in DOMAIN pm /\ o \notin Range(list) => q[W(o)] = pm[W(o)]
  /\ \A o : Rest(o) \in DOMAIN pm => q[Rest(o)] = pm[Rest(o)]

\* clean_free_list() writes the header and the words of the freed objects.
LEMMA CleanIs ==
  ASSUME NEW pm, NEW A, pm[H] \in [tail : A, free : Nat, num : Int], H \in DOMAIN pm,
         NEW S, NEW list \in Seq(S), IsInjective(list), list # <<>>
  PROVE  Cleaned(NT!clean_free_list(pm, list).pm, pm, list)
  <1> DEFINE q == NT!clean_free_list(pm, list).pm
             h == pm[H]
             m == Len(list)
             After(i) == IF i = 1 THEN h.free ELSE list[i - 1]
             Place(o) == CHOOSE i \in DOMAIN list : list[i] = o
             v == [tail |-> h.tail, free |-> list[m], num |-> h.num - m]
  <1>1. [h EXCEPT !.free = list[m], !.num = @ - m] = v
    <2>1. \A x, y : [h EXCEPT !.free = x, !.num = y] = [tail |-> h.tail, free |-> x, num |-> y]
      BY HeaderFacts
    <2>2. QED  BY <2>1
  <1>2. q = [l \in DOMAIN pm |->
               IF l = H THEN [h EXCEPT !.free = list[m], !.num = @ - m]
               ELSE IF l[1] = "word" /\ l[2] \in Range(list)
               THEN NT!Link(After(Place(l[2]))) ELSE pm[l]]
    BY DEF NT!clean_free_list, H, NT!Range, Range
  <1> HIDE DEF q, h, v, After, Place
  <1>3. q = [l \in DOMAIN pm |->
               IF l = H THEN v
               ELSE IF l[1] = "word" /\ l[2] \in Range(list)
               THEN NT!Link(After(Place(l[2]))) ELSE pm[l]]
    BY <1>1, <1>2
  <1>4. DOMAIN q = DOMAIN pm /\ q[H] = v
    BY <1>3
  <1>5. ASSUME NEW i \in 1 .. m, W(list[i]) \in DOMAIN pm
        PROVE  q[W(list[i])] = NT!Link(After(i))
    <2>1. DOMAIN list = 1 .. m /\ list[i] \in Range(list)
      BY SeqFacts
    <2>2. \A j \in DOMAIN list : list[j] = list[i] => j = i
      BY <2>1 DEF IsInjective
    <2>3. Place(list[i]) = i
      BY <2>1, <2>2 DEF Place
    <2>4. W(list[i]) # H /\ W(list[i])[1] = "word" /\ W(list[i])[2] = list[i]
      BY Locations
    <2>5. QED  BY <1>3, <1>5, <2>1, <2>3, <2>4
  <1>6. ASSUME NEW o, W(o) \in DOMAIN pm, o \notin Range(list) PROVE q[W(o)] = pm[W(o)]
    <2>1. W(o) # H /\ W(o)[2] = o
      BY Locations
    <2>2. QED  BY <1>3, <1>6, <2>1
  <1>7. ASSUME NEW o, Rest(o) \in DOMAIN pm PROVE q[Rest(o)] = pm[Rest(o)]
    <2>1. Rest(o) # H /\ Rest(o)[1] # "word"
      BY Locations
    <2>2. QED  BY <1>3, <1>7, <2>1
  <1>8. QED  BY <1>4, <1>5, <1>6, <1>7 DEF Cleaned, q, h, v, After

\* Two lists of distinct elements, the first one backwards.
Onto(list, f) ==
  [i \in 1 .. Len(list) + Len(f) |-> IF i <= Len(list) THEN list[Len(list) + 1 - i] ELSE f[i - Len(list)]]

\* g has the elements of S, those of the list first.
Joins(g, list, f, S) ==
  /\ g \in Seq(S) /\ IsInjective(g) /\ Range(g) = S
  /\ Len(g) = Len(list) + Len(f)
  /\ \A i \in 1 .. Len(list) : g[i] = list[Len(list) + 1 - i]
  /\ \A i \in Len(list) + 1 .. Len(list) + Len(f) : g[i] = f[i - Len(list)]

\* The freed objects, last first, followed by the old free list.
LEMMA OntoFacts ==
  ASSUME NEW R, NEW list \in Seq(R), IsInjective(list), Range(list) = R,
         NEW F, NEW f \in Seq(F), IsInjective(f), Range(f) = F, R \cap F = {}
  PROVE  Joins(Onto(list, f), list, f, R \cup F)
  <1> DEFINE m == Len(list)
             n == Len(f)
             g == Onto(list, f)
  <1>1. /\ m \in Nat /\ DOMAIN list = 1 .. m /\ \A i \in 1 .. m : list[i] \in R
        /\ n \in Nat /\ DOMAIN f = 1 .. n /\ \A i \in 1 .. n : f[i] \in F
    BY SeqFacts
  <1>2. g = [i \in 1 .. m + n |-> IF i <= m THEN list[m + 1 - i] ELSE f[i - m]]
    BY DEF Onto
  <1> HIDE DEF g, m, n
  <1>3. \A i \in 1 .. m : g[i] = list[m + 1 - i] /\ m + 1 - i \in 1 .. m
    BY <1>1, <1>2
  <1>4. \A i \in m + 1 .. m + n : g[i] = f[i - m] /\ i - m \in 1 .. n
    BY <1>1, <1>2
  <1>5. \A i \in 1 .. m + n : i \in 1 .. m \/ i \in m + 1 .. m + n
    BY <1>1
  <1>6. g \in [1 .. m + n -> R \cup F]
    <2>1. \A i \in 1 .. m + n : g[i] \in R \cup F
      BY <1>1, <1>3, <1>4, <1>5
    <2>2. QED  BY <1>2, <2>1
  <1>7. g \in Seq(R \cup F) /\ Len(g) = m + n
    BY <1>1, <1>6
  <1>8. IsInjective(g)
    <2>1. SUFFICES ASSUME NEW i \in 1 .. m + n, NEW j \in 1 .. m + n, g[i] = g[j] PROVE i = j
      BY <1>6 DEF IsInjective
    <2>2. CASE i \in 1 .. m /\ j \in 1 .. m
      <3>1. list[m + 1 - i] = list[m + 1 - j] /\ m + 1 - i \in 1 .. m /\ m + 1 - j \in 1 .. m
        BY <1>3, <2>1, <2>2
      <3>2. m + 1 - i = m + 1 - j
        BY <1>1, <3>1 DEF IsInjective
      <3>3. QED  BY <1>1, <3>2
    <2>3. CASE i \in m + 1 .. m + n /\ j \in m + 1 .. m + n
      <3>1. f[i - m] = f[j - m] /\ i - m \in 1 .. n /\ j - m \in 1 .. n
        BY <1>4, <2>1, <2>3
      <3>2. i - m = j - m
        BY <1>1, <3>1 DEF IsInjective
      <3>3. QED  BY <1>1, <3>2
    <2>4. CASE i \in 1 .. m /\ j \in m + 1 .. m + n
      <3>1. g[i] \in R /\ g[j] \in F
        BY <1>1, <1>3, <1>4, <2>4
      <3>2. QED  BY <2>1, <3>1
    <2>5. CASE j \in 1 .. m /\ i \in m + 1 .. m + n
      <3>1. g[j] \in R /\ g[i] \in F
        BY <1>1, <1>3, <1>4, <2>5
      <3>2. QED  BY <2>1, <3>1
    <2>6. QED  BY <1>5, <2>2, <2>3, <2>4, <2>5
  <1>9. Range(g) = R \cup F
    <2>1. Range(g) \subseteq R \cup F
      BY <1>7, SeqFacts
    <2>2. ASSUME NEW x \in R PROVE x \in Range(g)
      <3>1. PICK i \in 1 .. m : list[i] = x
        BY <1>1 DEF Range
      <3>2. m + 1 - i \in 1 .. m /\ m + 1 - i \in 1 .. m + n /\ m + 1 - (m + 1 - i) = i
        BY <1>1
      <3>3. g[m + 1 - i] = x
        BY <1>3, <3>1, <3>2
      <3>4. QED  BY <1>6, <3>2, <3>3 DEF Range
    <2>3. ASSUME NEW x \in F PROVE x \in Range(g)
      <3>1. PICK i \in 1 .. n : f[i] = x
        BY <1>1 DEF Range
      <3>2. m + i \in m + 1 .. m + n /\ m + i \in 1 .. m + n /\ (m + i) - m = i
        BY <1>1
      <3>3. g[m + i] = x
        BY <1>4, <3>1, <3>2
      <3>4. QED  BY <1>6, <3>2, <3>3 DEF Range
    <2>4. QED  BY <2>1, <2>2, <2>3
  <1>10. QED  BY <1>3, <1>4, <1>7, <1>8, <1>9 DEF Joins, g, m, n

\* The objects of the list are free afterwards.
Releases(pm, q, size, used, list) ==
  /\ TableOK(q, size, used \ Range(list)) /\ DOMAIN q = DOMAIN pm
  /\ \A o \in 1 .. size : o \notin Range(list) => q[W(o)] = pm[W(o)]
  /\ \A o : Rest(o) \in DOMAIN pm => q[Rest(o)] = pm[Rest(o)]

\* clean_free_list() gives the objects back, and the table is right again.
LEMMA CleanFacts ==
  ASSUME NEW pm, NEW size \in Nat, NEW used, TableOK(pm, size, used),
         NEW list \in Seq(1 .. size), IsInjective(list), list # <<>>, Range(list) \subseteq used
  PROVE  Releases(pm, NT!clean_free_list(pm, list).pm, size, used, list)
  <1> DEFINE q == NT!clean_free_list(pm, list).pm
             h == pm[H]
             m == Len(list)
             R == Range(list)
             F == Known(pm) \ used
             T == Known(q) \ (used \ R)
  <1>0. h \in [tail : 1 .. size + 1, free : Nat, num : Int]
    BY DEF TableOK
  <1>1. /\ h.tail \in Nat /\ h.free \in Nat /\ h.num \in Int
        /\ H \in DOMAIN pm /\ \A p \in 1 .. size : W(p) \in DOMAIN pm
        /\ Known(pm) \subseteq 1 .. size /\ Matches(pm, used) /\ Null = 0
        /\ IsFiniteSet(used) /\ used \subseteq 1 .. size
    BY TableFacts, GraphBounds
  <1>2. /\ DOMAIN q = DOMAIN pm
        /\ q[H] = [tail |-> h.tail, free |-> list[m], num |-> h.num - m]
        /\ \A i \in 1 .. m : W(list[i]) \in DOMAIN pm =>
             q[W(list[i])] = NT!Link(IF i = 1 THEN h.free ELSE list[i - 1])
        /\ \A o : W(o) \in DOMAIN pm /\ o \notin Range(list) => q[W(o)] = pm[W(o)]
        /\ \A o : Rest(o) \in DOMAIN pm => q[Rest(o)] = pm[Rest(o)]
    <2>1. Cleaned(q, pm, list)
      BY <1>0, <1>1, CleanIs
    <2> HIDE DEF q
    <2>2. QED  BY <2>1 DEF Cleaned
  <1> HIDE DEF q
  <1>3. /\ m \in Nat /\ m # 0 /\ DOMAIN list = 1 .. m /\ \A i \in 1 .. m : list[i] \in R /\ list[i] \in 1 .. size
    BY SeqFacts
  <1>4. list \in Seq(R)
    <2>1. list = [i \in 1 .. m |-> list[i]]
      BY <1>3, LenProperties
    <2>2. list \in [1 .. m -> R]
      BY <1>3, <2>1
    <2>3. QED  BY <1>3, <2>2
  <1>5. IsFiniteSet(R) /\ Cardinality(R) = m
    BY <1>4, SeqCardinality
  <1>6. Cardinality(used \ R) = Cardinality(used) - m
    <2>1. used \cap R = R
      OBVIOUS
    <2>2. Cardinality(used \ R) = Cardinality(used) - Cardinality(used \cap R)
      <3> HIDE DEF R
      <3>1. QED  BY <1>1, FS_Difference
    <2>3. QED  BY <1>5, <2>1, <2>2
  <1>7. PICK f : Chain(pm, f, F)
    BY <1>1 DEF Matches
  <1>8. f \in Seq(F) /\ IsInjective(f) /\ Range(f) = F /\ FreeList(pm, f)
    BY <1>7 DEF Chain
  <1>9. Len(f) \in Nat /\ DOMAIN f = 1 .. Len(f) /\ (f = <<>> <=> Len(f) = 0) /\ \A i \in 1 .. Len(f) : f[i] \in F
    BY <1>8, SeqFacts
  <1>10. /\ h.free = IF f = <<>> THEN Null ELSE f[1]
         /\ \A i \in 1 .. Len(f) : pm[W(f[i])].to = IF i = Len(f) THEN Null ELSE f[i + 1]
    BY <1>8, <1>9 DEF FreeList, H, W
  <1>11. (\A p \in Known(pm) : pm[W(p)].free_bit <=> p \notin used) /\ used \subseteq Known(pm) /\ h.num = Cardinality(used)
    BY <1>1 DEF Matches
  <1>12. Known(q) = Known(pm) /\ T = R \cup F /\ R \cap F = {}
    <2>1. Known(q) = Known(pm)
      BY <1>2 DEF Known
    <2>2. QED  BY <1>11, <2>1
  <1> DEFINE g == Onto(list, f)
  <1>13. /\ g \in Seq(T) /\ IsInjective(g) /\ Range(g) = T /\ Len(g) = m + Len(f)
         /\ \A i \in 1 .. m : g[i] = list[m + 1 - i]
         /\ \A i \in m + 1 .. m + Len(f) : g[i] = f[i - m]
    <2> HIDE DEF R, F, T
    <2>1. Range(list) = R
      BY DEF R
    <2>2. f \in Seq(F) /\ IsInjective(f) /\ Range(f) = F /\ R \cap F = {}
      BY <1>8, <1>12
    <2>3. Joins(g, list, f, R \cup F)
      BY <1>4, <2>1, <2>2, OntoFacts
    <2> HIDE DEF g
    <2>4. QED  BY <1>12, <2>3 DEF Joins
  <1> HIDE DEF g
  <1>14. g # <<>> /\ DOMAIN g = 1 .. m + Len(f)
    BY <1>3, <1>9, <1>13, SeqFacts
  <1>15. \A i \in 1 .. m :
           /\ q[W(list[i])] = [to |-> IF i = 1 THEN h.free ELSE list[i - 1], free_bit |-> TRUE]
           /\ q[W(list[i])].to = IF i = 1 THEN h.free ELSE list[i - 1]
           /\ q[W(list[i])].free_bit
    <2>1. \A i \in 1 .. m : q[W(list[i])] = NT!Link(IF i = 1 THEN h.free ELSE list[i - 1])
      BY <1>1, <1>2, <1>3
    <2>2. QED  BY <2>1 DEF NT!Link
  <1>16. \A o \in 1 .. size : o \notin R => q[W(o)] = pm[W(o)]
    BY <1>1, <1>2
  <1>17. FreeList(q, g)
    <2>1. q[H].free = g[1]
      <3>1. 1 \in 1 .. m /\ m + 1 - 1 = m
        BY <1>3
      <3>2. q[H].free = list[m]
        BY <1>2
      <3>3. QED  BY <1>13, <3>1, <3>2
    <2>2. ASSUME NEW i \in 1 .. m + Len(f)
          PROVE  q[W(g[i])].to = IF i = m + Len(f) THEN Null ELSE g[i + 1]
      <3>0. m \in Nat /\ m # 0 /\ Len(f) \in Nat
        BY <1>3, <1>9
      <3>1. CASE i < m
        <4>1. i \in 1 .. m /\ m + 1 - i \in 1 .. m /\ m + 1 - i # 1 /\ i # m + Len(f)
          BY <3>0, <3>1
        <4>2. q[W(g[i])].to = list[m + 1 - i - 1]
          <5>1. g[i] = list[m + 1 - i]
            BY <1>13, <4>1
          <5>2. \A k \in 1 .. m : k # 1 => q[W(list[k])].to = list[k - 1]
            BY <1>15
          <5>3. q[W(list[m + 1 - i])].to = list[m + 1 - i - 1]
            BY <4>1, <5>2
          <5>4. QED  BY <5>1, <5>3
        <4>3. i + 1 \in 1 .. m /\ m + 1 - i - 1 = m + 1 - (i + 1)
          BY <3>0, <3>1
        <4>4. g[i + 1] = list[m + 1 - (i + 1)]
          BY <1>13, <4>3
        <4>5. QED  BY <4>1, <4>2, <4>3, <4>4
      <3>2. CASE i = m
        <4>1. m \in 1 .. m /\ m + 1 - m = 1 /\ 1 \in 1 .. m
          BY <3>0
        <4>2. g[m] = list[1]
          BY <1>13, <4>1
        <4>3. q[W(g[i])].to = h.free
          <5>1. q[W(list[1])].to = h.free
            BY <1>15, <4>1
          <5>2. QED  BY <3>2, <4>2, <5>1
        <4>4. CASE Len(f) = 0
          BY <1>9, <1>10, <3>0, <3>2, <4>3, <4>4
        <4>5. CASE Len(f) # 0
          <5>1. m + 1 \in m + 1 .. m + Len(f) /\ m + 1 - m = 1 /\ m # m + Len(f)
            BY <3>0, <4>5
          <5>2. g[m + 1] = f[1]
            <6>1. \A k \in m + 1 .. m + Len(f) : g[k] = f[k - m]
              BY <1>13
            <6>2. g[m + 1] = f[m + 1 - m]
              BY <5>1, <6>1
            <6>3. QED  BY <5>1, <6>2
          <5>3. h.free = f[1]
            BY <1>9, <1>10, <4>5
          <5>4. QED  BY <3>2, <4>3, <5>1, <5>2, <5>3
        <4>6. QED  BY <4>4, <4>5
      <3>3. CASE i > m
        <4>1. i \in m + 1 .. m + Len(f) /\ i - m \in 1 .. Len(f)
          BY <3>0, <3>3
        <4>2. g[i] = f[i - m] /\ f[i - m] \in F
          BY <1>9, <1>13, <4>1
        <4>3. q[W(g[i])] = pm[W(f[i - m])]
          BY <1>1, <1>12, <1>16, <4>2
        <4>4. q[W(g[i])].to = IF i - m = Len(f) THEN Null ELSE f[i - m + 1]
          BY <1>10, <4>1, <4>3
        <4>5. CASE i = m + Len(f)
          <5>1. i - m = Len(f)
            BY <3>0, <4>5
          <5>2. QED  BY <4>4, <4>5, <5>1
        <4>6. CASE i # m + Len(f)
          <5>1. i - m # Len(f) /\ i + 1 \in m + 1 .. m + Len(f) /\ i + 1 - m = i - m + 1
            BY <3>0, <3>3, <4>6
          <5>2. g[i + 1] = f[i - m + 1]
            BY <1>13, <5>1
          <5>3. QED  BY <4>4, <4>6, <5>1, <5>2
        <4>7. QED  BY <4>5, <4>6
      <3>4. QED  BY <3>0, <3>1, <3>2, <3>3
    <2>3. QED  BY <1>13, <1>14, <2>1, <2>2 DEF FreeList, H, W
  <1>18. ASSUME NEW o \in Known(q) PROVE q[W(o)].free_bit <=> o \notin used \ R
    <2>1. CASE o \in R
      <3>1. PICK i \in 1 .. m : list[i] = o
        BY <1>3, <2>1 DEF Range
      <3>2. q[W(list[i])].free_bit
        BY <1>15
      <3>3. QED  BY <2>1, <3>1, <3>2
    <2>2. CASE o \notin R
      <3>1. o \in 1 .. size /\ o \in Known(pm)
        BY <1>1, <1>12
      <3>2. q[W(o)] = pm[W(o)]
        BY <1>16, <2>2, <3>1
      <3>3. QED  BY <1>11, <2>2, <3>1, <3>2
    <2>3. QED  BY <2>1, <2>2
  <1>19. Matches(q, used \ R)
    <2>1. \E e : Chain(q, e, T)
      BY <1>13, <1>17 DEF Chain
    <2>2. q[H].num = Cardinality(used \ R) /\ used \ R \subseteq Known(q)
      BY <1>2, <1>6, <1>11, <1>12
    <2>3. QED  BY <1>18, <2>1, <2>2 DEF Matches
  <1>20. ASSUME NEW o \in 1 .. size PROVE q[W(o)] \in [to : Nat, free_bit : BOOLEAN]
    <2>1. CASE o \in R
      <3>1. PICK i \in 1 .. m : list[i] = o
        BY <1>3, <2>1 DEF Range
      <3>2. (IF i = 1 THEN h.free ELSE list[i - 1]) \in Nat
        <4>1. CASE i = 1  BY <1>1, <4>1
        <4>2. CASE i # 1
          <5>1. i - 1 \in 1 .. m
            BY <1>3, <4>2
          <5>2. QED  BY <1>3, <4>2, <5>1
        <4>3. QED  BY <4>1, <4>2
      <3>3. q[W(list[i])] = [to |-> IF i = 1 THEN h.free ELSE list[i - 1], free_bit |-> TRUE]
        BY <1>15
      <3>4. [to |-> IF i = 1 THEN h.free ELSE list[i - 1], free_bit |-> TRUE] \in [to : Nat, free_bit : BOOLEAN]
        BY <3>2
      <3>5. QED  BY <3>1, <3>3, <3>4
    <2>2. CASE o \notin R
      <3>1. pm[W(o)] \in [to : Nat, free_bit : BOOLEAN]
        BY DEF TableOK
      <3>2. QED  BY <1>16, <2>2, <3>1
    <2>3. QED  BY <2>1, <2>2
  <1>21. q[H] \in [tail : 1 .. size + 1, free : Nat, num : Int]
    <2>1. list[m] \in Nat /\ h.tail \in 1 .. size + 1 /\ h.num - m \in Int
      BY <1>0, <1>1, <1>3
    <2>2. QED  BY <1>2, <2>1
  <1>22. TableOK(q, size, used \ R)
    BY <1>1, <1>2, <1>19, <1>20, <1>21, TableIntro
  <1>23. QED  BY <1>2, <1>16, <1>22 DEF Releases, q

-----------------------------------------------------------------------------
(***************************************************************************)
(* The inductive invariant.                                                *)
(***************************************************************************)
\* A graph: its nodes, its edges by object, and both ends of every edge exist.
GraphOK(g) ==
  /\ DOMAIN g = {"nodes", "edges"} /\ g.nodes \subseteq NPool /\ DOMAIN g.edges \subseteq EPool
  /\ \A e \in DOMAIN g.edges : g.edges[e] \in EdgeRecord /\ \A d \in Dirs : End(g.edges[e], d) \in g.nodes

NodesOK(pm, nodes) == \A n \in nodes : pm[W(n)] = NT!Data(n)

\* The tables, in which the objects in N and E are taken, and the indices hold
\* the graph g.
Stored(nt, et, ix, g, N, E) ==
  /\ GraphOK(g)
  /\ TableOK(nt, NumNodes, N) /\ NodesOK(nt, g.nodes)
  /\ TableOK(et, NumEdges, E) /\ EdgesOK(et, g.edges)
  /\ IndexOK(ix, g.edges, DOMAIN g.edges)

States == {"idle", "run", "failed", "dead", "commit"}

\* What a power failure may lose: words of a table, and the rest of edges.
LostOK(was, size) ==
  \A l \in DOMAIN was : \E o \in 1 .. size :
    (l = W(o) /\ was[l] \in [to : Nat, free_bit : BOOLEAN]) \/ l = Rest(o)

Memory ==
  /\ pc \in States /\ DOMAIN undo = {"n", "e", "i"}
  /\ DOMAIN lost = {"n", "e"} /\ LostOK(lost.n, NumNodes) /\ LostOK(lost.e, NumEdges)
  /\ \A e \in EPool : Rest(e) \in DOMAIN etable
  /\ DOMAIN watch = {"want", "seen", "twice"} /\ ~watch.twice

\* A rollback would bring back the committed graph.
Recoverable ==
  Stored(rollback(undo.n, ntable), rollback(undo.e, etable), rollback(undo.i, idx),
         saved, saved.nodes, DOMAIN saved.edges)

Idle ==
  /\ undo = [n |-> Empty, e |-> Empty, i |-> Empty] /\ nfrees = <<>> /\ efrees = <<>>
  /\ it = NoIterator /\ watch = NoWatch /\ graph = saved
  /\ Stored(ntable, etable, idx, graph, graph.nodes, DOMAIN graph.edges)

\* Delayed frees are of objects that left the graph.
Frees(list, size, live) == list \in Seq(1 .. size) /\ IsInjective(list) /\ live \cap Range(list) = {}

\* A table that was taken over with the objects in `was` taken, whose journal
\* is u: what was free then and was not below the tail may be overwritten.
TableTx(pm, u, used, was) == was \subseteq used /\ rollback(u, pm)[H].tail <= pm[H].tail

\* What the client saw does not come again, and what it wants to see and did
\* not see yet is coming.
WatchOK(w, ix, i) ==
  /\ w.want \subseteq Dirs \X EPool
  /\ \A x \in w.seen : ~Coming(ix, i, x[1], x[2])
  /\ \A x \in w.want : x \in w.seen \/ Coming(ix, i, x[1], x[2])

UsedNodes == graph.nodes \cup Range(nfrees)
UsedEdges == DOMAIN graph.edges \cup Range(efrees)

Running ==
  /\ Stored(ntable, etable, idx, graph, UsedNodes, UsedEdges)
  /\ Frees(nfrees, NumNodes, graph.nodes) /\ Frees(efrees, NumEdges, DOMAIN graph.edges)
  /\ TableTx(ntable, undo.n, UsedNodes, saved.nodes)
  /\ TableTx(etable, undo.e, UsedEdges, DOMAIN saved.edges)
  /\ Standing(idx, it) /\ ~it.dead
  /\ WatchOK(watch, idx, it) /\ \A x \in watch.seen : x[2] \in UsedEdges

Committing == Stored(ntable, etable, idx, graph, graph.nodes, DOMAIN graph.edges)

\* The callbacks of the commit overwrote no word that a rollback needs.
LinkedNew ==
  ~Unrestored(ntable, undo.n, Linked(nfrees)) /\ ~Unrestored(etable, undo.e, Linked(efrees))

GraphInv ==
  /\ Memory
  /\ pc # "commit" => Recoverable
  /\ pc = "idle" => Idle
  /\ pc = "run" => Running
  /\ pc = "commit" => Committing /\ (LinkedNew => Recoverable)

-----------------------------------------------------------------------------
(***************************************************************************)
(* Journals.                                                               *)
(***************************************************************************)
LEMMA RollbackFacts ==
  ASSUME NEW u, NEW pm
  PROVE  /\ DOMAIN rollback(u, pm) = DOMAIN pm
         /\ \A l \in DOMAIN pm : rollback(u, pm)[l] = IF l \in DOMAIN u THEN u[l] ELSE pm[l]
         /\ \A l \in DOMAIN pm : rollback(Empty, pm)[l] = pm[l]
  <1>1. DOMAIN Empty = {}
    BY DEF Empty
  <1>2. QED  BY <1>1 DEF rollback

\* What was logged, or not changed, is rolled back to the same value.
LEMMA RollbackLog ==
  ASSUME NEW u, NEW pm, NEW L, NEW q, DOMAIN q = DOMAIN pm, NEW l \in DOMAIN pm,
         l \in L \/ q[l] = pm[l]
  PROVE  rollback(log(u, pm, L), q)[l] = rollback(u, pm)[l]
  <1> DEFINE v == log(u, pm, L)
  <1>1. DOMAIN v = DOMAIN u \cup L /\ \A k \in DOMAIN v : v[k] = IF k \in DOMAIN u THEN u[k] ELSE pm[k]
    BY DEF log
  <1> HIDE DEF v
  <1>2. /\ rollback(v, q)[l] = IF l \in DOMAIN v THEN v[l] ELSE q[l]
        /\ rollback(u, pm)[l] = IF l \in DOMAIN u THEN u[l] ELSE pm[l]
    BY DEF rollback
  <1>3. CASE l \in DOMAIN u
    <2>1. l \in DOMAIN v /\ v[l] = u[l]
      BY <1>1, <1>3
    <2>2. QED  BY <1>2, <1>3, <2>1 DEF v
  <1>4. CASE l \notin DOMAIN u /\ l \in L
    <2>1. l \in DOMAIN v /\ v[l] = pm[l]
      BY <1>1, <1>4
    <2>2. QED  BY <1>2, <1>4, <2>1 DEF v
  <1>5. CASE l \notin DOMAIN u /\ l \notin L
    <2>1. l \notin DOMAIN v /\ q[l] = pm[l]
      BY <1>1, <1>5
    <2>2. QED  BY <1>2, <1>5, <2>1 DEF v
  <1>6. QED  BY <1>3, <1>4, <1>5

\* If all that changes is logged, nothing is lost.
LEMMA RollbackSame ==
  ASSUME NEW u, NEW pm, NEW L, NEW q, DOMAIN q = DOMAIN pm,
         \A l \in DOMAIN pm : l \in L \/ q[l] = pm[l]
  PROVE  rollback(log(u, pm, L), q) = rollback(u, pm)
  <1> DEFINE a == rollback(log(u, pm, L), q)
             b == rollback(u, pm)
  <1>1. \A l \in DOMAIN pm : a[l] = b[l]
    BY RollbackLog
  <1>2. a = [l \in DOMAIN pm |-> a[l]] /\ b = [l \in DOMAIN pm |-> b[l]]
    <2>1. a = [l \in DOMAIN q |-> IF l \in DOMAIN log(u, pm, L) THEN log(u, pm, L)[l] ELSE q[l]]
      BY DEF rollback
    <2>2. b = [l \in DOMAIN pm |-> IF l \in DOMAIN u THEN u[l] ELSE pm[l]]
      BY DEF rollback
    <2> HIDE DEF a, b
    <2>3. QED  BY <2>1, <2>2
  <1> HIDE DEF a, b
  <1>3. a = b
    BY <1>1, <1>2
  <1>4. QED  BY <1>3 DEF a, b

\* Rolling back an empty journal changes nothing.
LEMMA RollbackEmpty ==
  ASSUME NEW u, NEW pm, DOMAIN u = {}, NEW v
  PROVE  rollback(v, rollback(u, pm)) = rollback(v, pm)
  <1> DEFINE q == rollback(u, pm)
  <1>1. DOMAIN q = DOMAIN pm /\ \A l \in DOMAIN pm : q[l] = pm[l]
    BY RollbackFacts
  <1> HIDE DEF q
  <1>2. rollback(v, q) = rollback(v, pm)
    BY <1>1 DEF rollback
  <1>3. QED  BY <1>2 DEF q

\* Nothing to roll back.
LEMMA StoredEmpty ==
  ASSUME NEW nt, NEW et, NEW ix, NEW g, NEW N, NEW E, Stored(nt, et, ix, g, N, E),
         \A e \in EPool : Rest(e) \in DOMAIN et
  PROVE  Stored(rollback(Empty, nt), rollback(Empty, et), rollback(Empty, ix), g, N, E)
  <1> DEFINE qn == rollback(Empty, nt)
             qe == rollback(Empty, et)
             qi == rollback(Empty, ix)
  <1>1. /\ DOMAIN qn = DOMAIN nt /\ \A l \in DOMAIN nt : qn[l] = nt[l]
        /\ DOMAIN qe = DOMAIN et /\ \A l \in DOMAIN et : qe[l] = et[l]
        /\ DOMAIN qi = DOMAIN ix /\ \A l \in DOMAIN ix : qi[l] = ix[l]
    BY RollbackFacts
  <1>2. /\ GraphOK(g) /\ TableOK(nt, NumNodes, N) /\ NodesOK(nt, g.nodes)
        /\ TableOK(et, NumEdges, E) /\ EdgesOK(et, g.edges) /\ IndexOK(ix, g.edges, DOMAIN g.edges)
    BY DEF Stored
  <1>3. qi = ix
    <2>1. ix = [n \in NPool |-> ix[n]] /\ DOMAIN ix = NPool
      BY <1>2 DEF IndexOK, Shape
    <2>2. qi = [n \in DOMAIN ix |-> IF n \in DOMAIN Empty THEN Empty[n] ELSE ix[n]]
      BY DEF rollback
    <2> HIDE DEF qi
    <2>3. qi = [n \in NPool |-> ix[n]]
      BY <1>1, <2>1, <2>2
    <2>4. QED  BY <2>1, <2>3
  <1> HIDE DEF qn, qe, qi
  <1>4. NumNodes \in Nat /\ NumEdges \in Nat
    BY GraphBounds
  <1>5. TableOK(qn, NumNodes, N)
    <2>1. H \in DOMAIN nt /\ \A o \in 1 .. NumNodes : W(o) \in DOMAIN nt
      BY <1>2, <1>4, TableFacts
    <2>2. \A o \in 1 .. NumNodes : nt[W(o)] \in [to : Nat, free_bit : BOOLEAN]
      BY <1>2 DEF TableOK
    <2>3. qn[H] = nt[H] /\ H \in DOMAIN qn /\ \A o \in 1 .. NumNodes : W(o) \in DOMAIN qn /\ qn[W(o)] = nt[W(o)]
      BY <1>1, <2>1
    <2>4. QED  BY <1>2, <1>4, <2>2, <2>3, TableFrame
  <1>6. TableOK(qe, NumEdges, E)
    <2>1. H \in DOMAIN et /\ \A o \in 1 .. NumEdges : W(o) \in DOMAIN et
      BY <1>2, <1>4, TableFacts
    <2>2. \A o \in 1 .. NumEdges : et[W(o)] \in [to : Nat, free_bit : BOOLEAN]
      BY <1>2 DEF TableOK
    <2>3. qe[H] = et[H] /\ H \in DOMAIN qe /\ \A o \in 1 .. NumEdges : W(o) \in DOMAIN qe /\ qe[W(o)] = et[W(o)]
      BY <1>1, <2>1
    <2>4. QED  BY <1>2, <1>4, <2>2, <2>3, TableFrame
  <1>7. NodesOK(qn, g.nodes)
    <2>1. \A n \in g.nodes : W(n) \in DOMAIN nt
      BY <1>2, <1>4, TableFacts, Pools DEF GraphOK
    <2>2. QED  BY <1>1, <1>2, <2>1 DEF NodesOK
  <1>8. EdgesOK(qe, g.edges)
    <2>1. \A e \in DOMAIN g.edges : W(e) \in DOMAIN et /\ Rest(e) \in DOMAIN et /\ ET!Word(e) = W(e)
      BY <1>2, <1>4, TableFacts, Pools, SameOperators DEF GraphOK
    <2>2. QED  BY <1>1, <1>2, <2>1 DEF EdgesOK
  <1>9. QED  BY <1>2, <1>3, <1>5, <1>6, <1>7, <1>8 DEF Stored, qn, qe, qi

\* An object is taken in a transaction.
Takes(pm, q, size, used, was, u, v, o) ==
  /\ o \in (1 .. size) \ used /\ TableOK(q, size, used \cup {o})
  /\ TableTx(q, v, used \cup {o}, was) /\ TableOK(rollback(v, q), size, was)
  /\ \A l \in DOMAIN pm : l \notin {W(o), Rest(o)} => rollback(v, q)[l] = rollback(u, pm)[l]

\* alloc() in a transaction: the object is taken, and rollback still gives it back.
LEMMA AllocTx ==
  ASSUME NEW pm, NEW size \in Nat, NEW used, TableOK(pm, size, used),
         ~(pm[H].free = Null /\ pm[H].tail > size),
         NEW u, NEW was, TableTx(pm, u, used, was), TableOK(rollback(u, pm), size, was),
         NEW q, NEW o, o = NT!fa_alloc(pm).obj, q[H] = NT!fa_alloc(pm).pm[H], DOMAIN q = DOMAIN pm,
         NEW x \in Nat, q[W(o)] = NT!Data(x),
         \A l \in DOMAIN pm : l \notin {H, W(o), Rest(o)} => q[l] = pm[l]
  PROVE  Takes(pm, q, size, used, was, u, log(u, pm, NT!fa_alloc(pm).logs), o)
  <1> DEFINE L == NT!fa_alloc(pm).logs
             v == log(u, pm, L)
             b == rollback(u, pm)
             c == rollback(v, q)
             h == pm[H]
  <1>1. /\ o \in (1 .. size) \ used /\ o = (IF h.free # Null THEN h.free ELSE h.tail)
        /\ L = IF h.free # Null THEN {H, W(o)} ELSE {H}
    BY AllocFacts
  <1>2. H \in DOMAIN pm /\ (\A p \in 1 .. size : W(p) \in DOMAIN pm) /\ h.tail \in Nat
    BY TableFacts
  <1>3. \A p \in 1 .. size : p # o => q[W(p)] = pm[W(p)]
    BY <1>2, Locations
  <1>4. TableOK(q, size, used \cup {o}) /\ q[H].tail >= h.tail
    BY <1>2, <1>3, AllocTable
  <1> HIDE DEF L
  <1>5. \A l \in DOMAIN pm : l \notin {W(o), Rest(o)} => c[l] = b[l]
    <2>1. SUFFICES ASSUME NEW l \in DOMAIN pm, l \notin {W(o), Rest(o)} PROVE c[l] = b[l]
      OBVIOUS
    <2>2. l \in L \/ q[l] = pm[l]
      BY <1>1, <2>1
    <2>3. QED  BY <2>2, RollbackLog
  <1>6. o < h.tail => c[W(o)] = b[W(o)]
    <2>1. SUFFICES ASSUME o < h.tail PROVE c[W(o)] = b[W(o)]
      OBVIOUS
    <2>2. o # h.tail
      BY <1>2, <2>1
    <2>3. W(o) \in L
      BY <1>1, <2>2
    <2>4. W(o) \in DOMAIN pm
      BY <1>1, <1>2
    <2>5. QED  BY <2>3, <2>4, RollbackLog
  <1>7. b[H].tail <= h.tail /\ was \subseteq used
    BY DEF TableTx
  <1>8. b[H].tail \in Nat /\ \A p \in 1 .. size : b[W(p)] \in [to : Nat, free_bit : BOOLEAN]
    BY TableFacts DEF TableOK
  <1>9. c[W(o)] \in [to : Nat, free_bit : BOOLEAN]
    <2>1. W(o) \in DOMAIN pm
      BY <1>1, <1>2
    <2>2. DOMAIN v = DOMAIN u \cup L /\ \A k \in DOMAIN v : v[k] = IF k \in DOMAIN u THEN u[k] ELSE pm[k]
      BY DEF log
    <2> HIDE DEF v
    <2>3. /\ c[W(o)] = IF W(o) \in DOMAIN v THEN v[W(o)] ELSE q[W(o)]
          /\ b[W(o)] = IF W(o) \in DOMAIN u THEN u[W(o)] ELSE pm[W(o)]
      BY <2>1, RollbackFacts
    <2>4. CASE W(o) \in L
      <3>1. c[W(o)] = b[W(o)]
        BY <2>1, <2>4, RollbackLog DEF v
      <3>2. QED  BY <1>1, <1>8, <3>1
    <2>5. CASE W(o) \notin L
      <3>1. CASE W(o) \in DOMAIN u
        <4>1. c[W(o)] = b[W(o)]
          BY <2>2, <2>3, <3>1
        <4>2. QED  BY <1>1, <1>8, <4>1
      <3>2. CASE W(o) \notin DOMAIN u
        <4>1. c[W(o)] = NT!Data(x)
          BY <2>2, <2>3, <2>5, <3>2
        <4>2. QED  BY <4>1 DEF NT!Data
      <3>3. QED  BY <3>1, <3>2
    <2>6. QED  BY <2>4, <2>5
  <1>10. DOMAIN b = DOMAIN pm /\ DOMAIN c = DOMAIN pm
    BY RollbackFacts
  <1> HIDE DEF v, b, c
  <1>11. c[H] = b[H]
    BY <1>2, <1>5, Locations
  <1>12. \A p \in 1 .. size : p # o => c[W(p)] = b[W(p)]
    BY <1>2, <1>5, Locations
  <1>13. \A p \in 1 .. size : c[W(p)] \in [to : Nat, free_bit : BOOLEAN]
    BY <1>8, <1>9, <1>12
  <1>14. \A p \in 1 .. size : p < b[H].tail => c[W(p)] = b[W(p)]
    <2>1. SUFFICES ASSUME NEW p \in 1 .. size, p < b[H].tail PROVE c[W(p)] = b[W(p)]
      OBVIOUS
    <2>2. p < h.tail
      BY <1>2, <1>7, <1>8, <2>1
    <2>3. QED  BY <1>6, <1>12, <2>2
  <1>15. TableOK(b, size, was)
    BY DEF b
  <1>16. TableOK(c, size, was)
    BY <1>2, <1>10, <1>11, <1>13, <1>14, <1>15, TableFrame
  <1>17. q[H].tail \in Nat
    BY <1>4, TableFacts
  <1>18. TableTx(q, v, used \cup {o}, was)
    <2>1. c[H].tail <= q[H].tail
      BY <1>2, <1>4, <1>7, <1>8, <1>11, <1>17
    <2>2. QED  BY <1>7, <2>1 DEF TableTx, c
  <1>19. QED  BY <1>1, <1>4, <1>5, <1>16, <1>18 DEF Takes, v, b, c, L

\* Delayed frees are put in front of the earlier ones.
LEMMA FreesConcat ==
  ASSUME NEW S, NEW s \in Seq(S), NEW t \in Seq(S), IsInjective(s), IsInjective(t), Range(s) \cap Range(t) = {}
  PROVE  s \o t \in Seq(S) /\ IsInjective(s \o t) /\ Range(s \o t) = Range(s) \cup Range(t)
  <1> DEFINE c == s \o t
             m == Len(s)
             n == Len(t)
  <1>1. /\ m \in Nat /\ DOMAIN s = 1 .. m /\ \A i \in 1 .. m : s[i] \in Range(s)
        /\ n \in Nat /\ DOMAIN t = 1 .. n /\ \A i \in 1 .. n : t[i] \in Range(t)
    BY SeqFacts
  <1>2. /\ c \in Seq(S) /\ Len(c) = m + n
        /\ \A i \in 1 .. m + n : c[i] = IF i <= m THEN s[i] ELSE t[i - m]
    BY ConcatProperties
  <1> HIDE DEF c, m, n
  <1>3. DOMAIN c = 1 .. m + n
    BY <1>2, SeqFacts
  <1>4. \A i \in 1 .. m : c[i] = s[i] /\ i \in 1 .. m + n
    BY <1>1, <1>2
  <1>5. \A i \in m + 1 .. m + n : c[i] = t[i - m] /\ i - m \in 1 .. n /\ i \in 1 .. m + n
    BY <1>1, <1>2
  <1>6. \A i \in 1 .. m + n : i \in 1 .. m \/ i \in m + 1 .. m + n
    BY <1>1
  <1>7. IsInjective(c)
    <2>1. SUFFICES ASSUME NEW i \in 1 .. m + n, NEW j \in 1 .. m + n, c[i] = c[j] PROVE i = j
      BY <1>3 DEF IsInjective
    <2>2. CASE i \in 1 .. m /\ j \in 1 .. m
      BY <1>1, <1>4, <2>1, <2>2 DEF IsInjective
    <2>3. CASE i \in m + 1 .. m + n /\ j \in m + 1 .. m + n
      <3>1. t[i - m] = t[j - m] /\ i - m \in 1 .. n /\ j - m \in 1 .. n
        BY <1>5, <2>1, <2>3
      <3>2. i - m = j - m
        BY <1>1, <3>1 DEF IsInjective
      <3>3. QED  BY <1>1, <3>2
    <2>4. CASE i \in 1 .. m /\ j \in m + 1 .. m + n
      <3>1. c[i] \in Range(s) /\ c[j] \in Range(t)
        BY <1>1, <1>4, <1>5, <2>4
      <3>2. QED  BY <2>1, <3>1
    <2>5. CASE j \in 1 .. m /\ i \in m + 1 .. m + n
      <3>1. c[j] \in Range(s) /\ c[i] \in Range(t)
        BY <1>1, <1>4, <1>5, <2>5
      <3>2. QED  BY <2>1, <3>1
    <2>6. QED  BY <1>6, <2>2, <2>3, <2>4, <2>5
  <1>8. Range(c) = Range(s) \cup Range(t)
    <2>1. Range(c) \subseteq Range(s) \cup Range(t)
      <3>1. \A i \in 1 .. m + n : c[i] \in Range(s) \cup Range(t)
        BY <1>1, <1>4, <1>5, <1>6
      <3>2. QED  BY <1>3, <3>1 DEF Range
    <2>2. ASSUME NEW x \in Range(s) PROVE x \in Range(c)
      <3>1. PICK i \in 1 .. m : s[i] = x
        BY <1>1 DEF Range
      <3>2. QED  BY <1>3, <1>4, <3>1 DEF Range
    <2>3. ASSUME NEW x \in Range(t) PROVE x \in Range(c)
      <3>1. PICK i \in 1 .. n : t[i] = x
        BY <1>1 DEF Range
      <3>2. m + i \in m + 1 .. m + n /\ (m + i) - m = i
        BY <1>1
      <3>3. c[m + i] = x
        BY <1>5, <3>1, <3>2
      <3>4. m + i \in DOMAIN c
        BY <1>3, <1>5, <3>2
      <3>5. QED  BY <3>3, <3>4 DEF Range
    <2>4. QED  BY <2>1, <2>2, <2>3
  <1>9. QED  BY <1>2, <1>7, <1>8 DEF c

\* The client looks at where its iterator stands now: if what it wants to see
\* was there or behind, the rest is coming.
LEMMA LookFacts ==
  ASSUME NEW ix, Shape(ix), NEW j, Standing(ix, j), ~j.vacant, ~j.dead,
         NEW w, DOMAIN w = {"want", "seen", "twice"}, ~w.twice, w.want \subseteq Dirs \X EPool,
         \A x \in w.seen : ~(j.pos # Null /\ Ahead(ix, j, x[1], x[2])),
         \A x \in w.want : x \in w.seen \/ (j.pos # Null /\ Ahead(ix, j, x[1], x[2]))
  PROVE  LET v == Look(w, j)
         IN /\ DOMAIN v = {"want", "seen", "twice"} /\ ~v.twice /\ WatchOK(v, ix, j)
            /\ \A x \in v.seen : x \in w.seen \/ (j.pos # Null /\ x[2] = j.pos)
  <1> DEFINE v == Look(w, j)
             p == <<j.dir, j.pos>>
  <1>1. CASE j.pos = Null
    <2>1. v = w
      BY <1>1 DEF Look
    <2>2. \A c, a : ~Coming(ix, j, c, a)
      BY <1>1 DEF Coming
    <2>3. WatchOK(w, ix, j)
      BY <1>1, <2>2 DEF WatchOK
    <2>4. QED  BY <2>1, <2>3
  <1>2. CASE j.pos # Null
    <2>1. v = [w EXCEPT !.seen = @ \cup {p}, !.twice = @ \/ p \in w.seen]
      BY <1>2 DEF Look
    <2>2. p[1] = j.dir /\ p[2] = j.pos
      OBVIOUS
    <2> HIDE DEF v, p
    <2>3. p \notin w.seen
      BY <1>2, <2>2 DEF Ahead
    <2>4. DOMAIN v = {"want", "seen", "twice"} /\ v.want = w.want /\ v.seen = w.seen \cup {p} /\ ~v.twice
      BY <2>1, <2>3
    <2>5. \A c, a : Coming(ix, j, c, a) <=> Behind(ix, j, c, a)
      BY <1>2 DEF Coming
    <2>6. \A x \in v.seen : ~Coming(ix, j, x[1], x[2])
      <3>1. ~Behind(ix, j, p[1], p[2])
        BY <1>2, <2>2, NotBehindItself
      <3>2. \A x \in w.seen : ~Behind(ix, j, x[1], x[2])
        BY <1>2 DEF Ahead
      <3>3. QED  BY <2>4, <2>5, <3>1, <3>2
    <2>7. ASSUME NEW x \in v.want PROVE x \in v.seen \/ Coming(ix, j, x[1], x[2])
      <3>1. x \in w.want /\ x \in Dirs \X EPool
        BY <2>4
      <3>2. x = <<x[1], x[2]>>
        BY <3>1
      <3>3. CASE x[1] = j.dir /\ x[2] = j.pos
        BY <2>4, <3>2, <3>3 DEF p
      <3>4. CASE ~(x[1] = j.dir /\ x[2] = j.pos)
        BY <2>4, <2>5, <3>1, <3>4 DEF Ahead
      <3>5. QED  BY <3>3, <3>4
    <2>8. WatchOK(v, ix, j)
      BY <2>4, <2>6, <2>7 DEF WatchOK
    <2>9. QED  BY <1>2, <2>2, <2>4, <2>8 DEF v
  <1>3. QED  BY <1>1, <1>2

\* next(): what was coming is where the iterator stands, or behind.
LEMMA StepFacts ==
  ASSUME NEW ix, Shape(ix), NEW i, Standing(ix, i), ~i.dead, More(i)
  PROVE  LET j == next(i, ix[i.node])
         IN /\ Standing(ix, j) /\ ~j.vacant
            /\ ~j.dead => \A c, a : Coming(ix, i, c, a) <=> j.pos # Null /\ Ahead(ix, j, c, a)
  <1> DEFINE j == next(i, ix[i.node])
  <1>1. CASE i.vacant
    <2>1. j = [i EXCEPT !.vacant = FALSE]
      BY <1>1 DEF next
    <2>2. /\ Standing(ix, j) /\ ~j.vacant /\ j.pos = i.pos
          /\ \A c, a : Ahead(ix, j, c, a) <=> Ahead(ix, i, c, a)
      BY <2>1, OccupiedFacts
    <2> HIDE DEF j
    <2>3. \A c, a : Coming(ix, i, c, a) <=> j.pos # Null /\ Ahead(ix, j, c, a)
      BY <1>1, <2>2 DEF Coming
    <2>4. QED  BY <2>2, <2>3 DEF j
  <1>2. CASE ~i.vacant
    <2>1. i.pos # Null
      BY <1>2 DEF More
    <2>2. /\ Standing(ix, j) /\ ~j.vacant
          /\ ~j.dead /\ j.pos = Null => \A d, e : ~Behind(ix, i, d, e)
          /\ j.pos # Null => \A d, e : Behind(ix, i, d, e) <=> Ahead(ix, j, d, e)
      BY <1>2, <2>1, NextFacts
    <2> HIDE DEF j
    <2>3. ~j.dead => \A c, a : Coming(ix, i, c, a) <=> j.pos # Null /\ Ahead(ix, j, c, a)
      BY <1>2, <2>1, <2>2 DEF Coming
    <2>4. QED  BY <2>2, <2>3 DEF j
  <1>3. QED  BY <1>1, <1>2

-----------------------------------------------------------------------------
(***************************************************************************)
(* The initial state.                                                      *)
(***************************************************************************)
LEMMA NewTable ==
  ASSUME NEW q, NEW size \in Nat, H \in DOMAIN q, \A o \in 1 .. size : W(o) \in DOMAIN q,
         q[H] = NT!NewHdr, \A o \in 1 .. size : q[W(o)] = NT!Data(Null)
  PROVE  TableOK(q, size, {})
  <1>1. q[H] = [tail |-> 1, free |-> Null, num |-> 0] /\ Null = 0
    BY GraphBounds DEF NT!NewHdr
  <1>2. Known(q) = {}
    BY <1>1 DEF Known
  <1>3. \A o \in 1 .. size : q[W(o)] \in [to : Nat, free_bit : BOOLEAN]
    <2>1. NT!Data(Null) \in [to : Nat, free_bit : BOOLEAN]
      BY <1>1 DEF NT!Data
    <2>2. QED  BY <2>1
  <1>4. Chain(q, <<>>, Known(q) \ {})
    <2>1. <<>> \in Seq(Known(q) \ {}) /\ IsInjective(<<>>) /\ Range(<<>>) = Known(q) \ {}
      BY <1>2 DEF IsInjective, Range
    <2>2. FreeList(q, <<>>)
      BY <1>1 DEF FreeList, H
    <2>3. QED  BY <2>1, <2>2 DEF Chain
  <1>5. Cardinality({}) = 0
    BY FS_EmptySet
  <1>6. Matches(q, {})
    BY <1>1, <1>2, <1>4, <1>5 DEF Matches
  <1>7. q[H] \in [tail : 1 .. size + 1, free : Nat, num : Int]
    BY <1>1
  <1>8. QED  BY <1>3, <1>6, <1>7, TableIntro

\* The indices of a new node are empty and well formed.
LEMMA NoEdgesFacts ==
  /\ NoEdges \in [Dirs -> {x \in Seq(Bucket) : WellFormed(x)}]
  /\ \A d \in Dirs : NoEdges[d] = <<>>
  /\ \A t : Range(Edges(<<>>, t)) = {}
  <1>1. \A d \in Dirs : NoEdges[d] = <<>>
    BY DEF NoEdges, Dirs
  <1>2. WellFormed(<<>>)
    <2>1. Keys(<<>>) = <<>>
      BY DEF Keys
    <2>2. IsInjective(<<>>) /\ <<>> \in Seq(Bucket)
      BY DEF IsInjective
    <2>3. QED  BY <2>1, <2>2 DEF WellFormed
  <1>3. <<>> \in {x \in Seq(Bucket) : WellFormed(x)}
    BY <1>2
  <1>4. NoEdges = [d \in Dirs |-> <<>>]
    BY DEF NoEdges, Dirs
  <1>5. NoEdges \in [Dirs -> {x \in Seq(Bucket) : WellFormed(x)}]
    <2> DEFINE B == {x \in Seq(Bucket) : WellFormed(x)}
    <2>1. <<>> \in B
      BY <1>3
    <2> HIDE DEF B
    <2>2. NoEdges \in [Dirs -> B]
      BY <1>4, <2>1
    <2>3. QED  BY <2>2 DEF B
  <1>6. ASSUME NEW t PROVE Range(Edges(<<>>, t)) = {}
    <2>1. Range(Keys(<<>>)) = {}
      BY <1>2, KeysFacts
    <2>2. QED  BY <1>2, <2>1, EdgesFacts
  <1>7. QED  BY <1>1, <1>5, <1>6

\* Nothing to lose.
LEMMA LostEmpty ==
  ASSUME NEW size
  PROVE  LostOK(Empty, size)
  <1>1. DOMAIN Empty = {}
    BY DEF Empty
  <1>2. QED  BY <1>1 DEF LostOK

\* What is written without being flushed may be lost.
LEMMA LostLog ==
  ASSUME NEW was, NEW size, LostOK(was, size), NEW pm, NEW L,
         \A o \in 1 .. size : pm[W(o)] \in [to : Nat, free_bit : BOOLEAN],
         \A l \in L : \E o \in 1 .. size : l = W(o) \/ l = Rest(o)
  PROVE  LostOK(Unflushed(was, pm, L), size)
  <1> DEFINE v == log(was, pm, L)
  <1>1. DOMAIN v = DOMAIN was \cup L /\ \A l \in DOMAIN v : v[l] = IF l \in DOMAIN was THEN was[l] ELSE pm[l]
    BY DEF log
  <1> HIDE DEF v
  <1>2. LostOK(v, size)
    <2>1. SUFFICES ASSUME NEW l \in DOMAIN v
                   PROVE  \E o \in 1 .. size :
                            (l = W(o) /\ v[l] \in [to : Nat, free_bit : BOOLEAN]) \/ l = Rest(o)
      BY DEF LostOK
    <2>2. CASE l \in DOMAIN was
      BY <1>1, <2>2 DEF LostOK
    <2>3. CASE l \notin DOMAIN was
      <3>1. PICK o \in 1 .. size : l = W(o) \/ l = Rest(o)
        BY <1>1, <2>3
      <3>2. v[l] = pm[l] /\ pm[W(o)] \in [to : Nat, free_bit : BOOLEAN]
        BY <1>1, <2>3
      <3>3. QED  BY <3>1, <3>2
    <2>4. QED  BY <2>2, <2>3
  <1>3. QED  BY <1>2 DEF Unflushed, v

\* A new graph satisfies the invariant.
LEMMA InitInv ==
  ASSUME Init
  PROVE  GraphInv
  <1>1. NumNodes \in Nat /\ NumEdges \in Nat /\ NPool = 1 .. NumNodes /\ EPool = 1 .. NumEdges
    BY Pools
  <1>2. /\ undo = [n |-> Empty, e |-> Empty, i |-> Empty] /\ lost = [n |-> Empty, e |-> Empty]
        /\ nfrees = <<>> /\ efrees = <<>> /\ it = NoIterator /\ watch = NoWatch
        /\ graph = [nodes |-> {}, edges |-> Empty] /\ saved = graph /\ pc = "idle"
    BY DEF Init
  <1>3. TableOK(ntable, NumNodes, {})
    <2>1. ntable = [l \in {H} \cup {W(n) : n \in 1 .. NumNodes} |-> IF l = H THEN NT!NewHdr ELSE NT!Data(Null)]
      BY <1>1 DEF Init, H, W, NPool
    <2>2. H \in DOMAIN ntable /\ ntable[H] = NT!NewHdr
      BY <2>1
    <2>3. \A n \in 1 .. NumNodes : W(n) \in DOMAIN ntable /\ ntable[W(n)] = NT!Data(Null)
      BY <2>1, Locations
    <2>4. QED  BY <1>1, <2>2, <2>3, NewTable
  <1>4. TableOK(etable, NumEdges, {}) /\ \A e \in EPool : Rest(e) \in DOMAIN etable
    <2> DEFINE D == {H} \cup {W(e) : e \in 1 .. NumEdges} \cup {Rest(e) : e \in 1 .. NumEdges}
    <2>1. /\ ET!Hdr = H /\ ET!NewHdr = NT!NewHdr /\ \A o : ET!Word(o) = W(o) /\ ET!Data(o) = NT!Data(o)
          /\ ET!Pool = 1 .. NumEdges
      BY <1>1, SameOperators DEF EPool, ET!NewHdr, NT!NewHdr
    <2>2. etable = [l \in D |-> IF l = H THEN NT!NewHdr
                                ELSE IF l[1] = "word" THEN NT!Data(Null) ELSE [dest |-> Null, tag |-> Null]]
      BY <2>1 DEF Init
    <2>3. H \in DOMAIN etable /\ etable[H] = NT!NewHdr
      BY <2>2
    <2>4. \A e \in 1 .. NumEdges : W(e) \in DOMAIN etable /\ etable[W(e)] = NT!Data(Null)
      BY <2>2, Locations
    <2>5. \A e \in EPool : Rest(e) \in DOMAIN etable
      BY <1>1, <2>2
    <2>6. QED  BY <1>1, <2>3, <2>4, <2>5, NewTable
  <1>5. DOMAIN Empty = {}
    BY DEF Empty
  <1>6. IndexOK(idx, Empty, {})
    <2>1. idx = [n \in NPool |-> NoEdges]
      BY DEF Init, NPool
    <2>2. Shape(idx)
      <3> DEFINE B == [Dirs -> {x \in Seq(Bucket) : WellFormed(x)}]
      <3>1. NoEdges \in B
        BY NoEdgesFacts
      <3> HIDE DEF B
      <3>2. idx \in [NPool -> B]
        BY <2>1, <3>1
      <3>3. QED  BY <3>2 DEF Shape, B
    <2>3. \A n \in NPool, d \in Dirs : \A t, e : e \notin Listed(idx, n, d, t)
      BY <2>1, NoEdgesFacts DEF Listed
    <2>4. QED  BY <2>2, <2>3 DEF IndexOK
  <1>7. Stored(ntable, etable, idx, graph, graph.nodes, DOMAIN graph.edges)
    <2>1. DOMAIN graph = {"nodes", "edges"} /\ graph.nodes = {} /\ graph.edges = Empty
      BY <1>2
    <2>2. GraphOK(graph) /\ NodesOK(ntable, graph.nodes) /\ EdgesOK(etable, graph.edges)
      BY <1>5, <2>1 DEF GraphOK, NodesOK, EdgesOK
    <2>3. QED  BY <1>3, <1>4, <1>5, <1>6, <2>1, <2>2 DEF Stored
  <1>8. Recoverable
    <2>1. undo.n = Empty /\ undo.e = Empty /\ undo.i = Empty
      BY <1>2
    <2>2. QED  BY <1>2, <1>4, <1>7, <2>1, StoredEmpty DEF Recoverable
  <1>9. Memory
    <2>1. DOMAIN undo = {"n", "e", "i"} /\ DOMAIN watch = {"want", "seen", "twice"} /\ ~watch.twice
      BY <1>2 DEF NoWatch
    <2>2. DOMAIN lost = {"n", "e"} /\ LostOK(lost.n, NumNodes) /\ LostOK(lost.e, NumEdges)
      BY <1>2, LostEmpty
    <2>3. QED  BY <1>2, <1>4, <2>1, <2>2 DEF Memory, States
  <1>10. Idle
    BY <1>2, <1>7 DEF Idle
  <1>11. QED  BY <1>2, <1>8, <1>9, <1>10 DEF GraphInv

-----------------------------------------------------------------------------
(***************************************************************************)
(* Transactions begin and end.                                             *)
(***************************************************************************)
\* The transaction is over, and the tables and indices hold the saved graph.
LEMMA DoneFacts ==
  ASSUME Done, DOMAIN lost' = {"n", "e"}, LostOK(lost'.n, NumNodes), LostOK(lost'.e, NumEdges),
         graph' = saved', \A e \in EPool : Rest(e) \in DOMAIN etable',
         Stored(ntable', etable', idx', saved', saved'.nodes, DOMAIN saved'.edges)
  PROVE  GraphInv'
  <1>1. /\ undo' = [n |-> Empty, e |-> Empty, i |-> Empty] /\ nfrees' = <<>> /\ efrees' = <<>>
        /\ it' = NoIterator /\ watch' = NoWatch /\ pc' = "idle"
    BY DEF Done
  <1>2. Recoverable'
    <2>1. undo'.n = Empty /\ undo'.e = Empty /\ undo'.i = Empty
      BY <1>1
    <2>2. QED  BY <2>1, StoredEmpty DEF Recoverable
  <1>3. Memory'
    <2>1. DOMAIN undo' = {"n", "e", "i"} /\ DOMAIN watch' = {"want", "seen", "twice"} /\ ~watch'.twice
      BY <1>1 DEF NoWatch
    <2>2. QED  BY <1>1, <2>1 DEF Memory, States
  <1>4. Idle'
    BY <1>1 DEF Idle
  <1>5. QED  BY <1>1, <1>2, <1>3, <1>4 DEF GraphInv

\* Unless it came to harm, a transaction that is not over can be rolled back.
LEMMA StillRecoverable ==
  ASSUME GraphInv, LinkedNew
  PROVE  Memory /\ Recoverable
  BY DEF GraphInv

\* An abort returns to the saved graph.
LEMMA AbortInv ==
  ASSUME GraphInv, abort, ~harmed'
  PROVE  GraphInv'
  <1>1. LinkedNew
    BY DEF abort, LinkedNew
  <1>2. Memory /\ Recoverable
    BY <1>1, StillRecoverable
  <1>3. /\ Done /\ lost' = lost /\ graph' = saved /\ saved' = saved
        /\ ntable' = rollback(undo.n, ntable) /\ etable' = rollback(undo.e, etable) /\ idx' = rollback(undo.i, idx)
    BY DEF abort
  <1>4. DOMAIN etable' = DOMAIN etable
    BY <1>3, RollbackFacts
  <1>5. \A e \in EPool : Rest(e) \in DOMAIN etable'
    BY <1>2, <1>4 DEF Memory
  <1>6. Stored(ntable', etable', idx', saved', saved'.nodes, DOMAIN saved'.edges)
    BY <1>2, <1>3 DEF Recoverable
  <1>7. DOMAIN lost' = {"n", "e"} /\ LostOK(lost'.n, NumNodes) /\ LostOK(lost'.e, NumEdges)
    BY <1>2, <1>3 DEF Memory
  <1>8. QED  BY <1>3, <1>5, <1>6, <1>7, DoneFacts

\* Two memories of a table that agree on the header and below the tail.
Alike(p, q, size) ==
  /\ DOMAIN q = DOMAIN p /\ q[H] = p[H]
  /\ \A o \in 1 .. size :
       /\ q[W(o)] \in [to : Nat, free_bit : BOOLEAN]
       /\ o < p[H].tail => q[W(o)] = p[W(o)] /\ (Rest(o) \in DOMAIN p => q[Rest(o)] = p[Rest(o)])

\* What is beyond the tail of the tables does not matter.
LEMMA AlikeStored ==
  ASSUME NEW pn, NEW pe, NEW ix, NEW g, Stored(pn, pe, ix, g, g.nodes, DOMAIN g.edges),
         \A e \in EPool : Rest(e) \in DOMAIN pe,
         NEW qn, Alike(pn, qn, NumNodes), NEW qe, Alike(pe, qe, NumEdges)
  PROVE  Stored(qn, qe, ix, g, g.nodes, DOMAIN g.edges)
  <1>1. NumNodes \in Nat /\ NumEdges \in Nat /\ NPool = 1 .. NumNodes /\ EPool = 1 .. NumEdges
    BY Pools
  <1>2. /\ GraphOK(g) /\ TableOK(pn, NumNodes, g.nodes) /\ NodesOK(pn, g.nodes)
        /\ TableOK(pe, NumEdges, DOMAIN g.edges) /\ EdgesOK(pe, g.edges) /\ IndexOK(ix, g.edges, DOMAIN g.edges)
    BY DEF Stored
  <1>3. ASSUME NEW p, NEW q, NEW size \in Nat, NEW used, TableOK(p, size, used), Alike(p, q, size)
        PROVE  TableOK(q, size, used) /\ \A o \in used : o \in 1 .. size /\ o < p[H].tail
    <2>1. /\ H \in DOMAIN p /\ \A o \in 1 .. size : W(o) \in DOMAIN p
          /\ p[H].tail \in Nat /\ Known(p) \subseteq 1 .. size /\ Matches(p, used)
      BY <1>3, TableFacts
    <2>2. TableOK(q, size, used)
      BY <1>3, <2>1, TableFrame DEF Alike
    <2>3. used \subseteq Known(p) /\ \A o \in Known(p) : o < p[H].tail
      BY <2>1 DEF Matches, Known
    <2>4. QED  BY <2>1, <2>2, <2>3
  <1>4. /\ TableOK(qn, NumNodes, g.nodes) /\ \A n \in g.nodes : n \in 1 .. NumNodes /\ n < pn[H].tail
        /\ TableOK(qe, NumEdges, DOMAIN g.edges)
        /\ \A e \in DOMAIN g.edges : e \in 1 .. NumEdges /\ e < pe[H].tail
    BY <1>1, <1>2, <1>3
  <1>5. NodesOK(qn, g.nodes)
    BY <1>2, <1>4 DEF NodesOK, Alike
  <1>6. EdgesOK(qe, g.edges)
    <2>1. ASSUME NEW e \in DOMAIN g.edges PROVE qe[ET!Word(e)] = pe[ET!Word(e)] /\ qe[Rest(e)] = pe[Rest(e)]
      <3>1. qe[W(e)] = pe[W(e)] /\ qe[Rest(e)] = pe[Rest(e)]
        BY <1>1, <1>4 DEF Alike
      <3>2. QED  BY <3>1, SameOperators
    <2>2. QED  BY <1>2, <2>1 DEF EdgesOK
  <1>7. QED  BY <1>2, <1>4, <1>5, <1>6 DEF Stored

\* What a power failure loses, the journal brings back, or it is beyond the tail.
LEMMA TornFacts ==
  ASSUME NEW pm, NEW u, NEW size \in Nat, NEW used, TableOK(rollback(u, pm), size, used),
         NEW was, LostOK(was, size), NEW S \in SUBSET DOMAIN was, ~Unrestored(pm, u, S)
  PROVE  Alike(rollback(u, pm), rollback(u, Torn(pm, was, S)), size)
  <1> DEFINE p == rollback(u, pm)
             m == Torn(pm, was, S)
             q == rollback(u, m)
  <1>1. DOMAIN p = DOMAIN pm /\ \A l \in DOMAIN pm : p[l] = IF l \in DOMAIN u THEN u[l] ELSE pm[l]
    BY RollbackFacts
  <1>2. DOMAIN m = DOMAIN pm /\ \A l \in DOMAIN pm : m[l] = IF l \in S THEN was[l] ELSE pm[l]
    <2> DEFINE v == [l \in S |-> was[l]]
    <2>1. DOMAIN v = S /\ \A l \in S : v[l] = was[l]
      OBVIOUS
    <2> HIDE DEF v
    <2>2. m = rollback(v, pm)
      BY DEF Torn, v
    <2>3. QED  BY <2>1, <2>2, RollbackFacts
  <1>3. DOMAIN q = DOMAIN m /\ \A l \in DOMAIN m : q[l] = IF l \in DOMAIN u THEN u[l] ELSE m[l]
    BY RollbackFacts
  <1>4. ASSUME NEW l \in S PROVE l \in DOMAIN u \/ ~(l[2] < p[H].tail)
    BY DEF Unrestored, H
  <1>5. /\ TableOK(p, size, used) /\ H \in DOMAIN p
        /\ \A o \in 1 .. size : W(o) \in DOMAIN p /\ p[W(o)] \in [to : Nat, free_bit : BOOLEAN]
    BY TableFacts DEF TableOK
  <1> HIDE DEF p, q, m
  <1>6. H \notin S
    BY Locations DEF LostOK
  <1>7. ASSUME NEW o \in 1 .. size, W(o) \in S PROVE was[W(o)] \in [to : Nat, free_bit : BOOLEAN]
    <2>1. PICK x \in 1 .. size : \/ W(o) = W(x) /\ was[W(o)] \in [to : Nat, free_bit : BOOLEAN]
                                 \/ W(o) = Rest(x)
      BY <1>7 DEF LostOK
    <2>2. QED  BY <2>1, Locations
  <1>8. ASSUME NEW l \in DOMAIN pm, l \notin S \/ l \in DOMAIN u PROVE q[l] = p[l]
    BY <1>1, <1>2, <1>3, <1>8
  <1>9. ASSUME NEW o \in 1 .. size PROVE q[W(o)] \in [to : Nat, free_bit : BOOLEAN]
    <2>1. W(o) \in DOMAIN pm
      BY <1>1, <1>5
    <2>2. CASE W(o) \in S /\ W(o) \notin DOMAIN u
      <3>1. q[W(o)] = was[W(o)]
        BY <1>2, <1>3, <2>1, <2>2
      <3>2. QED  BY <1>7, <2>2, <3>1
    <2>3. CASE ~(W(o) \in S /\ W(o) \notin DOMAIN u)
      BY <1>5, <1>8, <2>1, <2>3
    <2>4. QED  BY <2>2, <2>3
  <1>10. ASSUME NEW o \in 1 .. size, o < p[H].tail
         PROVE  q[W(o)] = p[W(o)] /\ (Rest(o) \in DOMAIN p => q[Rest(o)] = p[Rest(o)])
    <2>1. W(o)[2] = o /\ Rest(o)[2] = o
      BY Locations
    <2>2. (W(o) \in S => W(o) \in DOMAIN u) /\ (Rest(o) \in S => Rest(o) \in DOMAIN u)
      BY <1>4, <1>10, <2>1
    <2>3. QED  BY <1>1, <1>5, <1>8, <2>2
  <1>11. q[H] = p[H] /\ DOMAIN q = DOMAIN p
    BY <1>1, <1>2, <1>3, <1>5, <1>6, <1>8
  <1>12. Alike(p, q, size)
    BY <1>9, <1>10, <1>11 DEF Alike
  <1>13. QED  BY <1>12 DEF p, q, m

\* Recovery after a failure returns to the saved graph.
LEMMA RestartInv ==
  ASSUME GraphInv, restart, ~harmed'
  PROVE  GraphInv'
  <1>1. PICK n \in SUBSET DOMAIN lost.n, e \in SUBSET DOMAIN lost.e :
          /\ ntable' = rollback(undo.n, Torn(ntable, lost.n, n))
          /\ etable' = rollback(undo.e, Torn(etable, lost.e, e))
          /\ ~Unrestored(ntable, undo.n, Linked(nfrees) \cup n)
          /\ ~Unrestored(etable, undo.e, Linked(efrees) \cup e)
    BY DEF restart
  <1>2. /\ ~Unrestored(ntable, undo.n, Linked(nfrees)) /\ ~Unrestored(ntable, undo.n, n)
        /\ ~Unrestored(etable, undo.e, Linked(efrees)) /\ ~Unrestored(etable, undo.e, e)
    BY <1>1 DEF Unrestored
  <1>3. Memory /\ Recoverable
    BY <1>2, StillRecoverable DEF LinkedNew
  <1>4. /\ Done /\ lost' = [n |-> Empty, e |-> Empty] /\ graph' = saved /\ saved' = saved
        /\ idx' = rollback(undo.i, idx)
    BY DEF restart
  <1>5. /\ TableOK(rollback(undo.n, ntable), NumNodes, saved.nodes)
        /\ TableOK(rollback(undo.e, etable), NumEdges, DOMAIN saved.edges)
        /\ NumNodes \in Nat /\ NumEdges \in Nat
    BY <1>3, Pools DEF Recoverable, Stored
  <1>6. LostOK(lost.n, NumNodes) /\ LostOK(lost.e, NumEdges) /\ \A x \in EPool : Rest(x) \in DOMAIN etable
    BY <1>3 DEF Memory
  <1>7. Alike(rollback(undo.n, ntable), ntable', NumNodes)
    BY <1>1, <1>2, <1>5, <1>6, TornFacts
  <1>8. Alike(rollback(undo.e, etable), etable', NumEdges)
    BY <1>1, <1>2, <1>5, <1>6, TornFacts
  <1>9. \A x \in EPool : Rest(x) \in DOMAIN rollback(undo.e, etable) /\ Rest(x) \in DOMAIN etable'
    BY <1>6, <1>8, RollbackFacts DEF Alike
  <1>10. Stored(ntable', etable', idx', saved', saved'.nodes, DOMAIN saved'.edges)
    BY <1>3, <1>4, <1>7, <1>8, <1>9, AlikeStored DEF Recoverable
  <1>11. DOMAIN lost' = {"n", "e"} /\ LostOK(lost'.n, NumNodes) /\ LostOK(lost'.e, NumEdges)
    BY <1>4, LostEmpty
  <1>12. QED  BY <1>4, <1>9, <1>10, <1>11, DoneFacts

\* The end of a commit makes the graph the saved one.
LEMMA CommitInv ==
  ASSUME GraphInv, commit
  PROVE  GraphInv'
  <1>1. /\ pc = "commit" /\ Done /\ saved' = graph /\ graph' = graph
        /\ ntable' = ntable /\ etable' = etable /\ idx' = idx
        /\ lost' = [n |-> Kept(lost.n, undo.n), e |-> Kept(lost.e, undo.e)]
    BY DEF commit, dvars
  <1>2. Memory /\ Committing
    BY <1>1 DEF GraphInv
  <1>3. DOMAIN lost' = {"n", "e"} /\ LostOK(lost'.n, NumNodes) /\ LostOK(lost'.e, NumEdges)
    <2>1. ASSUME NEW was, NEW u, NEW size, LostOK(was, size) PROVE LostOK(Kept(was, u), size)
      <3> DEFINE v == Kept(was, u)
      <3>1. DOMAIN v \subseteq DOMAIN was /\ \A l \in DOMAIN v : v[l] = was[l]
        BY DEF Kept
      <3> HIDE DEF v
      <3>2. LostOK(v, size)
        BY <2>1, <3>1 DEF LostOK
      <3>3. QED  BY <3>2 DEF v
    <2>2. LostOK(lost.n, NumNodes) /\ LostOK(lost.e, NumEdges)
      BY <1>2 DEF Memory
    <2>3. QED  BY <1>1, <2>1, <2>2
  <1>4. \A e \in EPool : Rest(e) \in DOMAIN etable'
    BY <1>1, <1>2 DEF Memory
  <1>5. Stored(ntable', etable', idx', saved', saved'.nodes, DOMAIN saved'.edges)
    BY <1>1, <1>2 DEF Committing
  <1>6. QED  BY <1>1, <1>3, <1>4, <1>5, DoneFacts

\* A transaction starts from the saved graph.
LEMMA BeginInv ==
  ASSUME GraphInv, begin
  PROVE  GraphInv'
  <1>1. /\ pc = "idle" /\ pc' = "run" /\ ntable' = ntable /\ etable' = etable /\ idx' = idx /\ undo' = undo
        /\ lost' = lost /\ nfrees' = nfrees /\ efrees' = efrees /\ it' = it /\ watch' = watch
        /\ graph' = graph /\ saved' = saved
    BY DEF begin, dvars
  <1>2. Memory /\ Recoverable /\ Idle
    BY <1>1 DEF GraphInv
  <1>3. Memory'
    BY <1>1, <1>2 DEF Memory, States
  <1>4. Recoverable'
    BY <1>1, <1>2 DEF Recoverable
  <1>5. /\ nfrees = <<>> /\ efrees = <<>> /\ it = NoIterator /\ watch = NoWatch /\ graph = saved
        /\ undo.n = Empty /\ undo.e = Empty
        /\ Stored(ntable, etable, idx, graph, graph.nodes, DOMAIN graph.edges)
    BY <1>2 DEF Idle
  <1>6. <<>> \in Seq(1 .. NumNodes) /\ <<>> \in Seq(1 .. NumEdges) /\ IsInjective(<<>>) /\ Range(<<>>) = {}
    BY DEF IsInjective, Range
  <1>7. UsedNodes = graph.nodes /\ UsedEdges = DOMAIN graph.edges
    BY <1>5, <1>6 DEF UsedNodes, UsedEdges
  <1>8. TableTx(ntable, undo.n, UsedNodes, saved.nodes) /\ TableTx(etable, undo.e, UsedEdges, DOMAIN saved.edges)
    <2>1. /\ H \in DOMAIN ntable /\ ntable[H].tail \in Nat /\ H \in DOMAIN etable /\ etable[H].tail \in Nat
      BY <1>5, TableFacts, Pools DEF Stored
    <2>2. rollback(undo.n, ntable)[H] = ntable[H] /\ rollback(undo.e, etable)[H] = etable[H]
      BY <1>5, <2>1, RollbackFacts
    <2>3. QED  BY <1>5, <1>7, <2>1, <2>2 DEF TableTx
  <1>9. Standing(idx, it) /\ ~it.dead /\ it.pos = Null
    BY <1>5, Pools DEF NoIterator, Iterator, Standing, Dirs
  <1>10. WatchOK(watch, idx, it) /\ \A x \in watch.seen : x[2] \in UsedEdges
    BY <1>5 DEF NoWatch, WatchOK
  <1>11. Frees(nfrees, NumNodes, graph.nodes) /\ Frees(efrees, NumEdges, DOMAIN graph.edges)
    BY <1>5, <1>6 DEF Frees
  <1>12. Running
    BY <1>5, <1>7, <1>8, <1>9, <1>10, <1>11 DEF Running
  <1>13. Running'
    BY <1>1, <1>12 DEF Running, UsedNodes, UsedEdges
  <1>14. QED  BY <1>1, <1>3, <1>4, <1>13 DEF GraphInv

\* A table whose callback ran, if there is one.
CleanedTable(pm, list) == IF list = <<>> THEN pm ELSE NT!clean_free_list(pm, list).pm

\* After the callback, exactly the live objects are taken.
LEMMA CleanedFacts ==
  ASSUME NEW pm, NEW size \in Nat, NEW live, NEW list, Frees(list, size, live),
         TableOK(pm, size, live \cup Range(list))
  PROVE  LET q == CleanedTable(pm, list)
         IN /\ TableOK(q, size, live) /\ DOMAIN q = DOMAIN pm
            /\ \A o \in 1 .. size : o \in live => q[W(o)] = pm[W(o)]
            /\ \A o \in 1 .. size : o \notin Range(list) => q[W(o)] = pm[W(o)]
            /\ \A o : Rest(o) \in DOMAIN pm => q[Rest(o)] = pm[Rest(o)]
  <1> DEFINE q == CleanedTable(pm, list)
             used == live \cup Range(list)
  <1>1. list \in Seq(1 .. size) /\ IsInjective(list) /\ live \cap Range(list) = {}
    BY DEF Frees
  <1>2. CASE list = <<>>
    <2>1. Range(list) = {}
      BY <1>2 DEF Range
    <2>2. q = pm /\ live \cup Range(list) = live
      BY <1>2, <2>1 DEF CleanedTable
    <2>3. QED  BY <2>2
  <1>3. CASE list # <<>>
    <2>1. used \ Range(list) = live /\ Range(list) \subseteq used
      BY <1>1
    <2>2. q = NT!clean_free_list(pm, list).pm
      BY <1>3 DEF CleanedTable
    <2>3. TableOK(pm, size, used)
      OBVIOUS
    <2> HIDE DEF used, q
    <2>4. /\ TableOK(q, size, used \ Range(list)) /\ DOMAIN q = DOMAIN pm
          /\ \A o \in 1 .. size : o \notin Range(list) => q[W(o)] = pm[W(o)]
          /\ \A o : Rest(o) \in DOMAIN pm => q[Rest(o)] = pm[Rest(o)]
      <3>1. Releases(pm, q, size, used, list)
        BY <1>1, <1>3, <2>1, <2>2, <2>3, CleanFacts
      <3>2. QED  BY <3>1 DEF Releases
    <2>5. QED  BY <1>1, <2>1, <2>4 DEF q
  <1>4. QED  BY <1>2, <1>3

\* If the callback overwrote nothing a rollback needs, the rollback still works.
LEMMA CleanedBack ==
  ASSUME NEW pm, NEW size \in Nat, NEW live, NEW list, Frees(list, size, live),
         TableOK(pm, size, live \cup Range(list)),
         NEW u, NEW used, TableOK(rollback(u, pm), size, used),
         NEW v, v = IF list = <<>> THEN u ELSE log(u, pm, {H}),
         ~Unrestored(CleanedTable(pm, list), v, {W(o) : o \in Range(list)})
  PROVE  Alike(rollback(u, pm), rollback(v, CleanedTable(pm, list)), size)
  <1> DEFINE q == CleanedTable(pm, list)
             p == rollback(u, pm)
             r == rollback(v, q)
  <1>1. /\ TableOK(q, size, live) /\ DOMAIN q = DOMAIN pm
        /\ \A o \in 1 .. size : o \notin Range(list) => q[W(o)] = pm[W(o)]
        /\ \A o : Rest(o) \in DOMAIN pm => q[Rest(o)] = pm[Rest(o)]
    BY CleanedFacts
  <1>2. /\ DOMAIN p = DOMAIN pm /\ \A l \in DOMAIN pm : p[l] = IF l \in DOMAIN u THEN u[l] ELSE pm[l]
        /\ DOMAIN r = DOMAIN q /\ \A l \in DOMAIN q : r[l] = IF l \in DOMAIN v THEN v[l] ELSE q[l]
    BY RollbackFacts
  <1>3. /\ H \in DOMAIN pm
        /\ \A o \in 1 .. size : /\ W(o) \in DOMAIN pm /\ p[W(o)] \in [to : Nat, free_bit : BOOLEAN]
                                /\ q[W(o)] \in [to : Nat, free_bit : BOOLEAN]
    BY <1>1, TableFacts DEF TableOK
  <1>4. CASE list = <<>>
    <2>1. q = pm /\ v = u
      BY <1>4 DEF CleanedTable
    <2> HIDE DEF q
    <2>2. r = p
      BY <2>1
    <2>3. Alike(p, p, size)
      BY <1>2, <1>3 DEF Alike
    <2>4. QED  BY <2>2, <2>3 DEF q
  <1>5. CASE list # <<>>
    <2>1. v = log(u, pm, {H})
      BY <1>5
    <2>2. DOMAIN v = DOMAIN u \cup {H} /\ \A l \in DOMAIN v : v[l] = IF l \in DOMAIN u THEN u[l] ELSE pm[l]
      BY <2>1 DEF log
    <2> HIDE DEF p, q, r
    <2>3. r[H] = p[H]
      BY <1>1, <1>2, <1>3, <2>2
    <2>4. ASSUME NEW o \in Range(list), o < p[H].tail PROVE W(o) \in DOMAIN v
      <3>1. ~(\E l \in {W(x) : x \in Range(list)} \ DOMAIN v : l[2] < r[H].tail)
        BY DEF Unrestored, H, q, r
      <3>2. W(o)[2] = o
        BY Locations
      <3>3. QED  BY <2>3, <2>4, <3>1, <3>2
    <2>5. ASSUME NEW o \in 1 .. size, o < p[H].tail
          PROVE  r[W(o)] = p[W(o)] /\ (Rest(o) \in DOMAIN p => r[Rest(o)] = p[Rest(o)])
      <3>1. W(o) # H /\ Rest(o) # H
        BY Locations
      <3>2. W(o) \in DOMAIN u \/ q[W(o)] = pm[W(o)]
        BY <1>1, <2>2, <2>4, <2>5, <3>1
      <3>3. r[W(o)] = p[W(o)]
        BY <1>1, <1>2, <1>3, <2>2, <3>1, <3>2
      <3>4. ASSUME Rest(o) \in DOMAIN p PROVE r[Rest(o)] = p[Rest(o)]
        BY <1>1, <1>2, <2>2, <3>1, <3>4
      <3>5. QED  BY <3>3, <3>4
    <2>6. ASSUME NEW o \in 1 .. size PROVE r[W(o)] \in [to : Nat, free_bit : BOOLEAN]
      <3>1. W(o) # H
        BY Locations
      <3>2. CASE W(o) \in DOMAIN u
        <4>1. r[W(o)] = p[W(o)]
          BY <1>1, <1>2, <1>3, <2>2, <3>2
        <4>2. QED  BY <1>3, <4>1
      <3>3. CASE W(o) \notin DOMAIN u
        <4>1. r[W(o)] = q[W(o)]
          BY <1>1, <1>2, <1>3, <2>2, <3>1, <3>3
        <4>2. QED  BY <1>3, <4>1
      <3>4. QED  BY <3>2, <3>3
    <2>7. Alike(p, r, size)
      BY <1>1, <1>2, <2>3, <2>5, <2>6 DEF Alike
    <2>8. QED  BY <2>7 DEF p, q, r
  <1>6. QED  BY <1>4, <1>5

\* The callbacks of a commit give back what the transaction freed.
LEMMA FinalizeInv ==
  ASSUME GraphInv, finalize_commit, ~harmed'
  PROVE  GraphInv'
  <1>1. /\ pc = "run" /\ pc' = "commit" /\ idx' = idx /\ graph' = graph /\ watch' = watch
        /\ saved' = saved /\ nfrees' = nfrees /\ efrees' = efrees
        /\ ntable' = CleanedTable(ntable, nfrees)
    BY DEF finalize_commit, CleanedTable
  <1>2. etable' = CleanedTable(etable, efrees)
    <2>1. etable' = IF efrees = <<>> THEN etable ELSE ET!clean_free_list(etable, efrees).pm
      BY DEF finalize_commit
    <2>2. QED  BY <2>1, SameOperators DEF CleanedTable
  <1>3. Memory /\ Running
    BY <1>1 DEF GraphInv
  <1>4. /\ GraphOK(graph) /\ TableOK(ntable, NumNodes, UsedNodes) /\ NodesOK(ntable, graph.nodes)
        /\ TableOK(etable, NumEdges, UsedEdges) /\ EdgesOK(etable, graph.edges)
        /\ IndexOK(idx, graph.edges, DOMAIN graph.edges)
        /\ Frees(nfrees, NumNodes, graph.nodes) /\ Frees(efrees, NumEdges, DOMAIN graph.edges)
    BY <1>3 DEF Running, Stored
  <1>5. NumNodes \in Nat /\ NumEdges \in Nat /\ NPool = 1 .. NumNodes /\ EPool = 1 .. NumEdges
    BY Pools
  <1>6. graph.nodes \subseteq NPool /\ DOMAIN graph.edges \subseteq EPool
    BY <1>4 DEF GraphOK
  <1>7. /\ TableOK(ntable', NumNodes, graph.nodes)
        /\ \A o \in 1 .. NumNodes : o \in graph.nodes => ntable'[W(o)] = ntable[W(o)]
    BY <1>1, <1>4, <1>5, CleanedFacts DEF UsedNodes
  <1>8. /\ TableOK(etable', NumEdges, DOMAIN graph.edges) /\ DOMAIN etable' = DOMAIN etable
        /\ \A o \in 1 .. NumEdges : o \in DOMAIN graph.edges => etable'[W(o)] = etable[W(o)]
        /\ \A o : Rest(o) \in DOMAIN etable => etable'[Rest(o)] = etable[Rest(o)]
    <2>1. TableOK(etable, NumEdges, DOMAIN graph.edges \cup Range(efrees))
      BY <1>4 DEF UsedEdges
    <2> DEFINE live == DOMAIN graph.edges
    <2>2. Frees(efrees, NumEdges, live) /\ TableOK(etable, NumEdges, live \cup Range(efrees))
      BY <1>4, <2>1
    <2> HIDE DEF live
    <2>3. /\ TableOK(CleanedTable(etable, efrees), NumEdges, live)
          /\ DOMAIN CleanedTable(etable, efrees) = DOMAIN etable
          /\ \A o \in 1 .. NumEdges : o \in live => CleanedTable(etable, efrees)[W(o)] = etable[W(o)]
          /\ \A o : Rest(o) \in DOMAIN etable => CleanedTable(etable, efrees)[Rest(o)] = etable[Rest(o)]
      BY <1>5, <2>2, CleanedFacts
    <2>4. QED  BY <1>2, <2>3 DEF live
  <1>9. NodesOK(ntable', graph.nodes)
    BY <1>4, <1>5, <1>6, <1>7 DEF NodesOK
  <1>10. \A e \in EPool : Rest(e) \in DOMAIN etable /\ Rest(e) \in DOMAIN etable'
    BY <1>3, <1>8 DEF Memory
  <1>11. EdgesOK(etable', graph.edges)
    <2>1. ASSUME NEW e \in DOMAIN graph.edges
          PROVE  etable'[ET!Word(e)] = etable[ET!Word(e)] /\ etable'[Rest(e)] = etable[Rest(e)]
      BY <1>5, <1>6, <1>8, <1>10, SameOperators
    <2>2. QED  BY <1>4, <2>1 DEF EdgesOK
  <1>12. Committing'
    BY <1>1, <1>4, <1>7, <1>8, <1>9, <1>11 DEF Committing, Stored
  <1>13. /\ DOMAIN undo' = {"n", "e", "i"} /\ undo'.i = undo.i
         /\ undo'.n = IF nfrees = <<>> THEN undo.n ELSE log(undo.n, ntable, {H})
         /\ undo'.e = IF efrees = <<>> THEN undo.e ELSE log(undo.e, etable, {H})
    <2>1. /\ NT!clean_free_list(ntable, nfrees).logs = {H}
          /\ ET!clean_free_list(etable, efrees).logs = {H}
      <3>1. \A pm, s : NT!clean_free_list(pm, s).logs = {H}
        BY DEF NT!clean_free_list, H
      <3>2. QED  BY <3>1, SameOperators
    <2>2. undo' = [undo EXCEPT
                     !.n = IF nfrees = <<>> THEN @ ELSE log(@, ntable, NT!clean_free_list(ntable, nfrees).logs),
                     !.e = IF efrees = <<>> THEN @ ELSE log(@, etable, ET!clean_free_list(etable, efrees).logs)]
      BY DEF finalize_commit
    <2>3. DOMAIN undo = {"n", "e", "i"}
      BY <1>3 DEF Memory
    <2>4. QED  BY <2>1, <2>2, <2>3
  <1>14. Memory'
    <2>1. LostOK(lost.n, NumNodes) /\ LostOK(lost.e, NumEdges)
      BY <1>3 DEF Memory
    <2>2. lost' = [n |-> Unflushed(lost.n, ntable, {W(o) : o \in Range(nfrees)}),
                   e |-> Unflushed(lost.e, etable, {W(o) : o \in Range(efrees)})]
      BY SameOperators DEF finalize_commit, W
    <2>3. Range(nfrees) \subseteq 1 .. NumNodes /\ Range(efrees) \subseteq 1 .. NumEdges
      BY <1>4, SeqFacts DEF Frees
    <2>4. /\ LostOK(Unflushed(lost.n, ntable, {W(o) : o \in Range(nfrees)}), NumNodes)
          /\ LostOK(Unflushed(lost.e, etable, {W(o) : o \in Range(efrees)}), NumEdges)
      <3>1. /\ \A o \in 1 .. NumNodes : ntable[W(o)] \in [to : Nat, free_bit : BOOLEAN]
            /\ \A o \in 1 .. NumEdges : etable[W(o)] \in [to : Nat, free_bit : BOOLEAN]
        BY <1>4 DEF TableOK
      <3>2. /\ \A l \in {W(o) : o \in Range(nfrees)} : \E x \in 1 .. NumNodes : l = W(x) \/ l = Rest(x)
            /\ \A l \in {W(o) : o \in Range(efrees)} : \E x \in 1 .. NumEdges : l = W(x) \/ l = Rest(x)
        BY <2>3
      <3>3. QED  BY <2>1, <3>1, <3>2, LostLog
    <2>5. DOMAIN lost' = {"n", "e"} /\ LostOK(lost'.n, NumNodes) /\ LostOK(lost'.e, NumEdges)
      BY <2>2, <2>4
    <2>6. QED  BY <1>1, <1>3, <1>10, <1>13, <2>5 DEF Memory, States
  <1>15. ASSUME LinkedNew' PROVE Recoverable'
    <2>1. /\ ~Unrestored(ntable', undo'.n, {W(o) : o \in Range(nfrees)})
          /\ ~Unrestored(etable', undo'.e, {W(o) : o \in Range(efrees)})
      BY <1>1, <1>15 DEF LinkedNew, Linked, W
    <2>2. /\ Stored(rollback(undo.n, ntable), rollback(undo.e, etable), rollback(undo.i, idx),
                    saved, saved.nodes, DOMAIN saved.edges)
          /\ TableOK(rollback(undo.n, ntable), NumNodes, saved.nodes)
          /\ TableOK(rollback(undo.e, etable), NumEdges, DOMAIN saved.edges)
      BY <1>1 DEF GraphInv, Recoverable, Stored
    <2>3. Alike(rollback(undo.n, ntable), rollback(undo'.n, ntable'), NumNodes)
      BY <1>1, <1>4, <1>5, <1>13, <2>1, <2>2, CleanedBack DEF UsedNodes
    <2>4. Alike(rollback(undo.e, etable), rollback(undo'.e, etable'), NumEdges)
      BY <1>2, <1>4, <1>5, <1>13, <2>1, <2>2, CleanedBack DEF UsedEdges
    <2>5. \A e \in EPool : Rest(e) \in DOMAIN rollback(undo.e, etable)
      BY <1>10, RollbackFacts
    <2>6. QED  BY <1>1, <1>13, <2>2, <2>3, <2>4, <2>5, AlikeStored DEF Recoverable
  <1>16. QED  BY <1>1, <1>12, <1>14, <1>15 DEF GraphInv

-----------------------------------------------------------------------------
(***************************************************************************)
(* The iterator.                                                           *)
(***************************************************************************)
LEMMA OpenInv ==
  ASSUME GraphInv, open_iterator
  PROVE  GraphInv'
  <1>1. /\ pc = "run" /\ pc' = "run" /\ ntable' = ntable /\ etable' = etable /\ idx' = idx /\ undo' = undo
        /\ lost' = lost /\ nfrees' = nfrees /\ efrees' = efrees /\ graph' = graph /\ saved' = saved
    BY DEF open_iterator, dvars
  <1>2. PICK n \in graph.nodes, dir \in {"in", "out", "any"}, tag \in Tags \cup {Null} :
          /\ it' = get_edges(n, dir, idx[n], tag)
          /\ watch' = Look([NoWatch EXCEPT !.want = Asked(n, dir, tag)], get_edges(n, dir, idx[n], tag))
    BY DEF open_iterator
  <1>3. Memory /\ Recoverable /\ Running
    BY <1>1 DEF GraphInv
  <1>4. GraphOK(graph) /\ IndexOK(idx, graph.edges, DOMAIN graph.edges) /\ Shape(idx)
    BY <1>3 DEF Running, Stored, IndexOK
  <1>5. n \in NPool
    BY <1>4 DEF GraphOK
  <1> DEFINE i == get_edges(n, dir, idx[n], tag)
             w == [NoWatch EXCEPT !.want = Asked(n, dir, tag)]
  <1>6. Opens(idx, i, n, dir, tag)
    BY <1>4, <1>5, OpenFacts
  <1>7. it' = i /\ watch' = Look(w, i)
    BY <1>2
  <1>8. DOMAIN w = {"want", "seen", "twice"} /\ w.want = Asked(n, dir, tag) /\ w.seen = {} /\ ~w.twice
    BY DEF NoWatch
  <1> HIDE DEF i, w
  <1>9. ASSUME NEW x \in w.want
        PROVE  x \in Dirs \X EPool /\ Wanted(idx, n, dir, tag, x[1], x[2])
    <2>1. /\ x \in (IF dir = "any" THEN {"in", "out"} ELSE {dir}) \X DOMAIN graph.edges
          /\ n = (IF x[1] = "in" THEN graph.edges[x[2]].dest ELSE graph.edges[x[2]].src)
          /\ tag \in {Null, graph.edges[x[2]].tag}
      BY <1>8 DEF Asked
    <2>2. x[2] \in DOMAIN graph.edges /\ x[1] \in Dirs /\ dir \in {"any", x[1]} /\ x = <<x[1], x[2]>>
      BY <2>1 DEF Dirs
    <2>3. graph.edges[x[2]].tag \in Tags /\ x[2] \in EPool
      BY <1>4, <2>2 DEF GraphOK, EdgeRecord
    <2>4. End(graph.edges[x[2]], x[1]) = n
      BY <2>1 DEF End
    <2>5. x[2] \in Listed(idx, n, x[1], graph.edges[x[2]].tag)
      BY <1>4, <1>5, <2>2, <2>4 DEF IndexOK
    <2>6. QED  BY <2>1, <2>2, <2>3, <2>5 DEF Wanted
  <1>10. /\ Standing(idx, i) /\ ~i.vacant /\ ~i.dead
         /\ \A d, e : Wanted(idx, n, dir, tag, d, e) => i.pos # Null /\ Ahead(idx, i, d, e)
         /\ i.pos # Null => i.pos \in DOMAIN graph.edges
    <2>1. Standing(idx, i) /\ ~i.vacant /\ ~i.dead
      BY <1>6 DEF Opens
    <2>2. \A d, e : Wanted(idx, n, dir, tag, d, e) => i.pos # Null /\ Ahead(idx, i, d, e)
      BY <1>6 DEF Opens
    <2>3. i.pos # Null => i.pos \in DOMAIN graph.edges
      <3>1. i.pos # Null => i.node \in NPool /\ i.dir \in Dirs /\ i.pos \in Listed(idx, i.node, i.dir, i.tag)
        BY <2>1 DEF Standing, Iterator
      <3>2. QED  BY <1>4, <3>1 DEF IndexOK
    <2>4. QED  BY <2>1, <2>2, <2>3
  <1>11. w.want \subseteq Dirs \X EPool
    BY <1>9
  <1>12. \A x \in w.want : x \in w.seen \/ (i.pos # Null /\ Ahead(idx, i, x[1], x[2]))
    BY <1>9, <1>10
  <1>13. /\ DOMAIN watch' = {"want", "seen", "twice"} /\ ~watch'.twice /\ WatchOK(watch', idx, i)
         /\ \A x \in watch'.seen : x \in w.seen \/ (i.pos # Null /\ x[2] = i.pos)
    BY <1>4, <1>7, <1>8, <1>10, <1>11, <1>12, LookFacts
  <1>14. \A x \in watch'.seen : x[2] \in UsedEdges
    BY <1>8, <1>10, <1>13 DEF UsedEdges
  <1>15. Memory'
    BY <1>1, <1>3, <1>13 DEF Memory
  <1>16. Recoverable'
    BY <1>1, <1>3 DEF Recoverable
  <1>17. Running'
    BY <1>1, <1>3, <1>7, <1>10, <1>13, <1>14 DEF Running, UsedNodes, UsedEdges
  <1>18. QED  BY <1>1, <1>15, <1>16, <1>17 DEF GraphInv

\* A step of the iterator moves one edge from ahead of it to seen.
LEMMA StepInv ==
  ASSUME GraphInv, step_iterator
  PROVE  GraphInv'
  <1>1. /\ pc = "run" /\ ntable' = ntable /\ etable' = etable /\ idx' = idx /\ undo' = undo
        /\ lost' = lost /\ nfrees' = nfrees /\ efrees' = efrees /\ graph' = graph /\ saved' = saved
        /\ More(it) /\ it' = next(it, idx[it.node]) /\ watch' = Look(watch, it')
        /\ pc' = IF it'.dead THEN "dead" ELSE "run"
    BY DEF step_iterator, dvars
  <1>3. Memory /\ Recoverable /\ Running
    BY <1>1 DEF GraphInv
  <1>4. Recoverable'
    BY <1>1, <1>3 DEF Recoverable
  <1>5. /\ IndexOK(idx, graph.edges, DOMAIN graph.edges) /\ Shape(idx) /\ Standing(idx, it) /\ ~it.dead
        /\ WatchOK(watch, idx, it) /\ \A x \in watch.seen : x[2] \in UsedEdges
    BY <1>3 DEF Running, Stored, IndexOK
  <1>6. /\ Standing(idx, it') /\ ~it'.vacant
        /\ ~it'.dead => \A c, a : Coming(idx, it, c, a) <=> it'.pos # Null /\ Ahead(idx, it', c, a)
    BY <1>1, <1>5, StepFacts
  <1>7. CASE it'.dead
    <2>1. watch' = watch /\ pc' = "dead"
      BY <1>1, <1>7 DEF Look
    <2>2. Memory'
      BY <1>1, <1>3, <2>1 DEF Memory, States
    <2>3. QED  BY <1>4, <2>1, <2>2 DEF GraphInv
  <1>8. CASE ~it'.dead
    <2>1. \A c, a : Coming(idx, it, c, a) <=> it'.pos # Null /\ Ahead(idx, it', c, a)
      BY <1>6, <1>8
    <2>2. /\ watch.want \subseteq Dirs \X EPool
          /\ \A x \in watch.seen : ~(it'.pos # Null /\ Ahead(idx, it', x[1], x[2]))
          /\ \A x \in watch.want : x \in watch.seen \/ (it'.pos # Null /\ Ahead(idx, it', x[1], x[2]))
      BY <1>5, <2>1 DEF WatchOK
    <2>3. DOMAIN watch = {"want", "seen", "twice"} /\ ~watch.twice
      BY <1>3 DEF Memory
    <2>4. /\ DOMAIN watch' = {"want", "seen", "twice"} /\ ~watch'.twice /\ WatchOK(watch', idx, it')
          /\ \A x \in watch'.seen : x \in watch.seen \/ (it'.pos # Null /\ x[2] = it'.pos)
      BY <1>1, <1>5, <1>6, <1>8, <2>2, <2>3, LookFacts
    <2>5. it'.pos # Null => it'.pos \in DOMAIN graph.edges
      <3>1. it'.pos # Null => it'.node \in NPool /\ it'.dir \in Dirs /\ it'.pos \in Listed(idx, it'.node, it'.dir, it'.tag)
        BY <1>6 DEF Standing, Iterator
      <3>2. QED  BY <1>5, <3>1 DEF IndexOK
    <2>6. \A x \in watch'.seen : x[2] \in UsedEdges
      BY <1>5, <2>4, <2>5 DEF UsedEdges
    <2>7. Memory'
      BY <1>1, <1>3, <1>8, <2>4 DEF Memory
    <2>8. Running'
      BY <1>1, <1>3, <1>6, <1>8, <2>4, <2>6 DEF Running, UsedNodes, UsedEdges
    <2>9. QED  BY <1>1, <1>4, <1>8, <2>7, <2>8 DEF GraphInv
  <1>9. QED  BY <1>7, <1>8

-----------------------------------------------------------------------------
(***************************************************************************)
(* Nodes and edges are added.                                              *)
(***************************************************************************)
\* Nothing is listed at a node that is not there.
LEMMA NoneListed ==
  ASSUME NEW ix, NEW g, GraphOK(g), IndexOK(ix, g.edges, DOMAIN g.edges), NEW n \in NPool, n \notin g.nodes
  PROVE  [ix EXCEPT ![n] = NoEdges] = ix
  <1>1. Shape(ix) /\ ix \in [NPool -> [Dirs -> {x \in Seq(Bucket) : WellFormed(x)}]]
    BY DEF IndexOK, Shape
  <1>2. ASSUME NEW d \in Dirs PROVE ix[n][d] = <<>>
    <2>1. \A t, e : e \notin Listed(ix, n, d, t)
      BY DEF IndexOK, GraphOK
    <2>2. WellFormed(ix[n][d])
      BY <1>1, ShapeFacts
    <2>3. \A t : t \notin Range(Keys(ix[n][d]))
      BY <2>1, <2>2, EdgesFacts DEF Listed
    <2>4. Range(Keys(ix[n][d])) = {}
      BY <2>3
    <2>5. QED  BY <2>2, <2>4, KeysFacts
  <1>3. ix[n] = NoEdges
    <2>1. ix[n] \in [Dirs -> {x \in Seq(Bucket) : WellFormed(x)}]
      BY <1>1
    <2> DEFINE y == ix[n]
    <2>2. y = [d \in Dirs |-> y[d]] /\ \A d \in Dirs : y[d] = <<>>
      BY <1>2, <2>1
    <2> HIDE DEF y
    <2>3. y = [d \in Dirs |-> <<>>]
      BY <2>2
    <2>4. NoEdges = [d \in Dirs |-> <<>>]
      BY DEF NoEdges, Dirs
    <2>5. QED  BY <2>3, <2>4 DEF y
  <1>4. QED  BY <1>1, <1>3

\* add_node() preserves the invariant.
LEMMA AddNodeInv ==
  ASSUME GraphInv, add_node
  PROVE  GraphInv'
  <1> DEFINE a == NT!fa_alloc(ntable)
             o == a.obj
  <1>1. /\ pc = "run" /\ pc' \in {"run", "failed"} /\ etable' = etable /\ nfrees' = nfrees /\ efrees' = efrees
        /\ it' = it /\ watch' = watch /\ saved' = saved
        /\ ntable' = [a.pm EXCEPT ![W(o)] = NT!Data(o)]
        /\ idx' = [idx EXCEPT ![o] = NoEdges]
        /\ undo' = [undo EXCEPT !.n = log(undo.n, ntable, a.logs)]
        /\ graph' = [graph EXCEPT !.nodes = graph.nodes \cup {o}]
    BY DEF add_node, Change, W
  <1>2. ~(ntable[H].free = Null /\ ntable[H].tail > NumNodes)
    BY DEF add_node, NT!Exhausted, H
  <1>3. Memory /\ Recoverable /\ Running
    BY <1>1 DEF GraphInv
  <1>4. lost' = [lost EXCEPT !.n = Unflushed(lost.n, ntable, {W(o)} \ a.logs)]
    BY DEF add_node, W
  <1>5. /\ GraphOK(graph) /\ TableOK(ntable, NumNodes, UsedNodes) /\ NodesOK(ntable, graph.nodes)
        /\ TableOK(etable, NumEdges, UsedEdges) /\ EdgesOK(etable, graph.edges)
        /\ IndexOK(idx, graph.edges, DOMAIN graph.edges)
        /\ Frees(nfrees, NumNodes, graph.nodes) /\ Frees(efrees, NumEdges, DOMAIN graph.edges)
        /\ TableTx(ntable, undo.n, UsedNodes, saved.nodes)
        /\ TableTx(etable, undo.e, UsedEdges, DOMAIN saved.edges)
        /\ Standing(idx, it) /\ ~it.dead
        /\ WatchOK(watch, idx, it) /\ \A x \in watch.seen : x[2] \in UsedEdges
    BY <1>3 DEF Running, Stored
  <1>6. /\ GraphOK(saved) /\ TableOK(rollback(undo.n, ntable), NumNodes, saved.nodes)
        /\ NodesOK(rollback(undo.n, ntable), saved.nodes)
        /\ TableOK(rollback(undo.e, etable), NumEdges, DOMAIN saved.edges)
        /\ EdgesOK(rollback(undo.e, etable), saved.edges)
        /\ IndexOK(rollback(undo.i, idx), saved.edges, DOMAIN saved.edges)
    BY <1>3 DEF Recoverable, Stored
  <1>7. NumNodes \in Nat /\ NPool = 1 .. NumNodes
    BY Pools
  <1>8. H \in DOMAIN ntable /\ \A p \in 1 .. NumNodes : W(p) \in DOMAIN ntable
    BY <1>5, <1>7, TableFacts
  <1>9. /\ o \in (1 .. NumNodes) \ UsedNodes /\ DOMAIN a.pm = DOMAIN ntable
        /\ \A l \in DOMAIN ntable : l \notin {H, W(o)} => a.pm[l] = ntable[l]
    BY <1>2, <1>5, <1>7, AllocFacts
  <1>10. /\ DOMAIN ntable' = DOMAIN ntable /\ ntable'[H] = a.pm[H] /\ ntable'[W(o)] = NT!Data(o)
         /\ \A l \in DOMAIN ntable : l \notin {H, W(o)} => ntable'[l] = ntable[l]
    <2> HIDE DEF a, o
    <2>1. W(o) \in DOMAIN ntable /\ W(o) # H
      BY <1>8, <1>9, Locations
    <2>2. QED  BY <1>1, <1>8, <1>9, <2>1
  <1>11. DOMAIN undo' = {"n", "e", "i"} /\ undo'.n = log(undo.n, ntable, a.logs) /\ undo'.e = undo.e /\ undo'.i = undo.i
    BY <1>1, <1>3 DEF Memory
  <1>12. Takes(ntable, ntable', NumNodes, UsedNodes, saved.nodes, undo.n, undo'.n, o)
    <2>1. \A l \in DOMAIN ntable : l \notin {H, W(o), Rest(o)} => ntable'[l] = ntable[l]
      BY <1>10
    <2>2. o \in Nat
      BY <1>9
    <2>3. QED  BY <1>2, <1>5, <1>6, <1>7, <1>10, <1>11, <2>1, <2>2, AllocTx
  <1>13. idx' = idx
    <2>1. o \in NPool /\ o \notin graph.nodes
      BY <1>7, <1>9 DEF UsedNodes
    <2>2. QED  BY <1>1, <1>5, <2>1, NoneListed
  <1>14. DOMAIN graph' = {"nodes", "edges"} /\ graph'.nodes = graph.nodes \cup {o} /\ graph'.edges = graph.edges
    BY <1>1, <1>5 DEF GraphOK
  <1> HIDE DEF a, o
  <1>15. UsedNodes' = UsedNodes \cup {o} /\ UsedEdges' = UsedEdges
    BY <1>1, <1>14 DEF UsedNodes, UsedEdges
  <1>16. /\ TableOK(ntable', NumNodes, UsedNodes') /\ TableTx(ntable', undo'.n, UsedNodes', saved.nodes)
         /\ TableOK(rollback(undo'.n, ntable'), NumNodes, saved.nodes) /\ saved.nodes \subseteq UsedNodes
         /\ \A l \in DOMAIN ntable : l \notin {W(o), Rest(o)} =>
              rollback(undo'.n, ntable')[l] = rollback(undo.n, ntable)[l]
    BY <1>5, <1>12, <1>15 DEF Takes, TableTx
  <1>17. NodesOK(rollback(undo'.n, ntable'), saved.nodes)
    <2>1. ASSUME NEW n \in saved.nodes PROVE rollback(undo'.n, ntable')[W(n)] = rollback(undo.n, ntable)[W(n)]
      <3>1. n # o /\ W(n) \in DOMAIN ntable
        BY <1>6, <1>7, <1>8, <1>9, <1>16 DEF GraphOK
      <3>2. W(n) \notin {W(o), Rest(o)}
        BY <3>1, Locations
      <3>3. QED  BY <1>16, <3>1, <3>2
    <2>2. QED  BY <1>6, <2>1 DEF NodesOK
  <1>18. NodesOK(ntable', graph'.nodes)
    <2>1. ASSUME NEW n \in graph'.nodes PROVE ntable'[W(n)] = NT!Data(n)
      <3>1. CASE n = o  BY <1>10, <3>1
      <3>2. CASE n # o
        <4>1. n \in graph.nodes /\ W(n) \in DOMAIN ntable
          BY <1>5, <1>7, <1>8, <1>14, <3>2 DEF GraphOK
        <4>2. W(n) \notin {H, W(o)}
          BY <3>2, Locations
        <4>3. QED  BY <1>5, <1>10, <4>1, <4>2 DEF NodesOK
      <3>3. QED  BY <3>1, <3>2
    <2>2. QED  BY <2>1 DEF NodesOK
  <1>19. GraphOK(graph')
    BY <1>5, <1>7, <1>9, <1>14 DEF GraphOK
  <1>20. Memory'
    <2>1. /\ DOMAIN lost = {"n", "e"} /\ LostOK(lost.n, NumNodes) /\ LostOK(lost.e, NumEdges)
          /\ \A p \in 1 .. NumNodes : ntable[W(p)] \in [to : Nat, free_bit : BOOLEAN]
      BY <1>3, <1>5 DEF Memory, TableOK
    <2> DEFINE L == {W(o)} \ a.logs
    <2>2. \A l \in L : \E p \in 1 .. NumNodes : l = W(p) \/ l = Rest(p)
      BY <1>9
    <2>3. lost' = [lost EXCEPT !.n = Unflushed(lost.n, ntable, L)]
      BY <1>4
    <2> HIDE DEF L
    <2>4. LostOK(Unflushed(lost.n, ntable, L), NumNodes)
      BY <2>1, <2>2, LostLog
    <2>5. DOMAIN lost' = {"n", "e"} /\ LostOK(lost'.n, NumNodes) /\ LostOK(lost'.e, NumEdges)
      BY <2>1, <2>3, <2>4
    <2>6. QED  BY <1>1, <1>3, <1>11, <2>5 DEF Memory, States
  <1>21. Recoverable'
    BY <1>1, <1>6, <1>11, <1>13, <1>16, <1>17 DEF Recoverable, Stored
  <1>22. Frees(nfrees, NumNodes, graph'.nodes)
    BY <1>5, <1>9, <1>14 DEF Frees, UsedNodes
  <1>23. Stored(ntable', etable', idx', graph', UsedNodes', UsedEdges')
    BY <1>1, <1>5, <1>13, <1>14, <1>15, <1>16, <1>18, <1>19 DEF Stored
  <1>24. Running'
    BY <1>1, <1>5, <1>11, <1>13, <1>14, <1>15, <1>16, <1>22, <1>23 DEF Running
  <1>25. QED  BY <1>1, <1>20, <1>21, <1>24 DEF GraphInv

\* The graph with one more edge.
WithEdge(edges, o, r) == [x \in DOMAIN edges \cup {o} |-> IF x = o THEN r ELSE edges[x]]

\* An edge that is new is listed at both its ends.
LEMMA InsertEdgeFacts ==
  ASSUME NEW ix, NEW edges, IndexOK(ix, edges, DOMAIN edges), NEW o \in EPool, o \notin DOMAIN edges,
         NEW r \in EdgeRecord, NEW i, Standing(ix, i)
  PROVE  LET iy == Inserted(Inserted(ix, r.src, "out", r.tag, o), r.dest, "in", r.tag, o)
         IN /\ IndexOK(iy, WithEdge(edges, o, r), DOMAIN edges \cup {o}) /\ Standing(iy, i)
            /\ \A m \in NPool : m \notin {r.src, r.dest} => iy[m] = ix[m]
            /\ \A c, a : Coming(ix, i, c, a) => Coming(iy, i, c, a)
            /\ \A c, a : Coming(iy, i, c, a) => Coming(ix, i, c, a) \/ a = o
  <1> DEFINE ih == Inserted(ix, r.src, "out", r.tag, o)
             iy == Inserted(ih, r.dest, "in", r.tag, o)
             new == WithEdge(edges, o, r)
  <1>1. r.src \in NPool /\ r.dest \in NPool /\ r.tag \in Tags /\ "in" \in Dirs /\ "out" \in Dirs
    BY DEF EdgeRecord, Dirs
  <1>2. /\ Shape(ix)
        /\ \A n \in NPool, d \in Dirs : \A t, e :
             e \in Listed(ix, n, d, t) <=> e \in DOMAIN edges /\ edges[e].tag = t /\ End(edges[e], d) = n
    BY DEF IndexOK
  <1>3. \A n \in NPool, d \in Dirs : \A t : o \notin Listed(ix, n, d, t)
    BY <1>2
  <1>4. /\ Shape(ih) /\ \A m \in NPool : m # r.src => ih[m] = ix[m]
        /\ \A m \in NPool, c \in Dirs : \A u, a :
             a \in Listed(ih, m, c, u) <=>
               a \in Listed(ix, m, c, u) \/ (m = r.src /\ c = "out" /\ u = r.tag /\ a = o)
    BY <1>1, <1>2, <1>3, InsertedFacts
  <1>5. /\ Standing(ih, i)
        /\ i.pos # Null => \A c, a :
             /\ Behind(ix, i, c, a) => Behind(ih, i, c, a)
             /\ Behind(ih, i, c, a) => Behind(ix, i, c, a) \/ a = o
    BY <1>1, <1>2, <1>3, AddedFacts
  <1> HIDE DEF ih
  <1>6. \A u : o \notin Listed(ih, r.dest, "in", u)
    BY <1>1, <1>3, <1>4
  <1>7. /\ Shape(iy) /\ \A m \in NPool : m # r.dest => iy[m] = ih[m]
        /\ \A m \in NPool, c \in Dirs : \A u, a :
             a \in Listed(iy, m, c, u) <=>
               a \in Listed(ih, m, c, u) \/ (m = r.dest /\ c = "in" /\ u = r.tag /\ a = o)
    BY <1>1, <1>4, <1>6, InsertedFacts
  <1>8. /\ Standing(iy, i)
        /\ i.pos # Null => \A c, a :
             /\ Behind(ih, i, c, a) => Behind(iy, i, c, a)
             /\ Behind(iy, i, c, a) => Behind(ih, i, c, a) \/ a = o
    BY <1>1, <1>4, <1>5, <1>6, AddedFacts
  <1> HIDE DEF iy
  <1>9. DOMAIN new = DOMAIN edges \cup {o} /\ new[o] = r /\ \A e \in DOMAIN edges : new[e] = edges[e]
    BY DEF WithEdge
  <1> HIDE DEF new
  <1>10. ASSUME NEW n \in NPool, NEW d \in Dirs, NEW t, NEW e
         PROVE  e \in Listed(iy, n, d, t) <=>
                  e \in DOMAIN edges \cup {o} /\ new[e].tag = t /\ End(new[e], d) = n
    <2>1. e \in Listed(iy, n, d, t) <=>
            \/ e \in Listed(ix, n, d, t)
            \/ n = r.src /\ d = "out" /\ t = r.tag /\ e = o
            \/ n = r.dest /\ d = "in" /\ t = r.tag /\ e = o
      BY <1>4, <1>7
    <2>2. CASE e = o
      <3>1. e \notin Listed(ix, n, d, t) /\ new[e] = r
        BY <1>3, <1>9, <2>2
      <3>2. End(r, d) = n <=> (n = r.src /\ d = "out") \/ (n = r.dest /\ d = "in")
        BY DEF End, Dirs
      <3>3. QED  BY <2>1, <2>2, <3>1, <3>2
    <2>3. CASE e # o
      <3>1. e \in Listed(iy, n, d, t) <=> e \in Listed(ix, n, d, t)
        BY <2>1, <2>3
      <3>2. e \in DOMAIN edges => new[e] = edges[e]
        BY <1>9
      <3>3. QED  BY <1>2, <2>3, <3>1, <3>2
    <2>4. QED  BY <2>2, <2>3
  <1>11. IndexOK(iy, new, DOMAIN edges \cup {o})
    BY <1>7, <1>10 DEF IndexOK
  <1>12. \A m \in NPool : m \notin {r.src, r.dest} => iy[m] = ix[m]
    BY <1>4, <1>7
  <1>13. \A c, a : Coming(ix, i, c, a) => Coming(iy, i, c, a)
    BY <1>5, <1>8 DEF Coming, Ahead
  <1>14. \A c, a : Coming(iy, i, c, a) => Coming(ix, i, c, a) \/ a = o
    BY <1>5, <1>8 DEF Coming, Ahead
  <1>15. QED  BY <1>8, <1>11, <1>12, <1>13, <1>14 DEF iy, ih, new

\* The table of the edges when one is added.
LEMMA AddEdgeTable ==
  ASSUME Memory, Recoverable, Running, ~ET!Exhausted(etable), NEW src \in NPool, NEW dest, NEW tag, NEW o,
         o = ET!fa_alloc(etable).obj,
         etable' = [ET!fa_alloc(etable).pm EXCEPT ![ET!Word(o)] = ET!Data(src),
                                                  ![Rest(o)] = [dest |-> dest, tag |-> tag]],
         undo'.e = log(undo.e, etable, ET!fa_alloc(etable).logs), saved' = saved
  PROVE  /\ o \in EPool /\ o \notin UsedEdges /\ DOMAIN etable' = DOMAIN etable
         /\ etable'[ET!Word(o)] = ET!Data(src) /\ etable'[Rest(o)] = [dest |-> dest, tag |-> tag]
         /\ \A e \in EPool : e # o => etable'[ET!Word(e)] = etable[ET!Word(e)] /\ etable'[Rest(e)] = etable[Rest(e)]
         /\ TableOK(etable', NumEdges, UsedEdges \cup {o})
         /\ TableTx(etable', undo'.e, UsedEdges \cup {o}, DOMAIN saved.edges)
         /\ TableOK(rollback(undo'.e, etable'), NumEdges, DOMAIN saved.edges)
         /\ EdgesOK(rollback(undo'.e, etable'), saved.edges)
  <1> DEFINE a == NT!fa_alloc(etable)
  <1>1. /\ ET!Hdr = H /\ ET!fa_alloc(etable) = a /\ ET!Data(src) = NT!Data(src)
        /\ \A e : ET!Word(e) = W(e)
    BY SameOperators
  <1>2. ~(etable[H].free = Null /\ etable[H].tail > NumEdges)
    BY <1>1 DEF ET!Exhausted
  <1>3. /\ TableOK(etable, NumEdges, UsedEdges) /\ TableTx(etable, undo.e, UsedEdges, DOMAIN saved.edges)
        /\ TableOK(rollback(undo.e, etable), NumEdges, DOMAIN saved.edges)
        /\ EdgesOK(rollback(undo.e, etable), saved.edges) /\ DOMAIN saved.edges \subseteq EPool
        /\ \A e \in EPool : Rest(e) \in DOMAIN etable
    BY DEF Running, Recoverable, Stored, Memory, GraphOK
  <1>4. NumEdges \in Nat /\ EPool = 1 .. NumEdges /\ src \in Nat
    BY Pools
  <1>5. H \in DOMAIN etable /\ \A e \in EPool : W(e) \in DOMAIN etable
    BY <1>3, <1>4, TableFacts
  <1>6. /\ o \in EPool \ UsedEdges /\ DOMAIN a.pm = DOMAIN etable
        /\ \A l \in DOMAIN etable : l \notin {H, W(o)} => a.pm[l] = etable[l]
    BY <1>1, <1>2, <1>3, <1>4, AllocFacts
  <1> HIDE DEF a
  <1>7. W(o) \in DOMAIN etable /\ Rest(o) \in DOMAIN etable /\ W(o) # H /\ Rest(o) # H /\ Rest(o) # W(o)
    BY <1>3, <1>5, <1>6, Locations
  <1>8. etable' = [a.pm EXCEPT ![W(o)] = NT!Data(src), ![Rest(o)] = [dest |-> dest, tag |-> tag]]
    BY <1>1
  <1>9. /\ DOMAIN etable' = DOMAIN etable /\ etable'[H] = a.pm[H] /\ etable'[W(o)] = NT!Data(src)
        /\ etable'[Rest(o)] = [dest |-> dest, tag |-> tag]
        /\ \A l \in DOMAIN etable : l \notin {H, W(o), Rest(o)} => etable'[l] = etable[l]
    BY <1>5, <1>6, <1>7, <1>8
  <1>10. Takes(etable, etable', NumEdges, UsedEdges, DOMAIN saved.edges, undo.e, undo'.e, o)
    <2>1. o = a.obj /\ undo'.e = log(undo.e, etable, a.logs)
      BY <1>1
    <2>2. /\ TableOK(etable, NumEdges, UsedEdges) /\ TableTx(etable, undo.e, UsedEdges, DOMAIN saved.edges)
          /\ TableOK(rollback(undo.e, etable), NumEdges, DOMAIN saved.edges)
      BY <1>3
    <2>3. /\ o = NT!fa_alloc(etable).obj /\ etable'[H] = NT!fa_alloc(etable).pm[H]
          /\ DOMAIN etable' = DOMAIN etable /\ etable'[W(o)] = NT!Data(src)
          /\ \A l \in DOMAIN etable : l \notin {H, W(o), Rest(o)} => etable'[l] = etable[l]
      BY <1>9, <2>1 DEF a
    <2>4. Takes(etable, etable', NumEdges, UsedEdges, DOMAIN saved.edges, undo.e,
                log(undo.e, etable, NT!fa_alloc(etable).logs), o)
      BY <1>2, <1>4, <2>2, <2>3, AllocTx
    <2>5. QED  BY <2>1, <2>4 DEF a
  <1>11. /\ TableOK(etable', NumEdges, UsedEdges \cup {o})
         /\ TableTx(etable', undo'.e, UsedEdges \cup {o}, DOMAIN saved.edges)
         /\ TableOK(rollback(undo'.e, etable'), NumEdges, DOMAIN saved.edges)
         /\ \A l \in DOMAIN etable : l \notin {W(o), Rest(o)} =>
              rollback(undo'.e, etable')[l] = rollback(undo.e, etable)[l]
    BY <1>10 DEF Takes
  <1>12. \A e \in EPool : e # o =>
           /\ W(e) \in DOMAIN etable /\ Rest(e) \in DOMAIN etable
           /\ {W(e), Rest(e)} \cap {H, W(o), Rest(o)} = {}
    <2>1. SUFFICES ASSUME NEW e \in EPool, e # o
                   PROVE  /\ W(e) \in DOMAIN etable /\ Rest(e) \in DOMAIN etable
                          /\ {W(e), Rest(e)} \cap {H, W(o), Rest(o)} = {}
      OBVIOUS
    <2>2. W(e) # H /\ W(e) # W(o) /\ W(e) # Rest(o) /\ Rest(e) # H /\ Rest(e) # W(o) /\ Rest(e) # Rest(o)
      BY <2>1, Locations
    <2>3. QED  BY <1>3, <1>5, <2>2
  <1>13. EdgesOK(rollback(undo'.e, etable'), saved.edges)
    <2>1. ASSUME NEW e \in DOMAIN saved.edges
          PROVE  /\ rollback(undo'.e, etable')[W(e)] = rollback(undo.e, etable)[W(e)]
                 /\ rollback(undo'.e, etable')[Rest(e)] = rollback(undo.e, etable)[Rest(e)]
      <3>1. e \in EPool /\ e # o
        BY <1>3, <1>6 DEF TableTx
      <3>2. QED  BY <1>11, <1>12, <3>1
    <2>2. QED  BY <1>1, <1>3, <2>1 DEF EdgesOK
  <1>14. \A e \in EPool : e # o => etable'[ET!Word(e)] = etable[ET!Word(e)] /\ etable'[Rest(e)] = etable[Rest(e)]
    BY <1>1, <1>9, <1>12
  <1>15. QED  BY <1>1, <1>6, <1>9, <1>11, <1>13, <1>14

\* add_edge() preserves the invariant, whether or not the second index fails.
LEMMA AddEdgeInv ==
  ASSUME GraphInv, add_edge
  PROVE  GraphInv'
  <1> DEFINE a == ET!fa_alloc(etable)
             o == a.obj
  <1>1. PICK src \in graph.nodes, dest \in graph.nodes, tag \in Tags :
          LET half == [idx EXCEPT ![src].out = add(@, tag, o)]
          IN /\ Change /\ ~ET!Exhausted(etable)
             /\ etable' = [a.pm EXCEPT ![ET!Word(o)] = ET!Data(src), ![Rest(o)] = [dest |-> dest, tag |-> tag]]
             /\ lost' = [lost EXCEPT !.e = Unflushed(@, etable, {ET!Word(o), Rest(o)} \ a.logs)]
             /\ \/ /\ idx' = [half EXCEPT ![dest].in = add(@, tag, o)]
                   /\ undo' = [undo EXCEPT !.e = log(@, etable, a.logs), !.i = log(@, idx, {src, dest})]
                   /\ pc' \in {pc, "failed"}
                \/ /\ idx' = half
                   /\ undo' = [undo EXCEPT !.e = log(@, etable, a.logs), !.i = log(@, idx, {src})]
                   /\ pc' = "failed"
                \/ /\ undo' = [undo EXCEPT !.e = log(@, etable, a.logs)]
                   /\ pc' = "failed" /\ UNCHANGED idx
             /\ graph' = [graph EXCEPT !.edges =
                            [x \in DOMAIN @ \cup {o} |->
                               IF x = o THEN [src |-> src, dest |-> dest, tag |-> tag] ELSE @[x]]]
             /\ UNCHANGED <<ntable, nfrees, efrees, it, watch, saved, harmed>>
    BY DEF add_edge
  <1> DEFINE r == [src |-> src, dest |-> dest, tag |-> tag]
             ih == Inserted(idx, src, "out", tag, o)
             iy == Inserted(ih, dest, "in", tag, o)
  <1>2. /\ pc = "run" /\ ~ET!Exhausted(etable) /\ ntable' = ntable /\ nfrees' = nfrees /\ efrees' = efrees
        /\ it' = it /\ watch' = watch /\ saved' = saved
        /\ etable' = [a.pm EXCEPT ![ET!Word(o)] = ET!Data(src), ![Rest(o)] = [dest |-> dest, tag |-> tag]]
        /\ graph' = [graph EXCEPT !.edges = WithEdge(graph.edges, o, r)]
    BY <1>1 DEF Change, WithEdge
  <1>3. \/ /\ idx' = iy /\ pc' \in {"run", "failed"}
           /\ undo' = [undo EXCEPT !.e = log(undo.e, etable, a.logs), !.i = log(undo.i, idx, {src, dest})]
        \/ /\ idx' = ih /\ pc' = "failed"
           /\ undo' = [undo EXCEPT !.e = log(undo.e, etable, a.logs), !.i = log(undo.i, idx, {src})]
        \/ /\ idx' = idx /\ pc' = "failed"
           /\ undo' = [undo EXCEPT !.e = log(undo.e, etable, a.logs)]
    BY <1>1, <1>2 DEF Inserted
  <1>4. Memory /\ Recoverable /\ Running
    BY <1>2 DEF GraphInv
  <1>5. lost' = [lost EXCEPT !.e = Unflushed(lost.e, etable, {ET!Word(o), Rest(o)} \ a.logs)]
    BY <1>1
  <1>6. /\ GraphOK(graph) /\ TableOK(ntable, NumNodes, UsedNodes) /\ NodesOK(ntable, graph.nodes)
        /\ EdgesOK(etable, graph.edges) /\ IndexOK(idx, graph.edges, DOMAIN graph.edges)
        /\ Frees(nfrees, NumNodes, graph.nodes) /\ Frees(efrees, NumEdges, DOMAIN graph.edges)
        /\ TableTx(ntable, undo.n, UsedNodes, saved.nodes)
        /\ Standing(idx, it) /\ ~it.dead
        /\ WatchOK(watch, idx, it) /\ \A x \in watch.seen : x[2] \in UsedEdges
    BY <1>4 DEF Running, Stored
  <1>7. /\ GraphOK(saved) /\ TableOK(rollback(undo.n, ntable), NumNodes, saved.nodes)
        /\ NodesOK(rollback(undo.n, ntable), saved.nodes)
        /\ IndexOK(rollback(undo.i, idx), saved.edges, DOMAIN saved.edges)
    BY <1>4 DEF Recoverable, Stored
  <1>8. src \in NPool /\ dest \in NPool /\ DOMAIN undo = {"n", "e", "i"}
    BY <1>4, <1>6 DEF GraphOK, Memory
  <1>9. DOMAIN undo' = {"n", "e", "i"} /\ undo'.n = undo.n /\ undo'.e = log(undo.e, etable, a.logs)
    BY <1>3, <1>8
  <1> HIDE DEF a, o
  <1>10. /\ o \in EPool /\ o \notin UsedEdges /\ DOMAIN etable' = DOMAIN etable
         /\ etable'[ET!Word(o)] = ET!Data(src) /\ etable'[Rest(o)] = [dest |-> dest, tag |-> tag]
         /\ \A e \in EPool : e # o => etable'[ET!Word(e)] = etable[ET!Word(e)] /\ etable'[Rest(e)] = etable[Rest(e)]
         /\ TableOK(etable', NumEdges, UsedEdges \cup {o})
         /\ TableTx(etable', undo'.e, UsedEdges \cup {o}, DOMAIN saved.edges)
         /\ TableOK(rollback(undo'.e, etable'), NumEdges, DOMAIN saved.edges)
         /\ EdgesOK(rollback(undo'.e, etable'), saved.edges)
    BY <1>2, <1>4, <1>8, <1>9, AddEdgeTable DEF a, o
  <1>11. /\ o \notin DOMAIN graph.edges /\ r \in EdgeRecord /\ r.src = src /\ r.dest = dest /\ r.tag = tag
    BY <1>8, <1>10 DEF UsedEdges, EdgeRecord
  <1> HIDE DEF r
  <1>12. /\ IndexOK(iy, WithEdge(graph.edges, o, r), DOMAIN graph.edges \cup {o}) /\ Standing(iy, it)
         /\ \A m \in NPool : m \notin {src, dest} => iy[m] = idx[m]
         /\ \A c, b : Coming(idx, it, c, b) => Coming(iy, it, c, b)
         /\ \A c, b : Coming(iy, it, c, b) => Coming(idx, it, c, b) \/ b = o
    <2>1. o \in EPool /\ r \in EdgeRecord /\ o \notin DOMAIN graph.edges
      BY <1>10, <1>11
    <2>2. LET iz == Inserted(Inserted(idx, r.src, "out", r.tag, o), r.dest, "in", r.tag, o)
          IN /\ IndexOK(iz, WithEdge(graph.edges, o, r), DOMAIN graph.edges \cup {o}) /\ Standing(iz, it)
             /\ \A m \in NPool : m \notin {r.src, r.dest} => iz[m] = idx[m]
             /\ \A c, b : Coming(idx, it, c, b) => Coming(iz, it, c, b)
             /\ \A c, b : Coming(iz, it, c, b) => Coming(idx, it, c, b) \/ b = o
      BY <1>6, <2>1, InsertEdgeFacts
    <2>3. iy = Inserted(Inserted(idx, r.src, "out", r.tag, o), r.dest, "in", r.tag, o)
      BY <1>11
    <2> HIDE DEF iy
    <2>4. QED  BY <1>11, <2>2, <2>3
  <1>13. Shape(ih) /\ Shape(iy) /\ Shape(idx) /\ \A m \in NPool : m # src => ih[m] = idx[m]
    <2>1. \A u : o \notin Listed(idx, src, "out", u)
      BY <1>6, <1>8, <1>11 DEF IndexOK, Dirs
    <2>2. Shape(idx) /\ "out" \in Dirs
      BY <1>6 DEF IndexOK, Dirs
    <2>3. QED  BY <1>8, <1>10, <1>12, <2>1, <2>2, InsertedFacts DEF IndexOK
  <1> HIDE DEF ih, iy
  <1>14. DOMAIN ih = NPool /\ DOMAIN iy = NPool /\ DOMAIN idx = NPool
    BY <1>13, ShapeFacts
  <1>15. rollback(undo'.i, idx') = rollback(undo.i, idx)
    <2>1. CASE idx' = iy /\ undo'.i = log(undo.i, idx, {src, dest})
      <3>1. \A l \in DOMAIN idx : l \in {src, dest} \/ iy[l] = idx[l]
        BY <1>12, <1>14
      <3>2. QED  BY <1>14, <2>1, <3>1, RollbackSame
    <2>2. CASE idx' = ih /\ undo'.i = log(undo.i, idx, {src})
      <3>1. \A l \in DOMAIN idx : l \in {src} \/ ih[l] = idx[l]
        BY <1>13, <1>14
      <3>2. QED  BY <1>14, <2>2, <3>1, RollbackSame
    <2>3. CASE idx' = idx /\ undo'.i = undo.i
      BY <2>3
    <2>4. QED  BY <1>3, <1>8, <2>1, <2>2, <2>3
  <1>16. Memory'
    <2>1. /\ DOMAIN lost = {"n", "e"} /\ LostOK(lost.n, NumNodes) /\ LostOK(lost.e, NumEdges)
          /\ \A x \in 1 .. NumEdges : etable[W(x)] \in [to : Nat, free_bit : BOOLEAN]
      BY <1>4 DEF Memory, Running, Stored, TableOK
    <2> DEFINE L == {ET!Word(o), Rest(o)} \ a.logs
    <2>2. \A l \in L : \E x \in 1 .. NumEdges : l = W(x) \/ l = Rest(x)
      BY <1>10, SameOperators, Pools
    <2>3. lost' = [lost EXCEPT !.e = Unflushed(lost.e, etable, L)]
      BY <1>5
    <2> HIDE DEF L
    <2>4. LostOK(Unflushed(lost.e, etable, L), NumEdges)
      BY <2>1, <2>2, LostLog
    <2>5. DOMAIN lost' = {"n", "e"} /\ LostOK(lost'.n, NumNodes) /\ LostOK(lost'.e, NumEdges)
      BY <2>1, <2>3, <2>4
    <2>6. QED  BY <1>2, <1>3, <1>4, <1>9, <1>10, <2>5 DEF Memory, States
  <1>17. Recoverable'
    BY <1>2, <1>7, <1>9, <1>10, <1>15 DEF Recoverable, Stored
  <1>18. CASE pc' = "failed"
    BY <1>16, <1>17, <1>18 DEF GraphInv
  <1>19. CASE idx' = iy /\ pc' = "run"
    <2>1. /\ DOMAIN graph' = {"nodes", "edges"} /\ graph'.nodes = graph.nodes
          /\ graph'.edges = WithEdge(graph.edges, o, r)
      BY <1>2, <1>6 DEF GraphOK
    <2>2. /\ DOMAIN graph'.edges = DOMAIN graph.edges \cup {o} /\ graph'.edges[o] = r
          /\ \A e \in DOMAIN graph.edges : graph'.edges[e] = graph.edges[e]
      BY <2>1, <1>11 DEF WithEdge
    <2>3. UsedNodes' = UsedNodes /\ UsedEdges' = UsedEdges \cup {o}
      BY <1>2, <2>1, <2>2 DEF UsedNodes, UsedEdges
    <2>4. GraphOK(graph')
      <3>1. \A d \in Dirs : End(r, d) \in graph.nodes
        BY <1>1, <1>11 DEF End
      <3>2. \A e \in DOMAIN graph'.edges :
              graph'.edges[e] \in EdgeRecord /\ \A d \in Dirs : End(graph'.edges[e], d) \in graph.nodes
        <4>1. SUFFICES ASSUME NEW e \in DOMAIN graph'.edges
                       PROVE  graph'.edges[e] \in EdgeRecord /\ \A d \in Dirs : End(graph'.edges[e], d) \in graph.nodes
          OBVIOUS
        <4>2. CASE e = o  BY <1>11, <2>2, <3>1, <4>2
        <4>3. CASE e # o  BY <1>6, <2>2, <4>3 DEF GraphOK
        <4>4. QED  BY <4>2, <4>3
      <3>3. graph.nodes \subseteq NPool /\ DOMAIN graph'.edges \subseteq EPool
        BY <1>6, <1>10, <2>2 DEF GraphOK
      <3>4. QED  BY <2>1, <3>2, <3>3 DEF GraphOK
    <2>5. EdgesOK(etable', graph'.edges)
      <3>1. SUFFICES ASSUME NEW e \in DOMAIN graph'.edges
                     PROVE  /\ etable'[ET!Word(e)] = ET!Data(graph'.edges[e].src)
                            /\ etable'[Rest(e)] = [dest |-> graph'.edges[e].dest, tag |-> graph'.edges[e].tag]
        BY DEF EdgesOK
      <3>2. CASE e = o
        BY <1>10, <1>11, <2>2, <3>2
      <3>3. CASE e # o
        <4>1. e \in DOMAIN graph.edges /\ e \in EPool /\ graph'.edges[e] = graph.edges[e]
          BY <1>6, <2>2, <3>3 DEF GraphOK
        <4>2. etable'[ET!Word(e)] = etable[ET!Word(e)] /\ etable'[Rest(e)] = etable[Rest(e)]
          BY <1>10, <3>3, <4>1
        <4>3. QED  BY <1>6, <4>1, <4>2 DEF EdgesOK
      <3>4. QED  BY <3>2, <3>3
    <2>6. Stored(ntable', etable', idx', graph', UsedNodes', UsedEdges')
      BY <1>2, <1>6, <1>10, <1>12, <1>19, <2>1, <2>2, <2>3, <2>4, <2>5 DEF Stored
    <2>7. Frees(efrees, NumEdges, DOMAIN graph'.edges)
      BY <1>6, <1>10, <2>2 DEF Frees, UsedEdges
    <2>8. WatchOK(watch, iy, it)
      <3>1. ASSUME NEW x \in watch.seen PROVE ~Coming(iy, it, x[1], x[2])
        <4>1. x[2] # o
          BY <1>6, <1>10
        <4>2. QED  BY <1>6, <1>12, <4>1 DEF WatchOK
      <3>2. ASSUME NEW x \in watch.want PROVE x \in watch.seen \/ Coming(iy, it, x[1], x[2])
        BY <1>6, <1>12 DEF WatchOK
      <3>3. QED  BY <1>6, <3>1, <3>2 DEF WatchOK
    <2>9. \A x \in watch.seen : x[2] \in UsedEdges'
      BY <1>6, <2>3
    <2>10. Running'
      BY <1>2, <1>6, <1>9, <1>10, <1>12, <1>19, <2>1, <2>3, <2>6, <2>7, <2>8, <2>9 DEF Running
    <2>11. QED  BY <1>16, <1>17, <1>19, <2>10 DEF GraphInv
  <1>20. QED  BY <1>3, <1>18, <1>19

-----------------------------------------------------------------------------
(***************************************************************************)
(* Nodes and edges are removed.                                            *)
(***************************************************************************)
\* What a removal changes is logged, also when it ends half way.
LEMMA RemovalRecoverable ==
  ASSUME Memory, Recoverable, Shape(idx), NEW s, Shape(s.idx), Now(s), pc' \in States,
         ntable' = ntable, etable' = etable, saved' = saved, lost' = lost
  PROVE  Memory' /\ Recoverable' /\ undo'.n = undo.n /\ undo'.e = undo.e
  <1> DEFINE L == {n \in NPool : s.idx[n] # idx[n]}
  <1>1. /\ idx' = s.idx /\ undo' = [undo EXCEPT !.i = log(undo.i, idx, L)]
        /\ watch' = [watch EXCEPT !.want = {x \in watch.want : x[2] \notin Range(s.gone)}]
    BY DEF Now, NPool
  <1> HIDE DEF L
  <1>2. /\ DOMAIN undo' = {"n", "e", "i"} /\ undo'.n = undo.n /\ undo'.e = undo.e
        /\ undo'.i = log(undo.i, idx, L)
    BY <1>1 DEF Memory
  <1>3. DOMAIN watch' = {"want", "seen", "twice"} /\ ~watch'.twice
    BY <1>1 DEF Memory
  <1>4. rollback(undo'.i, idx') = rollback(undo.i, idx)
    <2>1. DOMAIN idx = NPool /\ DOMAIN s.idx = NPool
      BY ShapeFacts
    <2>2. \A n \in DOMAIN idx : n \in L \/ s.idx[n] = idx[n]
      BY <2>1 DEF L
    <2>3. QED  BY <1>1, <1>2, <2>1, <2>2, RollbackSame
  <1>5. Memory'
    BY <1>2, <1>3 DEF Memory
  <1>6. Recoverable'
    BY <1>2, <1>4 DEF Recoverable
  <1>7. QED  BY <1>2, <1>5, <1>6

\* What is left of the indices after the edges in s.gone were removed, and of
\* what the iterator i has yet to show.
Leaves(s, i) ==
  /\ s.gone \in Seq(EPool) /\ IsInjective(s.gone) /\ Range(s.gone) \subseteq DOMAIN graph.edges
  /\ IndexOK(s.idx, graph.edges, DOMAIN graph.edges \ Range(s.gone))
  /\ Standing(s.idx, i) /\ ~i.dead
  /\ \A c, a : Coming(s.idx, i, c, a) <=> Coming(idx, it, c, a) /\ a \notin Range(s.gone)

\* What a removal leaves of the transaction, the iterator and the watch.
LEMMA RemovalRunning ==
  ASSUME Memory, Running, NEW s, Now(s), Leaves(s, s.its.client),
         ntable' = ntable, etable' = etable, saved' = saved, undo'.n = undo.n, undo'.e = undo.e,
         DOMAIN graph' = {"nodes", "edges"}, graph'.nodes \subseteq graph.nodes,
         DOMAIN graph'.edges = DOMAIN graph.edges \ Range(s.gone),
         \A e \in DOMAIN graph'.edges : graph'.edges[e] = graph.edges[e],
         \A e \in DOMAIN graph'.edges, d \in Dirs : End(graph.edges[e], d) \in graph'.nodes,
         UsedNodes' = UsedNodes, Frees(nfrees', NumNodes, graph'.nodes)
  PROVE  Running'
  <1> DEFINE i == s.its.client
             R == Range(s.gone)
             G == DOMAIN graph.edges
  <1>1. /\ idx' = s.idx /\ it' = i /\ efrees' = s.gone \o efrees
        /\ watch' = [watch EXCEPT !.want = {x \in watch.want : x[2] \notin R}]
    BY DEF Now
  <1>2. /\ GraphOK(graph) /\ TableOK(ntable, NumNodes, UsedNodes) /\ NodesOK(ntable, graph.nodes)
        /\ TableOK(etable, NumEdges, UsedEdges) /\ EdgesOK(etable, graph.edges)
        /\ Frees(efrees, NumEdges, G)
        /\ TableTx(ntable, undo.n, UsedNodes, saved.nodes)
        /\ TableTx(etable, undo.e, UsedEdges, DOMAIN saved.edges)
        /\ WatchOK(watch, idx, it) /\ \A x \in watch.seen : x[2] \in UsedEdges
    BY DEF Running, Stored
  <1>3. /\ s.gone \in Seq(EPool) /\ IsInjective(s.gone) /\ R \subseteq G
        /\ IndexOK(s.idx, graph.edges, G \ R)
        /\ Standing(s.idx, i) /\ ~i.dead
        /\ \A c, a : Coming(s.idx, i, c, a) <=> Coming(idx, it, c, a) /\ a \notin R
    BY DEF Leaves
  <1> HIDE DEF i, R
  <1>4. efrees \in Seq(EPool) /\ IsInjective(efrees) /\ G \cap Range(efrees) = {} /\ EPool = 1 .. NumEdges
    BY <1>2, Pools DEF Frees
  <1>5. efrees' \in Seq(EPool) /\ IsInjective(efrees') /\ Range(efrees') = R \cup Range(efrees)
    <2>1. R \cap Range(efrees) = {}
      BY <1>3, <1>4
    <2>2. QED  BY <1>1, <1>3, <1>4, <2>1, FreesConcat DEF R
  <1>6. UsedEdges' = UsedEdges
    BY <1>3, <1>5 DEF UsedEdges, R
  <1>7. Frees(efrees', NumEdges, DOMAIN graph'.edges)
    BY <1>4, <1>5 DEF Frees, R
  <1>8. GraphOK(graph')
    BY <1>2 DEF GraphOK
  <1>9. NodesOK(ntable, graph'.nodes) /\ EdgesOK(etable, graph'.edges)
    BY <1>2 DEF NodesOK, EdgesOK
  <1>10. IndexOK(s.idx, graph'.edges, DOMAIN graph'.edges)
    <2>1. DOMAIN graph'.edges = G \ R
      BY DEF R
    <2>2. Shape(s.idx)
      BY <1>3 DEF IndexOK
    <2>3. \A n \in NPool, d \in Dirs : \A t, e :
            e \in Listed(s.idx, n, d, t) <=> e \in G \ R /\ graph.edges[e].tag = t /\ End(graph.edges[e], d) = n
      BY <1>3 DEF IndexOK
    <2>4. \A n \in NPool, d \in Dirs : \A t, e :
            e \in Listed(s.idx, n, d, t) <=>
              e \in DOMAIN graph'.edges /\ graph'.edges[e].tag = t /\ End(graph'.edges[e], d) = n
      BY <2>1, <2>3
    <2>5. QED  BY <2>2, <2>4 DEF IndexOK
  <1>11. Stored(ntable', etable', idx', graph', UsedNodes', UsedEdges')
    BY <1>1, <1>2, <1>6, <1>8, <1>9, <1>10 DEF Stored
  <1>12. /\ watch'.want = {x \in watch.want : x[2] \notin R} /\ watch'.seen = watch.seen
    BY <1>1 DEF Memory
  <1>13. WatchOK(watch', idx', it')
    <2>1. watch'.want \subseteq Dirs \X EPool
      BY <1>2, <1>12 DEF WatchOK
    <2>2. \A x \in watch'.seen : ~Coming(s.idx, i, x[1], x[2])
      BY <1>2, <1>3, <1>12 DEF WatchOK
    <2>3. \A x \in watch'.want : x \in watch'.seen \/ Coming(s.idx, i, x[1], x[2])
      BY <1>2, <1>3, <1>12 DEF WatchOK
    <2>4. QED  BY <1>1, <2>1, <2>2, <2>3 DEF WatchOK
  <1>14. \A x \in watch'.seen : x[2] \in UsedEdges'
    BY <1>2, <1>6, <1>12
  <1>15. QED  BY <1>1, <1>2, <1>3, <1>6, <1>7, <1>11, <1>13, <1>14 DEF Running

\* The graph without some of its edges.
LEMMA WithoutFactsEdges ==
  ASSUME GraphOK(graph), NEW S
  PROVE  LET g == WithoutEdges(S)
         IN /\ DOMAIN g = {"nodes", "edges"} /\ g.nodes = graph.nodes
            /\ DOMAIN g.edges = DOMAIN graph.edges \ S
            /\ \A e \in DOMAIN g.edges : g.edges[e] = graph.edges[e]
  <1> DEFINE f == [x \in DOMAIN graph.edges \ S |-> graph.edges[x]]
  <1>1. WithoutEdges(S) = [graph EXCEPT !.edges = f]
    BY DEF WithoutEdges
  <1>2. DOMAIN f = DOMAIN graph.edges \ S /\ \A e \in DOMAIN f : f[e] = graph.edges[e]
    OBVIOUS
  <1> HIDE DEF f
  <1>3. QED  BY <1>1, <1>2 DEF GraphOK

\* A removal that throws leaves indices that are well formed.
LEMMA HalfFacts ==
  ASSUME NEW s, View(s), NEW F, NEW e \in F, F \subseteq DOMAIN graph.edges,
         IndexOK(s.idx, graph.edges, F), EdgesOK(etable, graph.edges),
         graph.edges[e] \in EdgeRecord, NEW h \in HalfRemoved(s, e)
  PROVE  Shape(h.idx)
  <1> DEFINE p == remove_from(s, Source(e), "out", e)
             r == remove_edge_from(s, e)
  <1>1. View(r) /\ Shape(p.idx)
    BY RemoveEdgeFacts
  <1> HIDE DEF p, r
  <1>2. [r EXCEPT !.gone = s.gone].idx = r.idx
    BY <1>1 DEF View
  <1>3. h = p \/ h = [r EXCEPT !.gone = s.gone]
    BY DEF HalfRemoved, p, r
  <1>4. QED  BY <1>1, <1>2, <1>3 DEF View

\* remove() of an edge preserves the invariant, whether or not it fails halfway.
LEMMA RemoveEdgeInv ==
  ASSUME GraphInv, remove_edge
  PROVE  GraphInv'
  <1> DEFINE s == [idx |-> idx, its |-> [client |-> it], gone |-> <<>>]
  <1>1. PICK e \in DOMAIN graph.edges :
          LET r == remove_edge_from(s, e)
          IN /\ Change
             /\ \/ /\ Now(r) /\ pc' = IF Died(r) THEN "dead" ELSE pc
                   /\ graph' = WithoutEdges({e})
                \/ /\ \E h \in HalfRemoved(s, e) : Now(h) /\ pc' = IF Died(h) THEN "dead" ELSE "failed"
                   /\ UNCHANGED graph
             /\ UNCHANGED <<ntable, etable, lost, nfrees, saved, harmed>>
    BY DEF remove_edge
  <1> DEFINE r == remove_edge_from(s, e)
             G == DOMAIN graph.edges
  <1>2. /\ pc = "run"
        /\ ntable' = ntable /\ etable' = etable /\ lost' = lost /\ nfrees' = nfrees /\ saved' = saved
        /\ \/ Now(r) /\ pc' = (IF Died(r) THEN "dead" ELSE "run") /\ graph' = WithoutEdges({e})
           \/ \E h \in HalfRemoved(s, e) : Now(h) /\ pc' \in {"dead", "failed"}
    BY <1>1 DEF Change
  <1>3. Memory /\ Recoverable /\ Running
    BY <1>2 DEF GraphInv
  <1>4. /\ GraphOK(graph) /\ EdgesOK(etable, graph.edges) /\ IndexOK(idx, graph.edges, G)
        /\ Shape(idx) /\ Standing(idx, it) /\ ~it.dead /\ Frees(nfrees, NumNodes, graph.nodes)
    BY <1>3 DEF Running, Stored, IndexOK
  <1>5. /\ DOMAIN s = {"idx", "its", "gone"} /\ s.idx = idx /\ s.gone = <<>>
        /\ DOMAIN s.its = {"client"} /\ s.its.client = it
    OBVIOUS
  <1> HIDE DEF s, r
  <1>6. View(s)
    BY <1>4, <1>5 DEF View
  <1>7. graph.edges[e] \in EdgeRecord /\ e \in EPool
    BY <1>4 DEF GraphOK
  <1>8. /\ View(r) /\ r.gone = <<e>> \o <<>> /\ DOMAIN r.its = {"client"}
        /\ IndexOK(r.idx, graph.edges, G \ {e}) /\ Passes(idx, it, r.idx, r.its.client, e)
        /\ \A h \in HalfRemoved(s, e) : Shape(h.idx)
    <2>1. IndexOK(s.idx, graph.edges, G) /\ G \subseteq DOMAIN graph.edges
      BY <1>4, <1>5
    <2>2. /\ View(r) /\ r.gone = <<e>> \o s.gone /\ DOMAIN r.its = DOMAIN s.its
          /\ IndexOK(r.idx, graph.edges, G \ {e})
          /\ \A k \in DOMAIN s.its : Passes(s.idx, s.its[k], r.idx, r.its[k], e)
      BY <1>4, <1>6, <1>7, <2>1, RemoveEdgeFacts DEF r
    <2>3. \A h \in HalfRemoved(s, e) : Shape(h.idx)
      BY <1>4, <1>6, <1>7, <2>1, HalfFacts
    <2>4. QED  BY <1>5, <2>2, <2>3
  <1>10. CASE \E h \in HalfRemoved(s, e) : Now(h) /\ pc' \in {"dead", "failed"}
    <2>1. PICK h \in HalfRemoved(s, e) : Now(h) /\ pc' \in {"dead", "failed"}
      BY <1>10
    <2>2. pc' \in States /\ Shape(h.idx)
      BY <1>8, <2>1 DEF States
    <2>3. Memory' /\ Recoverable'
      BY <1>2, <1>3, <1>4, <2>1, <2>2, RemovalRecoverable
    <2>4. QED  BY <2>1, <2>3 DEF GraphInv
  <1>11. CASE Now(r) /\ pc' = (IF Died(r) THEN "dead" ELSE "run") /\ graph' = WithoutEdges({e})
    <2>1. pc' \in States /\ Shape(r.idx)
      BY <1>8, <1>11 DEF States, View
    <2>2. Memory' /\ Recoverable' /\ undo'.n = undo.n /\ undo'.e = undo.e
      BY <1>2, <1>3, <1>4, <1>11, <2>1, RemovalRecoverable
    <2>3. CASE Died(r)
      BY <1>11, <2>2, <2>3 DEF GraphInv
    <2>4. CASE ~Died(r)
      <3>1. ~r.its.client.dead /\ Standing(r.idx, r.its.client)
        BY <1>8, <2>4 DEF Died, View
      <3>2. r.gone \in Seq(EPool) /\ IsInjective(r.gone) /\ Range(r.gone) = {e}
        <4>1. <<>> \in Seq(EPool) /\ IsInjective(<<>>) /\ Range(<<>>) = {}
          BY DEF IsInjective, Range
        <4>2. <<e>> \o <<>> \in Seq(EPool) /\ Range(<<e>> \o <<>>) = {e} \cup Range(<<>>)
          BY <1>7, <4>1, ConsSeq
        <4>3. e \notin Range(<<>>)
          BY <4>1
        <4>4. IsInjective(<<e>> \o <<>>)
          BY <1>7, <4>1, <4>3, ConsOrder
        <4>5. QED  BY <1>8, <4>1, <4>2, <4>4, Zenon
      <3>3. \A c, a : Coming(r.idx, r.its.client, c, a) <=> Coming(idx, it, c, a) /\ a # e
        BY <1>8, <3>1 DEF Passes
      <3>4. Leaves(r, r.its.client)
        BY <1>8, <3>1, <3>2, <3>3 DEF Leaves
      <3>5. /\ DOMAIN graph' = {"nodes", "edges"} /\ graph'.nodes = graph.nodes
            /\ DOMAIN graph'.edges = G \ {e} /\ \A x \in DOMAIN graph'.edges : graph'.edges[x] = graph.edges[x]
        BY <1>4, <1>11, WithoutFactsEdges
      <3>6. \A x \in DOMAIN graph'.edges, d \in Dirs : End(graph.edges[x], d) \in graph'.nodes
        BY <1>4, <3>5 DEF GraphOK
      <3>7. UsedNodes' = UsedNodes /\ Frees(nfrees', NumNodes, graph'.nodes)
        BY <1>2, <1>4, <3>5 DEF UsedNodes
      <3>8. DOMAIN graph'.edges = DOMAIN graph.edges \ Range(r.gone) /\ graph'.nodes \subseteq graph.nodes
        BY <3>2, <3>5
      <3>9. Running'
        BY <1>2, <1>3, <1>11, <2>2, <3>4, <3>5, <3>6, <3>7, <3>8, RemovalRunning
      <3>10. QED  BY <1>11, <2>2, <2>4, <3>9 DEF GraphInv
    <2>5. QED  BY <2>3, <2>4
  <1>12. QED  BY <1>2, <1>10, <1>11

\* remove() of a node preserves the invariant, however far its loop gets.
LEMMA RemoveNodeInv ==
  ASSUME GraphInv, remove_node
  PROVE  GraphInv'
  <1>1. PICK n \in graph.nodes, k \in 0 .. 2 * NumEdges :
          LET s == Process(n)[k]
              half == IF Ended(s) THEN {} ELSE HalfRemoved(s, s.its.inner.pos)
          IN /\ Change
             /\ \/ /\ Ended(s) /\ ~Died(s)
                   /\ Now(s) /\ nfrees' = <<n>> \o nfrees
                   /\ graph' = [WithoutEdges(Range(s.gone)) EXCEPT !.nodes = @ \ {n}]
                   /\ UNCHANGED pc
                \/ /\ \E h \in {s} \cup half : Now(h) /\ pc' = IF Died(h) THEN "dead" ELSE "failed"
                   /\ graph' = WithoutEdges(Range(s.gone))
                   /\ UNCHANGED nfrees
             /\ UNCHANGED <<ntable, etable, lost, saved, harmed>>
    BY DEF remove_node
  <1> DEFINE s == Process(n)[k]
             half == IF Ended(s) THEN {} ELSE HalfRemoved(s, s.its.inner.pos)
             done == Ended(s) /\ ~Died(s)
             g == WithoutEdges(Range(s.gone))
             G == DOMAIN graph.edges
  <1>2. /\ pc = "run" /\ ntable' = ntable /\ etable' = etable /\ lost' = lost /\ saved' = saved
        /\ \/ /\ done /\ Now(s) /\ pc' = "run"
              /\ nfrees' = <<n>> \o nfrees /\ graph' = [g EXCEPT !.nodes = g.nodes \ {n}]
           \/ \E h \in {s} \cup half : Now(h) /\ pc' \in {"dead", "failed"}
    BY <1>1 DEF Change
  <1>3. Memory /\ Recoverable /\ Running
    BY <1>2 DEF GraphInv
  <1>4. /\ GraphOK(graph) /\ EdgesOK(etable, graph.edges) /\ IndexOK(idx, graph.edges, G)
        /\ Shape(idx) /\ Standing(idx, it) /\ ~it.dead /\ Frees(nfrees, NumNodes, graph.nodes)
    BY <1>3 DEF Running, Stored, IndexOK
  <1>5. GraphNow /\ n \in NPool /\ NPool = 1 .. NumNodes
    BY <1>4, Pools DEF GraphNow, GraphOK
  <1>6. LoopOK(n, s)
    BY <1>4, <1>5, ProcessFacts
  <1>7. /\ DOMAIN g = {"nodes", "edges"} /\ g.nodes = graph.nodes
        /\ DOMAIN g.edges = G \ Range(s.gone)
        /\ \A e \in DOMAIN g.edges : g.edges[e] = graph.edges[e]
    BY <1>4, WithoutFactsEdges
  <1> HIDE DEF s, g
  <1>8. /\ View(s) /\ DOMAIN s.its = {"client", "inner"}
        /\ s.gone \in Seq(EPool) /\ IsInjective(s.gone) /\ Range(s.gone) \subseteq G
        /\ IndexOK(s.idx, graph.edges, G \ Range(s.gone)) /\ ~s.its.inner.vacant
    BY <1>6 DEF LoopOK
  <1>9. Shape(s.idx)
    BY <1>8 DEF View
  <1>10. ASSUME NEW h \in half PROVE Shape(h.idx)
    <2> DEFINE e == s.its.inner.pos
               F == G \ Range(s.gone)
    <2>1. ~Ended(s) /\ h \in HalfRemoved(s, e)
      BY <1>10
    <2>2. s.its.inner.pos # Null /\ Standing(s.idx, s.its.inner)
      BY <1>8, <2>1 DEF Ended, More, View
    <2>3. /\ s.its.inner.node \in NPool /\ s.its.inner.dir \in Dirs
          /\ e \in Listed(s.idx, s.its.inner.node, s.its.inner.dir, s.its.inner.tag)
      BY <2>2 DEF Standing, Iterator
    <2>4. e \in F
      BY <1>8, <2>3 DEF IndexOK
    <2>5. graph.edges[e] \in EdgeRecord
      BY <1>4, <2>4 DEF GraphOK
    <2> HIDE DEF e, F
    <2>6. F \subseteq DOMAIN graph.edges /\ IndexOK(s.idx, graph.edges, F)
      BY <1>8 DEF F
    <2>7. QED  BY <1>4, <1>8, <2>1, <2>4, <2>5, <2>6, HalfFacts
  <1> HIDE DEF half
  <1>11. CASE \E h \in {s} \cup half : Now(h) /\ pc' \in {"dead", "failed"}
    <2>1. PICK h \in {s} \cup half : Now(h) /\ pc' \in {"dead", "failed"}
      BY <1>11
    <2>2. pc' \in States /\ Shape(h.idx)
      BY <1>9, <1>10, <2>1 DEF States
    <2>3. Memory' /\ Recoverable'
      BY <1>2, <1>3, <1>4, <2>1, <2>2, RemovalRecoverable
    <2>4. QED  BY <2>1, <2>3 DEF GraphInv
  <1>12. CASE /\ done /\ Now(s) /\ pc' = "run"
              /\ nfrees' = <<n>> \o nfrees /\ graph' = [g EXCEPT !.nodes = g.nodes \ {n}]
    <2> pc' \in States
      BY <1>12 DEF States
    <2>0. Memory' /\ Recoverable' /\ undo'.n = undo.n /\ undo'.e = undo.e
      BY <1>2, <1>3, <1>4, <1>9, <1>12, RemovalRecoverable
    <2>1. ~s.its.client.dead /\ ~s.its.inner.dead /\ s.its.inner.pos = Null /\ Standing(s.idx, s.its.client)
      BY <1>8, <1>12 DEF Ended, Died, More, View
    <2>2. \A d \in Dirs : \A t, e : e \notin Listed(s.idx, n, d, t)
      BY <1>6, <2>1 DEF LoopOK
    <2>3. Leaves(s, s.its.client)
      BY <1>6, <1>8, <2>1 DEF Leaves, LoopOK
    <2>4. nfrees' = <<n>> \o nfrees /\ graph' = [g EXCEPT !.nodes = g.nodes \ {n}]
      BY <1>12
    <2>5. /\ DOMAIN graph' = {"nodes", "edges"} /\ graph'.nodes = graph.nodes \ {n}
          /\ DOMAIN graph'.edges = G \ Range(s.gone) /\ \A e \in DOMAIN graph'.edges : graph'.edges[e] = graph.edges[e]
      BY <1>7, <2>4
    <2>6. ASSUME NEW e \in DOMAIN graph'.edges, NEW d \in Dirs PROVE End(graph.edges[e], d) \in graph'.nodes
      <3>1. e \in G \ Range(s.gone) /\ End(graph.edges[e], d) \in graph.nodes
        BY <1>4, <2>5 DEF GraphOK
      <3>2. End(graph.edges[e], d) # n
        <4>1. e \in Listed(s.idx, n, d, graph.edges[e].tag) <=>
                e \in G \ Range(s.gone) /\ End(graph.edges[e], d) = n
          BY <1>5, <1>8 DEF IndexOK
        <4>2. QED  BY <2>2, <3>1, <4>1
      <3>3. QED  BY <2>5, <3>1, <3>2
    <2>7. /\ nfrees' \in Seq(1 .. NumNodes) /\ IsInjective(nfrees') /\ Range(nfrees') = {n} \cup Range(nfrees)
      <3>1. nfrees \in Seq(1 .. NumNodes) /\ IsInjective(nfrees) /\ graph.nodes \cap Range(nfrees) = {}
        BY <1>4 DEF Frees
      <3>2. n \notin Range(nfrees) /\ n \in 1 .. NumNodes
        BY <1>5, <3>1
      <3>3. QED  BY <2>4, <3>1, <3>2, ConsSeq, ConsOrder
    <2>8. UsedNodes' = UsedNodes
      BY <2>5, <2>7 DEF UsedNodes
    <2>9. Frees(nfrees', NumNodes, graph'.nodes)
      BY <1>4, <2>5, <2>7 DEF Frees
    <2>10. graph'.nodes \subseteq graph.nodes
      BY <2>5
    <2>11. Running'
      BY <1>2, <1>3, <1>12, <2>0, <2>3, <2>5, <2>6, <2>8, <2>9, <2>10, RemovalRunning
    <2>12. QED  BY <1>12, <2>0, <2>11 DEF GraphInv
  <1>13. QED  BY <1>2, <1>11, <1>12

-----------------------------------------------------------------------------
(***************************************************************************)
(* The theorems.                                                           *)
(***************************************************************************)
LEMMA GraphStep ==
  ASSUME GraphInv, [Next]_vars, ~harmed'
  PROVE  GraphInv'
  <1>1. CASE begin            BY <1>1, BeginInv
  <1>2. CASE add_node         BY <1>2, AddNodeInv
  <1>3. CASE add_edge         BY <1>3, AddEdgeInv
  <1>4. CASE remove_node      BY <1>4, RemoveNodeInv
  <1>5. CASE remove_edge      BY <1>5, RemoveEdgeInv
  <1>6. CASE open_iterator    BY <1>6, OpenInv
  <1>7. CASE step_iterator    BY <1>7, StepInv
  <1>8. CASE finalize_commit  BY <1>8, FinalizeInv
  <1>9. CASE commit           BY <1>9, CommitInv
  <1>10. CASE abort           BY <1>10, AbortInv
  <1>11. CASE restart         BY <1>11, RestartInv
  <1>12. CASE UNCHANGED vars
    BY <1>12 DEF vars, dvars, GraphInv, Memory, Recoverable, Idle, Running, Committing, UsedNodes, UsedEdges,
                 LinkedNew, Linked
  <1>13. QED
    BY <1>1, <1>2, <1>3, <1>4, <1>5, <1>6, <1>7, <1>8, <1>9, <1>10, <1>11, <1>12 DEF Next

\* Harm is found at the end of a transaction, and no other one begins after it.
Harmed == pc \in {"idle", "commit"} /\ ~watch.twice

LEMMA HarmedStep ==
  ASSUME ~harmed => GraphInv, harmed => Harmed, [Next]_vars, harmed'
  PROVE  Harmed'
  <1>1. ~watch.twice
    BY DEF GraphInv, Memory, Harmed
  <1>2. CASE UNCHANGED vars
    BY <1>2 DEF vars, Harmed
  <1>3. CASE begin \/ add_node \/ add_edge \/ remove_node \/ remove_edge \/ open_iterator \/ step_iterator
    <2>1. harmed' = harmed /\ (pc = "run" \/ ~harmed)
      BY <1>3 DEF begin, add_node, add_edge, remove_node, remove_edge, open_iterator, step_iterator, Change
    <2>2. QED  BY <2>1 DEF Harmed
  <1>4. CASE finalize_commit
    BY <1>1, <1>4 DEF finalize_commit, Harmed
  <1>5. CASE commit \/ abort \/ restart
    <2>1. Done
      BY <1>5 DEF commit, abort, restart
    <2>2. QED  BY <2>1 DEF Done, NoWatch, Harmed
  <1>6. QED  BY <1>2, <1>3, <1>4, <1>5 DEF Next

\* In any sequence of transactions that add and remove nodes and edges, fail half
\* way, abort, commit, fail to commit or are ended by a restart or a power
\* failure, the invariant holds for as long as no unlogged word of an older object
\* was lost (the holes at FixedAllocator::clean_free_list and Node::init) and no
\* change was committed half done: a rollback would bring back the committed graph.
THEOREM GraphInvariance ==
  Spec => []((~harmed => GraphInv) /\ (harmed => Harmed))
  <1> DEFINE I == (~harmed => GraphInv) /\ (harmed => Harmed)
  <1>1. Init => I
    BY InitInv DEF Init
  <1>2. I /\ [Next]_vars => I'
    <2>1. SUFFICES ASSUME I, [Next]_vars PROVE I'
      OBVIOUS
    <2>2. ~harmed' => ~harmed
      BY <2>1 DEF Next, vars, begin, add_node, add_edge, remove_node, remove_edge, open_iterator,
                  step_iterator, finalize_commit, commit, abort, restart
    <2>3. ~harmed' => GraphInv'
      BY <2>1, <2>2, GraphStep
    <2>4. harmed' => Harmed'
      BY <2>1, HarmedStep
    <2>5. QED  BY <2>3, <2>4
  <1>3. QED  BY <1>1, <1>2, PTL DEF Spec

\* Between transactions the node and edge tables hold exactly the committed
\* objects, their first words intact and every other object free once
\* (FixedAllocator::alloc, clean_free_list; Node::init, Edge::init).
THEOREM TablesHoldCommitted ==
  Spec => []TablesMatch
  <1>1. (~harmed => GraphInv) => TablesMatch
    <2>1. SUFFICES ASSUME GraphInv, pc = "idle"
                   PROVE  /\ TableMatches(ntable, saved.nodes) /\ TableMatches(etable, DOMAIN saved.edges)
                          /\ \A n \in saved.nodes : ntable[NT!Word(n)] = NT!Data(n)
                          /\ \A e \in DOMAIN saved.edges :
                                /\ etable[ET!Word(e)] = ET!Data(saved.edges[e].src)
                                /\ etable[Rest(e)] = [dest |-> saved.edges[e].dest, tag |-> saved.edges[e].tag]
      BY DEF TablesMatch, TablesHold
    <2>2. graph = saved /\ Stored(ntable, etable, idx, graph, graph.nodes, DOMAIN graph.edges)
      BY <2>1 DEF GraphInv, Idle
    <2>3. TableMatches(ntable, saved.nodes) /\ TableMatches(etable, DOMAIN saved.edges)
      BY <2>2 DEF Stored, TableOK
    <2>4. NodesOK(ntable, saved.nodes) /\ EdgesOK(etable, saved.edges)
      BY <2>2 DEF Stored
    <2>5. QED  BY <2>3, <2>4 DEF NodesOK, EdgesOK, W
  <1>2. QED  BY <1>1, GraphInvariance, PTL

\* The number of elements of a list without repetitions.
LEMMA DistinctLen ==
  ASSUME NEW S, NEW s \in Seq(S), IsInjective(s)
  PROVE  Cardinality(Range(s)) = Len(s)
  <1>1. Len(s) \in Nat /\ DOMAIN s = 1 .. Len(s)
    BY SeqFacts
  <1>2. s \in Seq(Range(s))
    <2>1. s = [i \in 1 .. Len(s) |-> s[i]]
      BY <1>1, LenProperties
    <2>2. \A i \in 1 .. Len(s) : s[i] \in Range(s)
      BY <1>1 DEF Range
    <2>3. s \in [1 .. Len(s) -> Range(s)]
      BY <2>1, <2>2
    <2>4. QED  BY <1>1, <2>3
  <1>3. QED  BY <1>2, SeqCardinality

\* What is asked for is what is listed.
LEMMA AskedFacts ==
  ASSUME GraphOK(graph), IndexOK(idx, graph.edges, DOMAIN graph.edges), NEW n \in NPool, NEW d \in Dirs
  PROVE  /\ \A t \in Tags : Asked(n, d, t) = {<<d, e>> : e \in Listed(idx, n, d, t)}
         /\ \A y \in Asked(n, d, Null) : \E t \in Range(Keys(idx[n][d])) : y \in Asked(n, d, t)
         /\ \A t \in Tags : Asked(n, d, t) \subseteq Asked(n, d, Null)
  <1>1. d # "any" /\ Null \notin Tags
    BY Pools DEF Dirs
  <1>2. \A y, t : y \in Asked(n, d, t) <=>
          /\ y \in {d} \X DOMAIN graph.edges
          /\ n = (IF y[1] = "in" THEN graph.edges[y[2]].dest ELSE graph.edges[y[2]].src)
          /\ t \in {Null, graph.edges[y[2]].tag}
    BY <1>1 DEF Asked
  <1>3. \A y \in {d} \X DOMAIN graph.edges : y[1] = d /\ y[2] \in DOMAIN graph.edges /\ y = <<y[1], y[2]>>
    OBVIOUS
  <1>4. \A y, t : y \in Asked(n, d, t) <=>
          /\ y \in {d} \X DOMAIN graph.edges /\ y[2] \in Listed(idx, n, d, graph.edges[y[2]].tag)
          /\ t \in {Null, graph.edges[y[2]].tag}
    <2>1. ASSUME NEW y \in {d} \X DOMAIN graph.edges
          PROVE  n = (IF y[1] = "in" THEN graph.edges[y[2]].dest ELSE graph.edges[y[2]].src) <=>
                   y[2] \in Listed(idx, n, d, graph.edges[y[2]].tag)
      <3>1. y[2] \in Listed(idx, n, d, graph.edges[y[2]].tag) <=> End(graph.edges[y[2]], d) = n
        BY <1>3 DEF IndexOK
      <3>2. QED  BY <1>3, <3>1 DEF End
    <2>2. QED  BY <1>2, <2>1
  <1>5. ASSUME NEW t \in Tags PROVE Asked(n, d, t) = {<<d, e>> : e \in Listed(idx, n, d, t)}
    <2>1. ASSUME NEW y \in Asked(n, d, t) PROVE \E e \in Listed(idx, n, d, t) : y = <<d, e>>
      <3>1. y = <<d, y[2]>> /\ y[2] \in Listed(idx, n, d, t)
        BY <1>1, <1>3, <1>4
      <3>2. QED  BY <3>1
    <2>2. ASSUME NEW e \in Listed(idx, n, d, t) PROVE <<d, e>> \in Asked(n, d, t)
      <3>1. e \in DOMAIN graph.edges /\ graph.edges[e].tag = t
        BY DEF IndexOK
      <3>2. <<d, e>> \in {d} \X DOMAIN graph.edges /\ <<d, e>>[2] = e
        BY <3>1
      <3>3. QED  BY <1>4, <3>1, <3>2
    <2>3. QED  BY <2>1, <2>2
  <1>6. ASSUME NEW y \in Asked(n, d, Null) PROVE \E t \in Range(Keys(idx[n][d])) : y \in Asked(n, d, t)
    <2> DEFINE t == graph.edges[y[2]].tag
    <2>1. y[2] \in Listed(idx, n, d, t)
      BY <1>4
    <2>2. WellFormed(idx[n][d])
      BY ShapeFacts DEF IndexOK
    <2>3. t \in Range(Keys(idx[n][d]))
      BY <2>1, <2>2, EdgesFacts DEF Listed
    <2>4. y \in Asked(n, d, t)
      BY <1>4
    <2>5. QED  BY <2>3, <2>4
  <1>7. \A t \in Tags : Asked(n, d, t) \subseteq Asked(n, d, Null)
    BY <1>4
  <1>8. QED  BY <1>5, <1>6, <1>7

\* Whenever a transaction runs, or none does, every edge is once in the index
\* of each of its ends, under its tag, and nothing else is (EdgeIndex::add and
\* remove, Graph::remove, and the rollback of what failed half way).
THEOREM IndicesHoldEdges ==
  Spec => []EdgesIndexed
  <1>1. (~harmed => GraphInv) => EdgesIndexed
    <2>1. SUFFICES ASSUME GraphInv, pc \in {"idle", "run"} PROVE EdgesIndexed
      BY DEF EdgesIndexed
    <2>2. GraphOK(graph) /\ IndexOK(idx, graph.edges, DOMAIN graph.edges)
      BY <2>1 DEF GraphInv, Idle, Running, Stored
    <2>3. ASSUME NEW e \in DOMAIN graph.edges
          PROVE  {graph.edges[e].src, graph.edges[e].dest} \subseteq graph.nodes
      <3>1. End(graph.edges[e], "in") \in graph.nodes /\ End(graph.edges[e], "out") \in graph.nodes
        BY <2>2 DEF GraphOK, Dirs
      <3>2. QED  BY <3>1 DEF End
    <2>4. ASSUME NEW n \in graph.nodes, NEW d \in Dirs
          PROVE  LET x == idx[n][d]
                 IN /\ Cardinality(Range(Keys(x))) = Len(x)
                    /\ \A i \in DOMAIN x :
                         /\ x[i].edges # <<>>
                         /\ Cardinality(Range(x[i].edges)) = Len(x[i].edges)
                         /\ {<<d, e>> : e \in Range(x[i].edges)} = Asked(n, d, x[i].tag)
                    /\ Asked(n, d, Null) = UNION {Asked(n, d, t) : t \in Range(Keys(x))}
      <3> DEFINE x == idx[n][d]
      <3>1. n \in NPool
        BY <2>2 DEF GraphOK
      <3>2. WellFormed(x)
        BY <2>2, <3>1, ShapeFacts DEF IndexOK
      <3>3. /\ \A t \in Tags : Asked(n, d, t) = {<<d, e>> : e \in Range(Edges(x, t))}
            /\ \A y \in Asked(n, d, Null) : \E t \in Range(Keys(x)) : y \in Asked(n, d, t)
            /\ \A t \in Tags : Asked(n, d, t) \subseteq Asked(n, d, Null)
        BY <2>2, <3>1, AskedFacts DEF Listed
      <3> HIDE DEF x
      <3>4. /\ Keys(x) \in Seq(Tags) /\ IsInjective(Keys(x)) /\ Len(Keys(x)) = Len(x)
            /\ \A i \in DOMAIN x : x[i].tag \in Tags /\ x[i].edges \in Seq(EPool)
        BY <3>2, KeysFacts
      <3>5. Cardinality(Range(Keys(x))) = Len(x)
        BY <3>4, DistinctLen
      <3>6. ASSUME NEW i \in DOMAIN x
            PROVE  /\ x[i].edges # <<>>
                   /\ Cardinality(Range(x[i].edges)) = Len(x[i].edges)
                   /\ {<<d, e>> : e \in Range(x[i].edges)} = Asked(n, d, x[i].tag)
        <4>1. x[i].edges # <<>> /\ IsInjective(x[i].edges)
          BY <3>2 DEF WellFormed
        <4>2. Cardinality(Range(x[i].edges)) = Len(x[i].edges)
          BY <3>4, <4>1, DistinctLen
        <4>3. Edges(x, x[i].tag) = x[i].edges
          BY <3>2, BucketFacts
        <4>4. Asked(n, d, x[i].tag) = {<<d, e>> : e \in Range(Edges(x, x[i].tag))}
          BY <3>3, <3>4
        <4>5. QED  BY <4>1, <4>2, <4>3, <4>4
      <3>7. Asked(n, d, Null) = UNION {Asked(n, d, t) : t \in Range(Keys(x))}
        <4>1. Range(Keys(x)) \subseteq Tags
          BY <3>4, SeqFacts
        <4>2. QED  BY <3>3, <4>1
      <3>8. QED  BY <3>5, <3>6, <3>7 DEF x
    <2>5. QED  BY <2>3, <2>4 DEF EdgesIndexed, Dirs
  <1>2. QED  BY <1>1, GraphInvariance, PTL

\* While a transaction runs, its iterator stands on an edge that is listed
\* (Node_EdgeIteratorImpl and the removal callbacks of the transaction).
THEOREM IteratorStands ==
  Spec => []IteratorOnListedEdge
  <1>1. (~harmed => GraphInv) /\ (harmed => Harmed) => IteratorOnListedEdge
    <2>1. SUFFICES ASSUME GraphInv, pc = "run", it.pos # Null
                   PROVE  it.pos \in Range(Edges(idx[it.node][it.dir], it.tag))
      BY DEF IteratorOnListedEdge, Harmed
    <2>2. Standing(idx, it)
      BY <2>1 DEF GraphInv, Running
    <2>3. QED  BY <2>1, <2>2 DEF Standing, Listed
  <1>2. QED  BY <1>1, GraphInvariance, PTL

\* An iterator shows no entry twice and, when it ends, has shown all it was
\* asked for that was not removed meanwhile (next, _next, remove_notify).
THEOREM IteratorShowsAll ==
  Spec => []IteratorComplete
  <1>1. (~harmed => GraphInv) /\ (harmed => Harmed) => IteratorComplete
    <2>1. SUFFICES ASSUME ~harmed => GraphInv, harmed => Harmed PROVE IteratorComplete
      OBVIOUS
    <2>2. ~watch.twice
      BY <2>1 DEF GraphInv, Memory, Harmed
    <2>3. ASSUME pc = "run", ~More(it) PROVE watch.want \subseteq watch.seen
      <3>1. WatchOK(watch, idx, it)
        BY <2>1, <2>3 DEF GraphInv, Running, Harmed
      <3>2. \A c, a : ~Coming(idx, it, c, a)
        BY <2>3 DEF More, Coming
      <3>3. QED  BY <3>1, <3>2 DEF WatchOK
    <2>4. QED  BY <2>2, <2>3 DEF IteratorComplete
  <1>2. QED  BY <1>1, GraphInvariance, PTL
=============================================================================
