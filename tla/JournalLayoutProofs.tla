------------------------ MODULE JournalLayoutProofs ------------------------
(***************************************************************************)
(* The journal's bytes for every entry size, line size, extent, address    *)
(* and length: log() saves exactly what it was asked to save and stays in  *)
(* its extent, and flush_range covers its range at any alignment.          *)
(***************************************************************************)
EXTENDS JournalLayout, Integers, SequenceTheorems, TLAPS

Entry == [addr : Nat, len : Nat]

\* Where the range that log() is saving begins.
Start == ptr - JE_MAX_LEN * (je_entries(len) - 1 - left)

\* In the loop of log(): the turns left fit the extent, and what has been saved
\* of this call is the range up to ptr.
Looping ==
  pc = "log" =>
    /\ len \in Nat \ {0} /\ left <= je_entries(len) - 1
    /\ Start \in Nat
    /\ Saved = promised \cup Bytes(Start, ptr - Start)
    /\ Len(entries) + left + 1 < EXTENT

\* The inductive invariant.
LayoutInv == TypeOK /\ nolog \subseteq Nat /\ Looping /\ LogCoversRange /\ NologFlushed

(***************************************************************************)
(* Arithmetic.                                                             *)
(***************************************************************************)
LEMMA Division ==
  ASSUME NEW n \in Nat, NEW d \in Nat \ {0}
  PROVE  /\ n \div d \in Nat /\ n % d \in 0 .. (d - 1)
         /\ n = d * (n \div d) + (n % d)
         /\ (n + d) \div d = (n \div d) + 1
  BY SMT

LEMMA Multiples ==
  ASSUME NEW a \in Nat, NEW b \in Nat, NEW d \in Nat \ {0}
  PROVE  /\ d * a \in Nat /\ d * (a + b) = d * a + d * b
         /\ a <= b => d * a <= d * b
  BY SMT

LEMMA Quotient ==
  ASSUME NEW a \in Nat, NEW r \in Nat, NEW d \in Nat \ {0}
  PROVE  (d * a + r) \div d = a + (r \div d)
  BY SMT

LEMMA QuotientMonotone ==
  ASSUME NEW a \in Nat, NEW b \in Nat, NEW d \in Nat \ {0}, a <= b
  PROVE  a \div d <= b \div d
  BY SMT

\* je_entries(n) - 1 full entries and one for the rest hold n bytes.
LEMMA Entries ==
  ASSUME NEW n \in Nat
  PROVE  /\ je_entries(n) \in Nat /\ je_entries(n) - 1 \in Nat
         /\ n % JE_MAX_LEN \in 0 .. (JE_MAX_LEN - 1)
         /\ n = JE_MAX_LEN * (je_entries(n) - 1) + (n % JE_MAX_LEN)
  <1> DEFINE q == n \div JE_MAX_LEN
             r == n % JE_MAX_LEN
  <1>1. JE_MAX_LEN \in Nat \ {0}
    BY LayoutAssumption
  <1>2. /\ q \in Nat /\ r \in 0 .. (JE_MAX_LEN - 1) /\ n = JE_MAX_LEN * q + r
        /\ (n + JE_MAX_LEN) \div JE_MAX_LEN = q + 1
    BY <1>1, Division, Zenon
  <1>3. je_entries(n) = q + 1
    BY <1>2 DEF je_entries
  <1> HIDE DEF q, r
  <1>4. je_entries(n) - 1 = q
    BY <1>2, <1>3
  <1>5. QED  BY <1>2, <1>3, <1>4 DEF r

\* Two ranges that meet are one.
LEMMA Joined ==
  ASSUME NEW p \in Nat, NEW m \in Nat, NEW n \in Nat
  PROVE  Bytes(p, m) \cup Bytes(p + m, n) = Bytes(p, m + n)
  BY DEF Bytes

LEMMA ByteRange ==
  ASSUME NEW p \in Nat, NEW n \in Nat
  PROVE  Bytes(p, n) \subseteq Nat /\ Bytes(p, 0) = {}
  <1>1. Bytes(p, n) \subseteq Nat
    BY DEF Bytes
  <1>2. \A b : b \notin p .. (p + 0 - 1)
    OBVIOUS
  <1>3. QED  BY <1>1, <1>2 DEF Bytes

\* An entry adds its bytes to what a rollback restores.
LEMMA SavedAppend ==
  ASSUME entries \in Seq(Entry), NEW e \in Entry, entries' = Append(entries, e)
  PROVE  /\ entries' \in Seq(Entry) /\ Len(entries') = Len(entries) + 1
         /\ Saved' = Saved \cup Bytes(e.addr, e.len)
         /\ \A k \in 1 .. Len(entries') : entries'[k] = e \/ \E j \in 1 .. Len(entries) :
              entries'[k] = entries[j]
  <1>1. /\ entries' \in Seq(Entry) /\ Len(entries') = Len(entries) + 1
        /\ entries'[Len(entries) + 1] = e
        /\ \A k \in 1 .. Len(entries) : entries'[k] = entries[k]
        /\ Len(entries) \in Nat
    BY AppendProperties, LenProperties
  <1>2. 1 .. Len(entries') = (1 .. Len(entries)) \cup {Len(entries) + 1}
    BY <1>1
  <1>3. Saved' = Saved \cup Bytes(e.addr, e.len)
    <2>1. \A b : b \in Saved' <=> \E k \in 1 .. Len(entries') :
                                    b \in Bytes(entries'[k].addr, entries'[k].len)
      BY DEF Saved
    <2>2. \A b : b \in Saved <=> \E k \in 1 .. Len(entries) :
                                   b \in Bytes(entries[k].addr, entries[k].len)
      BY DEF Saved
    <2>3. \A b : b \in Saved' <=> b \in Saved \/ b \in Bytes(e.addr, e.len)
      BY <1>1, <1>2, <2>1, <2>2
    <2>4. QED  BY <2>3
  <1>4. QED  BY <1>1, <1>2, <1>3

(***************************************************************************)
(* The steps.                                                              *)
(***************************************************************************)
\* log() begins, or throws because the entries do not fit.
LEMMA LogStep ==
  ASSUME LayoutInv, NEW p \in Nat, NEW n \in Nat \ {0}, NEW dst, log(p, n, dst)
  PROVE  LayoutInv'
  <1> USE LayoutAssumption DEF LayoutInv
  <1>1. je_entries(n) \in Nat /\ je_entries(n) - 1 \in Nat /\ JE_MAX_LEN * 0 = 0
    BY Entries
  <1>2. /\ entries' = entries /\ promised' = promised /\ nolog' = nolog
        /\ flushed' = flushed /\ Saved' = Saved /\ calls' = calls + 1 /\ calls < MaxCalls
        /\ pc = "run"
    BY DEF log, Saved
  <1>3. TypeOK' /\ NologFlushed'
    <2>1. pc' \in {"run", "log", "committed", "aborted"}
      BY DEF log
    <2>2. ptr' \in Nat /\ len' \in Nat /\ left' \in Nat
      BY <1>1 DEF log, TypeOK
    <2>3. calls' \in 0 .. MaxCalls
      BY <1>2 DEF TypeOK
    <2>4. NologFlushed'
      BY <1>2 DEF NologFlushed, LinesOf
    <2>5. QED  BY <1>2, <2>1, <2>2, <2>3, <2>4 DEF TypeOK
  <1>4. Looping'
    <2>1. SUFFICES ASSUME pc' = "log" PROVE Looping'
      BY DEF Looping
    <2>2. /\ ptr' = p /\ len' = n /\ left' = je_entries(n) - 1
          /\ ~(Len(entries) + je_entries(n) >= EXTENT)
      BY <2>1 DEF log
    <2>3. Len(entries) \in Nat
      BY LenProperties DEF TypeOK
    <2>4. Start' = p
      BY <1>1, <2>2 DEF Start
    <2>5. Saved = promised
      BY <1>2 DEF LogCoversRange
    <2>6. Bytes(p, p - p) = {}
      BY ByteRange
    <2>7. Len(entries') + left' + 1 < EXTENT
      BY <1>1, <1>2, <2>2, <2>3
    <2>8. left' <= je_entries(len') - 1
      BY <1>1, <2>2
    <2>9. je_entries(len)' = je_entries(n)
      BY <2>2 DEF je_entries
    <2>10. Saved' = promised' \cup Bytes(Start', ptr' - Start')
      BY <1>2, <2>2, <2>4, <2>5, <2>6
    <2>11. QED  BY <2>2, <2>4, <2>7, <2>8, <2>10 DEF Looping
  <1>5. LogCoversRange'
    BY <1>2 DEF LogCoversRange
  <1>6. QED  BY <1>2, <1>3, <1>4, <1>5

\* A full entry: the range saved grows by JE_MAX_LEN bytes.
LEMMA FullStep ==
  ASSUME LayoutInv, log_je_full
  PROVE  LayoutInv'
  <1> USE LayoutAssumption DEF LayoutInv
  <1> DEFINE e == [addr |-> ptr, len |-> JE_MAX_LEN]
  <1>1. /\ pc = "log" /\ left > 0 /\ entries' = Append(entries, e)
        /\ ptr' = ptr + JE_MAX_LEN /\ left' = left - 1
        /\ UNCHANGED <<pc, len, promised, nolog, flushed, calls>>
    BY DEF log_je_full
  <1>2. e \in Entry /\ entries \in Seq(Entry) /\ Len(entries) \in Nat
    BY LenProperties DEF TypeOK, Entry
  <1>3. /\ entries' \in Seq(Entry) /\ Len(entries') = Len(entries) + 1
        /\ Saved' = Saved \cup Bytes(ptr, JE_MAX_LEN)
        /\ \A k \in 1 .. Len(entries') : entries'[k] = e \/ \E j \in 1 .. Len(entries) :
             entries'[k] = entries[j]
    BY <1>1, <1>2, SavedAppend
  <1>4. TypeOK' /\ NologFlushed' /\ nolog' \subseteq Nat
    BY <1>1, <1>3 DEF TypeOK, NologFlushed, LinesOf, Line, Entry
  <1>5. Start' = Start /\ Start \in Nat /\ ptr - Start \in Nat
    <2> DEFINE q == je_entries(len) - 1 - left
    <2>1. /\ len \in Nat /\ je_entries(len)' = je_entries(len) /\ je_entries(len) \in Nat
      BY <1>1, Entries DEF TypeOK, je_entries
    <2>2. q \in Nat /\ je_entries(len)' - 1 - left' = q + 1
      BY <1>1, <2>1 DEF TypeOK, Looping
    <2>3. JE_MAX_LEN * (q + 1) = JE_MAX_LEN * q + JE_MAX_LEN /\ JE_MAX_LEN * q \in Nat
      <3> HIDE DEF q
      <3>1. QED  BY <2>2, SMT
    <2>4. Start = ptr - JE_MAX_LEN * q
      BY DEF Start
    <2>5. Start' = ptr + JE_MAX_LEN - JE_MAX_LEN * (q + 1)
      <3>1. Start' = ptr' - JE_MAX_LEN * (je_entries(len)' - 1 - left')
        BY DEF Start
      <3>2. je_entries(len)' - 1 - left' = q + 1 /\ ptr' = ptr + JE_MAX_LEN
        BY <1>1, <2>2
      <3> HIDE DEF q
      <3>3. QED  BY <1>4, <2>1, <2>2, <3>1, <3>2 DEF TypeOK
    <2>6. Start \in Nat
      BY <1>1 DEF Looping
    <2> HIDE DEF q
    <2>7. QED  BY <2>3, <2>4, <2>5, <2>6 DEF TypeOK
  <1>6. Bytes(Start, ptr - Start) \cup Bytes(ptr, JE_MAX_LEN)
          = Bytes(Start, ptr + JE_MAX_LEN - Start)
    <2>1. /\ Start + (ptr - Start) = ptr
          /\ (ptr - Start) + JE_MAX_LEN = ptr + JE_MAX_LEN - Start
      BY <1>5 DEF TypeOK
    <2>2. QED  BY <1>5, <2>1, Joined
  <1>7. Looping'
    <2>1. /\ len' \in Nat \ {0} /\ left' <= je_entries(len)' - 1
          /\ Len(entries') + left' + 1 < EXTENT
      <3>1. /\ len' = len /\ len \in Nat \ {0} /\ left' = left - 1 /\ left \in Nat
            /\ left <= je_entries(len) - 1 /\ Len(entries) + left + 1 < EXTENT
        BY <1>1 DEF Looping, TypeOK
      <3>2. je_entries(len)' = je_entries(len)  BY <1>1 DEF je_entries
      <3>3. je_entries(len) \in Nat  BY <3>1, Entries
      <3>4. QED  BY <1>2, <1>3, <3>1, <3>2, <3>3
    <2>2. Saved' = promised' \cup Bytes(Start, ptr + JE_MAX_LEN - Start)
      BY <1>1, <1>3, <1>6 DEF Looping
    <2>3. Start' \in Nat /\ Saved' = promised' \cup Bytes(Start', ptr' - Start')
      <3>1. Start' = Start /\ Start \in Nat /\ ptr' = ptr + JE_MAX_LEN
        BY <1>1, <1>5
      <3>2. QED  BY <1>4, <2>2, <3>1 DEF TypeOK
    <2>4. QED  BY <2>1, <2>3 DEF Looping
  <1>8. LogCoversRange'
    <2>1. \A k \in 1 .. Len(entries') : entries'[k].len <= JE_MAX_LEN
      BY <1>3 DEF LogCoversRange
    <2>2. Len(entries') < EXTENT
      BY <1>1, <1>2, <1>3 DEF Looping, TypeOK
    <2>3. QED  BY <1>1, <2>1, <2>2 DEF LogCoversRange
  <1>9. QED  BY <1>4, <1>7, <1>8

\* The last entry completes the range.
LEMMA RestStep ==
  ASSUME LayoutInv, log_je_rest
  PROVE  LayoutInv'
  <1> USE LayoutAssumption DEF LayoutInv
  <1> DEFINE r == len % JE_MAX_LEN
             e == [addr |-> ptr, len |-> r]
  <1>1. /\ pc = "log" /\ left = 0 /\ entries' = Append(entries, e) /\ pc' = "run"
        /\ promised' = promised \cup Bytes(ptr - JE_MAX_LEN * (je_entries(len) - 1), len)
        /\ UNCHANGED <<ptr, len, left, nolog, flushed, calls>>
    BY DEF log_je_rest
  <1>2. len \in Nat /\ ptr \in Nat /\ r \in Nat /\ r <= JE_MAX_LEN
    BY <1>1, Entries DEF TypeOK
  <1>3. e \in Entry /\ entries \in Seq(Entry) /\ Len(entries) \in Nat
    BY <1>2, LenProperties DEF TypeOK, Entry
  <1>4. /\ entries' \in Seq(Entry) /\ Len(entries') = Len(entries) + 1
        /\ Saved' = Saved \cup Bytes(ptr, r)
        /\ \A k \in 1 .. Len(entries') : entries'[k] = e \/ \E j \in 1 .. Len(entries) :
             entries'[k] = entries[j]
    BY <1>1, <1>3, SavedAppend
  <1>5. TypeOK' /\ NologFlushed' /\ nolog' \subseteq Nat
    BY <1>1, <1>4 DEF TypeOK, NologFlushed, LinesOf, Line, Entry
  <1>6. /\ Start = ptr - JE_MAX_LEN * (je_entries(len) - 1) /\ Start \in Nat
        /\ ptr - Start \in Nat /\ (ptr - Start) + r = len
    <2> DEFINE m == JE_MAX_LEN * (je_entries(len) - 1)
    <2>1. je_entries(len) - 1 - left = je_entries(len) - 1
      BY <1>1, <1>2, Entries
    <2>2. Start = ptr - m
      BY <2>1 DEF Start
    <2>3. m \in Nat /\ len = m + r
      <3>1. je_entries(len) - 1 \in Nat /\ len = m + r
        BY <1>2, Entries
      <3>2. m \in Nat
        BY <3>1, Multiples
      <3>3. QED  BY <3>1, <3>2
    <2>4. Start \in Nat
      BY <1>1 DEF Looping
    <2> HIDE DEF m, r
    <2>5. ptr - Start = m
      BY <1>2, <2>2, <2>3
    <2>6. QED  BY <1>2, <2>2, <2>3, <2>4, <2>5 DEF m
  <1>7. Bytes(Start, ptr - Start) \cup Bytes(ptr, r) = Bytes(Start, len)
    <2> DEFINE w == ptr - Start
    <2>1. w \in Nat /\ Start + w = ptr /\ w + r = len
      BY <1>2, <1>6
    <2> HIDE DEF w, r
    <2>2. Bytes(Start, w) \cup Bytes(Start + w, r) = Bytes(Start, w + r)
      BY <1>2, <1>6, <2>1, Joined
    <2>3. QED  BY <2>1, <2>2 DEF w
  <1>8. Saved' = promised'
    BY <1>1, <1>4, <1>6, <1>7 DEF Looping
  <1>9. LogCoversRange'
    <2>1. \A k \in 1 .. Len(entries') : entries'[k].len <= JE_MAX_LEN
      BY <1>2, <1>4 DEF LogCoversRange
    <2>2. Len(entries') < EXTENT
      BY <1>1, <1>3, <1>4 DEF Looping, TypeOK
    <2>3. QED  BY <1>8, <2>1, <2>2 DEF LogCoversRange
  <1>10. Looping'
    BY <1>1 DEF Looping
  <1>11. QED  BY <1>5, <1>9, <1>10

\* flush_range touches every line of its range.
LEMMA FlushRange ==
  ASSUME NEW p \in Nat, NEW n \in Nat \ {0}
  PROVE  LinesOf(Bytes(p, n)) \subseteq flush_range(p, n)
  <1>0. LINE \in Nat \ {0}
    BY LayoutAssumption
  <1> DEFINE a == p \div LINE
             r == p % LINE
             m == (n + r + LINE - 1) \div LINE
             top == (n + r - 1) \div LINE
  <1>1. a \in Nat /\ r \in 0 .. (LINE - 1) /\ p = LINE * a + r
    BY <1>0, Division, Zenon
  <1>2. n + r - 1 \in Nat /\ n + r + LINE - 1 = (n + r - 1) + LINE
    BY <1>0, <1>1
  <1>3. m = top + 1 /\ top \in Nat
    BY <1>0, <1>2, Division
  <1>4. (LINE * m - 1) \div LINE = top
    <2>1. LINE * m = LINE * top + LINE
      <3> HIDE DEF top, m
      <3>1. QED  BY <1>0, <1>3, SMT
    <2>2. LINE * m - 1 = LINE * top + (LINE - 1)
      <3> HIDE DEF top, m
      <3>1. LINE * top \in Nat
        BY <1>0, <1>3, Multiples
      <3>2. QED  BY <1>0, <2>1, <3>1
    <2>3. (LINE - 1) \div LINE = 0
      BY <1>0, SMT
    <2>4. (LINE * top + (LINE - 1)) \div LINE = top + ((LINE - 1) \div LINE)
      <3> HIDE DEF top, m
      <3>1. LINE - 1 \in Nat  BY <1>0
      <3>2. QED  BY <1>0, <1>3, <3>1, Quotient, Zenon
    <2>5. QED  BY <1>3, <2>2, <2>3, <2>4
  <1>5. flush_range(p, n) = {Line(p + LINE * k) : k \in 0 .. top}
    BY <1>4 DEF flush_range
  <1>6. ASSUME NEW b \in Bytes(p, n)  PROVE Line(b) \in flush_range(p, n)
    <2> DEFINE c == b - LINE * a
               k == c \div LINE
    <2>1. b \in Nat /\ p <= b /\ b <= p + n - 1
      BY <1>6 DEF Bytes
    <2>2. LINE * a \in Nat
      BY <1>0, <1>1, Multiples
    <2>3. c \in Nat /\ c <= n + r - 1 /\ b = LINE * a + c
      <3> HIDE DEF a, r
      <3>1. QED  BY <1>1, <2>1, <2>2
    <2>4. k \in Nat /\ k <= top
      <3> HIDE DEF c
      <3>1. k \in Nat  BY <1>0, <2>3, Division, Zenon
      <3>2. k <= top  BY <1>0, <1>2, <2>3, QuotientMonotone, Zenon
      <3>3. QED  BY <3>1, <3>2
    <2>5. Line(b) = a + k
      <3> HIDE DEF c, a
      <3>1. (LINE * a + c) \div LINE = a + (c \div LINE)
        BY <1>0, <1>1, <2>3, Quotient, Zenon
      <3>2. QED  BY <2>3, <3>1 DEF Line
    <2>6. Line(p + LINE * k) = a + k
      <3> HIDE DEF k, a, r
      <3>1. LINE * (a + k) = LINE * a + LINE * k /\ LINE * k \in Nat
        BY <1>0, <1>1, <2>4, Multiples
      <3>2. p + LINE * k = LINE * (a + k) + r
        BY <1>1, <2>2, <3>1
      <3>3. r \div LINE = 0
        BY <1>0, <1>1, SMT
      <3>4. a + k \in Nat /\ r \in Nat
        BY <1>1, <2>4
      <3>5. (LINE * (a + k) + r) \div LINE = (a + k) + (r \div LINE)
        BY <1>0, <3>4, Quotient, Zenon
      <3>6. QED  BY <3>2, <3>3, <3>4, <3>5 DEF Line
    <2>7. k \in 0 .. top
      <3> HIDE DEF k, top
      <3>1. QED  BY <1>3, <2>4
    <2>8. QED  BY <1>5, <2>5, <2>6, <2>7
  <1>7. QED  BY <1>6 DEF LinesOf

LEMMA NologStep ==
  ASSUME LayoutInv, NEW p \in Nat, NEW n \in Nat \ {0}, write_nolog(p, n)
  PROVE  LayoutInv'
  <1> USE LayoutAssumption DEF LayoutInv
  <1>1. /\ UNCHANGED <<entries, pc, ptr, len, left, promised>>
        /\ calls < MaxCalls /\ calls' = calls + 1
        /\ nolog' = nolog \cup Bytes(p, n)
        /\ flushed' = flushed \cup flush_range(p, n)
    BY DEF write_nolog
  <1>2. LinesOf(nolog') = LinesOf(nolog) \cup LinesOf(Bytes(p, n))
    BY <1>1 DEF LinesOf
  <1>3. NologFlushed'
    BY <1>1, <1>2, FlushRange DEF NologFlushed
  <1>4. TypeOK' /\ nolog' \subseteq Nat
    <2>1. Bytes(p, n) \subseteq Nat
      BY ByteRange
    <2>2. nolog' \subseteq Nat
      BY <1>1, <2>1
    <2>3. calls' \in 0 .. MaxCalls
      BY <1>1 DEF TypeOK
    <2>4. QED  BY <1>1, <2>2, <2>3 DEF TypeOK
  <1>5. Saved' = Saved /\ Start' = Start
    BY <1>1 DEF Saved, Start, je_entries
  <1>6. Looping' /\ LogCoversRange'
    BY <1>1, <1>5 DEF Looping, LogCoversRange, je_entries
  <1>7. QED  BY <1>3, <1>4, <1>6

LEMMA CommitStep ==
  ASSUME LayoutInv, commit
  PROVE  LayoutInv'
  <1> USE DEF LayoutInv
  <1>1. /\ UNCHANGED <<entries, ptr, len, left, promised, nolog, calls>>
        /\ pc = "run" /\ pc' = "committed" /\ flushed \subseteq flushed'
    BY DEF commit
  <1>2. Saved' = Saved
    BY <1>1 DEF Saved
  <1>3. LinesOf(nolog') = LinesOf(nolog)
    BY <1>1 DEF LinesOf
  <1>4. QED
    BY <1>1, <1>2, <1>3 DEF TypeOK, Looping, LogCoversRange, NologFlushed

LEMMA StepLayout == LayoutInv /\ [Next]_vars => LayoutInv'
  <1> SUFFICES ASSUME LayoutInv, [Next]_vars PROVE LayoutInv'  OBVIOUS
  <1>1. ASSUME NEW p \in Addresses, NEW n \in Lengths, write(p, n)  PROVE LayoutInv'
    BY <1>1, LayoutAssumption, LogStep DEF write
  <1>2. ASSUME NEW p \in Addresses, NEW n \in Lengths, write_nolog(p, n)  PROVE LayoutInv'
    BY <1>2, LayoutAssumption, NologStep
  <1>3. ASSUME NEW p \in Addresses, NEW n \in Lengths, NEW dst \in CopyTargets,
               write_copy(dst, p, n)
        PROVE  LayoutInv'
    BY <1>3, LayoutAssumption, LogStep DEF write_copy
  <1>4. CASE UNCHANGED vars
    <2>1. Saved' = Saved /\ Start' = Start /\ LinesOf(nolog') = LinesOf(nolog)
      BY <1>4 DEF vars, Saved, Start, je_entries, LinesOf
    <2>2. je_entries(len)' = je_entries(len)
      BY <1>4 DEF vars, je_entries
    <2>3. QED
      BY <1>4, <2>1, <2>2 DEF vars, LayoutInv, TypeOK, Looping, LogCoversRange, NologFlushed
  <1>5. QED
    BY <1>1, <1>2, <1>3, <1>4, FullStep, RestStep, CommitStep DEF Next

LEMMA InitLayout == Init => LayoutInv
  <1> SUFFICES ASSUME Init PROVE LayoutInv  OBVIOUS
  <1>1. entries \in Seq([addr : Nat, len : Nat]) /\ Len(entries) = 0
    BY EmptySeq DEF Init
  <1>2. Saved = {}
    BY <1>1 DEF Saved
  <1>3. LinesOf(nolog) = {}
    BY DEF Init, LinesOf
  <1>4. QED
    BY <1>1, <1>2, <1>3, LayoutAssumption
    DEF Init, LayoutInv, TypeOK, Looping, LogCoversRange, NologFlushed

THEOREM LayoutInvariance == Spec => []LayoutInv
  BY InitLayout, StepLayout, PTL DEF Spec

\* When log() has returned, the entries hold exactly the bytes it was asked to
\* save, each fits its data array, and the journal stays inside the extent: for
\* every entry size, extent, address and length.
THEOREM JournalCovers == Spec => []LogCoversRange
  <1>1. LayoutInv => LogCoversRange  BY DEF LayoutInv
  <1>2. QED  BY LayoutInvariance, <1>1, PTL

\* What write_nolog wrote is flushed at once, for every line size and alignment.
THEOREM NologIsFlushed == Spec => []NologFlushed
  <1>1. LayoutInv => NologFlushed  BY DEF LayoutInv
  <1>2. QED  BY LayoutInvariance, <1>1, PTL
============================================================================
