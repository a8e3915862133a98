-------------------------- MODULE Detection_proofs --------------------------
(***************************************************************************)
(* Proofs about Detection, for texts of any size, any rules, matches and   *)
(* lengths of fakes.                                                       *)
(***************************************************************************)
EXTENDS Detection, SequenceTheorems, WellFoundedInduction, TLAPS

-----------------------------------------------------------------------------
(***************************************************************************)
(* The inductive invariant                                                 *)
(***************************************************************************)

Processed == IF phase \in {"scan", "resolve"} THEN {} ELSE resolved \ todo
Replaced  == {m \in Processed : m.rule \in Replacing}

\* The part of each list that is still empty.
PhaseInv ==
  /\ phase = "scan" => sorted = {} /\ resolved = {} /\ todo = {}
  /\ phase = "resolve" => todo = {}
  /\ phase \in {"scan", "resolve"} => buffer = [i \in 1..Size |-> Text(i)]
  /\ phase \notin {"scan", "resolve"} => sorted = {}
  /\ phase = "done" => todo = {}

\* The resolution has dealt with a part of the order: what it kept of it is
\* maximal, and covers the rest of it.
ResolveInv == phase # "scan" =>
  /\ \A m \in sorted, x \in found \ sorted : Before(x, m)
  /\ resolved = {m \in found \ sorted : Maximal(m)}
  /\ \A x \in found \ sorted : \E k \in resolved : Inside(x, k)

\* Matches are spliced from right to left.
OrderInv == \A m \in todo, p \in Processed : m.start <= p.start

\* n is not to the right of any span of S.
LeftOf(n, S) == \A p \in S : n <= p.start

\* A buffer in which the spans S have been replaced: left of all of them it is the
\* text, and elsewhere no byte of theirs is left, nor any from left of them.
BufferFor(buf, S) ==
  /\ \A n \in 0..Size : LeftOf(n, S) =>
       /\ n <= Len(buf)
       /\ \A j \in 1..n : buf[j] = Text(j)
       /\ \A j \in 1..Len(buf) : n < j /\ buf[j].rule = 0 => n < buf[j].at
  /\ \A j \in 1..Len(buf) : buf[j].rule = 0 =>
       buf[j].at \in 1..Size /\ \A p \in S : ~Covers(p, buf[j].at)

BufferInv == BufferFor(buffer, Replaced)

IInv == TypeOK /\ PhaseInv /\ ResolveInv /\ OrderInv /\ BufferInv /\ OnlyOverlapsPanic

-----------------------------------------------------------------------------
(***************************************************************************)
(* Lemmas                                                                  *)
(***************************************************************************)

LEMMA MatchFields ==
  ASSUME NEW m \in Match
  PROVE  /\ m.rule \in Rule /\ m.rule \in Int /\ m.rule >= 1
         /\ m.start \in 0..Size /\ m.end \in 0..Size /\ m.start < m.end
         /\ m.start \in Nat /\ m.end \in Nat
  BY DetectionAssumption DEF Match, Rule

\* Matches are told apart by their rule and span.
LEMMA MatchEqual ==
  ASSUME NEW a \in Match, NEW b \in Match, SameSpan(a, b), a.rule = b.rule
  PROVE  a = b
  BY DEF Match, SameSpan

\* Inside and Before, on the fields.
LEMMA BeforeIsOrder ==
  ASSUME NEW a \in Match, NEW b \in Match
  PROVE  /\ ~(Before(a, b) /\ Before(b, a))
         /\ Inside(a, b) /\ ~(SameSpan(a, b) /\ a.rule < b.rule) /\ a # b => Before(b, a)
         /\ Before(b, a) /\ SameSpan(a, b) => ~(a.rule < b.rule)
<1>1. a.start \in Int /\ a.end \in Int /\ b.start \in Int /\ b.end \in Int
      /\ a.rule \in Int /\ b.rule \in Int
  BY MatchFields
<1>2. SameSpan(a, b) /\ a.rule = b.rule => a = b
  BY MatchEqual
<1>. QED  BY <1>1, <1>2 DEF Before, Inside, SameSpan

\* The kept matches are not nested.
LEMMA NoNesting ==
  ASSUME TypeOK, ResolveInv, phase # "scan", NEW a \in resolved, NEW b \in resolved, a # b
  PROVE  ~Inside(a, b)
<1>1. a \in found /\ b \in found /\ a \in Match /\ b \in Match
  BY DEF TypeOK
<1>2. Maximal(a) /\ Maximal(b)
  BY DEF ResolveInv
<1>3. SUFFICES ASSUME Inside(a, b)
               PROVE  FALSE
  OBVIOUS
<1>4. SameSpan(a, b) /\ a.rule < b.rule
  BY <1>1, <1>2, <1>3 DEF Maximal
<1>5. Inside(b, a)
  BY <1>1, <1>4, MatchFields DEF Inside, SameSpan
<1>6. b.rule < a.rule
  BY <1>1, <1>2, <1>5 DEF Maximal
<1>. QED  BY <1>1, <1>4, <1>6, MatchFields

\* Three sequences in a row.
LEMMA ConcatThree ==
  ASSUME NEW S, NEW a \in Seq(S), NEW b \in Seq(S), NEW c \in Seq(S), NEW d, d = (a \o b) \o c
  PROVE  /\ d \in Seq(S)
         /\ Len(d) = Len(a) + Len(b) + Len(c)
         /\ \A j \in 1..Len(a) : d[j] = a[j]
         /\ \A j \in 1..Len(b) : d[Len(a) + j] = b[j]
         /\ \A j \in 1..Len(c) : d[Len(a) + Len(b) + j] = c[j]
<1> DEFINE ab == a \o b
<1>1. Len(a) \in Nat /\ Len(b) \in Nat /\ Len(c) \in Nat
  BY LenProperties
<1>2. /\ ab \in Seq(S)
      /\ Len(ab) = Len(a) + Len(b)
      /\ \A j \in 1..Len(a) + Len(b) : ab[j] = IF j <= Len(a) THEN a[j] ELSE b[j - Len(a)]
  BY ConcatProperties
<1>3. d = ab \o c
  OBVIOUS
<1> HIDE DEF ab
<1>4. /\ d \in Seq(S)
      /\ Len(d) = Len(ab) + Len(c)
      /\ \A j \in 1..Len(ab) + Len(c) : d[j] = IF j <= Len(ab) THEN ab[j] ELSE c[j - Len(ab)]
  <2>1. ab \in Seq(S)
    BY <1>2
  <2>2. /\ ab \o c \in Seq(S)
        /\ Len(ab \o c) = Len(ab) + Len(c)
        /\ \A j \in 1..Len(ab) + Len(c) :
             (ab \o c)[j] = IF j <= Len(ab) THEN ab[j] ELSE c[j - Len(ab)]
    BY <2>1, ConcatProperties, Zenon
  <2>. QED  BY <1>3, <2>2, Zenon
<1>5. \A j \in 1..Len(a) : d[j] = a[j]
  BY <1>1, <1>2, <1>4
<1>6. ASSUME NEW j \in 1..Len(b)
      PROVE  d[Len(a) + j] = b[j]
  <2>1. d[Len(a) + j] = ab[Len(a) + j]
    BY <1>1, <1>2, <1>4
  <2> DEFINE k == Len(a) + j
  <2>2. k \in 1..Len(a) + Len(b) /\ ~(k <= Len(a)) /\ k - Len(a) = j
    BY <1>1
  <2>3. ab[k] = IF k <= Len(a) THEN a[k] ELSE b[k - Len(a)]
    BY <1>2, <2>2, Zenon
  <2>. QED  BY <2>1, <2>2, <2>3, Zenon
<1>7. ASSUME NEW j \in 1..Len(c)
      PROVE  d[Len(a) + Len(b) + j] = c[j]
  <2>1. d[Len(a) + Len(b) + j] = c[(Len(a) + Len(b) + j) - Len(ab)]
    BY <1>1, <1>2, <1>4
  <2>. QED  BY <1>1, <1>2, <2>1
<1>. QED  BY <1>2, <1>4, <1>5, <1>6, <1>7

\* A splice leaves what is left of it, puts the fake in place, and moves what is
\* right of the span.
LEMMA SpliceFacts ==
  ASSUME NEW buf \in Seq(Cell), NEW m \in Match, NEW size \in FakeSize, m.end <= Len(buf),
         NEW new, new = Spliced(buf, m, size)
  PROVE  /\ new \in Seq(Cell)
         /\ Len(new) = m.start + size + Len(buf) - m.end
         /\ \A j \in 1..m.start : new[j] = buf[j]
         /\ \A j \in m.start + 1..m.start + size : new[j].rule = m.rule
         /\ \A j \in m.start + size + 1..Len(new) :
              new[j] = buf[j - size - m.start + m.end]
<1> DEFINE left  == SubSeq(buf, 1, m.start)
           fake  == FakeOf(m, size)
           right == SubSeq(buf, m.end + 1, Len(buf))
<1>1. size \in Nat /\ size >= 1 /\ Len(buf) \in Nat
  BY DetectionAssumption, LenProperties
<1>2. m.start \in Nat /\ m.end \in Nat /\ m.start < m.end /\ m.rule \in Rule /\ m.start \in 0..Size
  BY MatchFields
<1>3. \A i \in 1..Len(buf) : buf[i] \in Cell
  BY ElementOfSeq
<1>4. left \in Seq(Cell) /\ Len(left) = m.start /\ \A j \in 1..m.start : left[j] = buf[j]
  <2>1. \A i \in 1..m.start : buf[i] \in Cell
    BY <1>1, <1>2, <1>3
  <2>2. /\ left \in Seq(Cell)
        /\ Len(left) = IF 1 <= m.start THEN m.start - 1 + 1 ELSE 0
        /\ \A j \in 1..(m.start - 1 + 1) : left[j] = buf[1 + j - 1]
    BY <2>1, <1>2, SubSeqProperties
  <2>. QED  BY <2>2, <1>2
<1>5. right \in Seq(Cell) /\ Len(right) = Len(buf) - m.end
      /\ \A j \in 1..Len(buf) - m.end : right[j] = buf[m.end + j]
  <2>1. \A i \in m.end + 1..Len(buf) : buf[i] \in Cell
    BY <1>1, <1>2, <1>3
  <2>2. m.end + 1 \in Int /\ Len(buf) \in Int
    BY <1>1, <1>2
  <2>3. /\ right \in Seq(Cell)
        /\ Len(right) = IF m.end + 1 <= Len(buf) THEN Len(buf) - (m.end + 1) + 1 ELSE 0
        /\ \A j \in 1..(Len(buf) - (m.end + 1) + 1) : right[j] = buf[(m.end + 1) + j - 1]
    BY <2>1, <2>2, SubSeqProperties
  <2>. QED  BY <2>3, <1>1, <1>2, SMTT(60)
<1>6. fake \in Seq(Cell) /\ Len(fake) = size /\ \A j \in 1..size : fake[j].rule = m.rule
  <2>1. ASSUME NEW j \in 1..size
        PROVE  Fake(m, j) \in Cell /\ Fake(m, j).rule = m.rule
    <3>1. j \in Nat \ {0} /\ m.rule \in 0..Rules
      BY <1>1, <1>2, DetectionAssumption DEF Rule
    <3>. QED  BY <3>1, <1>2 DEF Fake, Cell
  <2>2. fake \in [1..size -> Cell]
    BY <2>1 DEF FakeOf
  <2>. QED  BY <1>1, <2>1, <2>2 DEF FakeOf
<1>7. new = (left \o fake) \o right
  BY DEF Spliced
<1> HIDE DEF left, fake, right
<1>8. /\ new \in Seq(Cell)
      /\ Len(new) = Len(left) + Len(fake) + Len(right)
      /\ \A j \in 1..Len(left) : new[j] = left[j]
      /\ \A j \in 1..Len(fake) : new[Len(left) + j] = fake[j]
      /\ \A j \in 1..Len(right) : new[Len(left) + Len(fake) + j] = right[j]
  <2>1. left \in Seq(Cell) /\ fake \in Seq(Cell) /\ right \in Seq(Cell)
    BY <1>4, <1>5, <1>6
  <2>2. \A S : \A a, b, c \in Seq(S) : \A d : d = (a \o b) \o c =>
          /\ d \in Seq(S)
          /\ Len(d) = Len(a) + Len(b) + Len(c)
          /\ \A j \in 1..Len(a) : d[j] = a[j]
          /\ \A j \in 1..Len(b) : d[Len(a) + j] = b[j]
          /\ \A j \in 1..Len(c) : d[Len(a) + Len(b) + j] = c[j]
    BY ConcatThree, Zenon
  <2>. QED  BY <1>7, <2>1, <2>2, SMTT(60)
<1>9. Len(new) = m.start + size + Len(buf) - m.end
  <2>1. Len(new) = m.start + size + (Len(buf) - m.end)
    BY <1>4, <1>5, <1>6, <1>8
  <2>. QED  BY <1>1, <1>2, <2>1
<1>10. \A j \in 1..m.start : new[j] = buf[j]
  BY <1>4, <1>8
<1>11. ASSUME NEW j \in m.start + 1..m.start + size
       PROVE  new[j].rule = m.rule
  <2>1. j - m.start \in 1..size /\ j = m.start + (j - m.start)
    BY <1>1, <1>2
  <2>2. new[j] = fake[j - m.start]
    BY <2>1, <1>4, <1>6, <1>8, SMTT(60)
  <2>. QED  BY <2>1, <2>2, <1>6
<1>12. ASSUME NEW j \in m.start + size + 1..Len(new)
       PROVE  new[j] = buf[j - size - m.start + m.end]
  <2> DEFINE k == j - (m.start + size)
  <2>1. k \in 1..Len(buf) - m.end /\ j = m.start + size + k
        /\ m.end + k = j - size - m.start + m.end
    <3>1. j \in m.start + size + 1..m.start + size + Len(buf) - m.end
      BY <1>9
    <3>2. j \in Int /\ m.start \in Int /\ m.end \in Int /\ size \in Int /\ Len(buf) \in Int
      BY <3>1, <1>1, <1>2
    <3>3. \A x, s, e, z, l \in Int :
             x \in s + z + 1..s + z + l - e
               => /\ x - (s + z) \in 1..l - e /\ x = s + z + (x - (s + z))
                  /\ e + (x - (s + z)) = x - z - s + e
      OBVIOUS
    <3>. QED  BY <3>1, <3>2, <3>3, SMTT(60)
  <2> HIDE DEF k
  <2>2. new[j] = right[k]
    BY <2>1, <1>4, <1>5, <1>6, <1>8
  <2>3. right[k] = buf[m.end + k]
    BY <2>1, <1>5
  <2>. QED  BY <2>1, <2>2, <2>3
<1>. QED  BY <1>8, <1>9, <1>10, <1>11, <1>12

-----------------------------------------------------------------------------
(***************************************************************************)
(* The invariant is inductive                                              *)
(***************************************************************************)

LEMMA TextIsCells == [i \in 1..Size |-> Text(i)] \in Seq(Cell)
<1>1. ASSUME NEW i \in 1..Size
      PROVE  Text(i) \in Cell
  BY DetectionAssumption DEF Text, Cell
<1>. QED  BY <1>1, DetectionAssumption

\* The text itself, before any splice.
LEMMA TextBuffer == BufferFor([i \in 1..Size |-> Text(i)], {})
<1> DEFINE buf == [i \in 1..Size |-> Text(i)]
<1>1. Size \in Nat /\ Len(buf) = Size /\ \A j \in 1..Size : buf[j] = Text(j)
  BY DetectionAssumption, TextIsCells
<1>2. \A j \in 1..Size : Text(j).at = j
  BY DEF Text
<1>. QED  BY <1>1, <1>2 DEF BufferFor

\* One more splice, to the left of all others, by a match that contains none of theirs.
LEMMA SpliceBuffer ==
  ASSUME NEW buf \in Seq(Cell), NEW S \in SUBSET Match, BufferFor(buf, S),
         NEW m \in Match, NEW size \in FakeSize, m.end <= Len(buf),
         LeftOf(m.start, S), \A p \in S : ~Inside(p, m),
         NEW new, new = Spliced(buf, m, size)
  PROVE  BufferFor(new, S \cup {m})
<1> DEFINE old(j) == j - size - m.start + m.end
<1>1. /\ size \in Nat /\ size >= 1 /\ Len(buf) \in Nat
      /\ m.start \in Nat /\ m.end \in Nat /\ m.start < m.end /\ m.rule # 0
      /\ m.start \in 0..Size /\ m.end \in 0..Size /\ Size \in Nat
  BY DetectionAssumption, LenProperties, MatchFields
<1>2. /\ Len(new) = m.start + size + Len(buf) - m.end
      /\ \A j \in 1..m.start : new[j] = buf[j]
      /\ \A j \in m.start + 1..m.start + size : new[j].rule = m.rule
      /\ \A j \in m.start + size + 1..Len(new) : new[j] = buf[old(j)]
  BY SpliceFacts
<1>3. ASSUME NEW j \in m.start + size + 1..Len(new)
      PROVE  old(j) \in m.end + 1..Len(buf)
  <2>1. j \in m.start + size + 1..m.start + size + Len(buf) - m.end
    BY <1>2
  <2>2. \A st, en, le, sz \in Nat : \A i \in st + sz + 1..st + sz + le - en :
          i - sz - st + en \in en + 1..le
    OBVIOUS
  <2>3. old(j) = j - size - m.start + m.end
    OBVIOUS
  <2>. QED  BY <1>1, <2>1, <2>2, <2>3, Zenon
<1>4. ASSUME NEW j \in 1..Len(new), new[j].rule = 0
      PROVE  j \in 1..m.start \/ j \in m.start + size + 1..Len(new)
  <2>1. j \notin m.start + 1..m.start + size
    BY <1>1, <1>2, <1>4
  <2>2. Len(new) \in Int
    BY <1>1, <1>2
  <2>. QED  BY <1>1, <2>1, <2>2
<1>5. ASSUME NEW n \in 0..Size, LeftOf(n, S \cup {m})
      PROVE  /\ n <= Len(new)
             /\ \A j \in 1..n : new[j] = Text(j)
             /\ \A j \in 1..Len(new) : n < j /\ new[j].rule = 0 => n < new[j].at
  <2>1. n <= m.start /\ LeftOf(n, S) /\ n \in Nat
    BY <1>1, <1>5 DEF LeftOf
  <2>2. /\ \A j \in 1..n : buf[j] = Text(j)
        /\ \A j \in 1..Len(buf) : n < j /\ buf[j].rule = 0 => n < buf[j].at
    BY <2>1 DEF BufferFor
  <2>3. n <= Len(new)
    BY <1>1, <1>2, <2>1
  <2>4. ASSUME NEW j \in 1..n
        PROVE  new[j] = Text(j)
    <3>1. j \in 1..m.start
      BY <1>1, <2>1
    <3>. QED  BY <1>2, <2>2, <3>1
  <2>5. ASSUME NEW j \in 1..Len(new), n < j, new[j].rule = 0
        PROVE  n < new[j].at
    <3>1. CASE j \in 1..m.start
      <4>1. j \in 1..Len(buf)
        BY <1>1, <3>1
      <4>2. new[j] = buf[j]
        BY <1>2, <3>1
      <4>. QED  BY <4>1, <4>2, <2>2, <2>5
    <3>2. CASE j \in m.start + size + 1..Len(new)
      <4>1. old(j) \in m.end + 1..Len(buf) /\ new[j] = buf[old(j)]
        BY <1>2, <1>3, <3>2
      <4> HIDE DEF old
      <4>2. old(j) \in 1..Len(buf) /\ n < old(j)
        BY <1>1, <2>1, <4>1
      <4>. QED  BY <4>1, <4>2, <2>2, <2>5
    <3>. QED  BY <1>4, <2>5, <3>1, <3>2
  <2>. QED  BY <2>3, <2>4, <2>5
<1>6. ASSUME NEW j \in 1..Len(new), new[j].rule = 0
      PROVE  new[j].at \in 1..Size /\ \A p \in S \cup {m} : ~Covers(p, new[j].at)
  <2>1. CASE j \in 1..m.start
    <3>1. LeftOf(m.start, S) /\ buf[j] = Text(j) /\ new[j] = buf[j]
      BY <1>1, <1>2, <2>1 DEF BufferFor
    <3>2. new[j].at = j
      BY <3>1 DEF Text
    <3>3. j \in 1..Len(buf)
      BY <1>1, <2>1
    <3>. QED  BY <1>1, <1>6, <2>1, <3>1, <3>2, <3>3 DEF BufferFor, Covers
  <2>2. CASE j \in m.start + size + 1..Len(new)
    <3> DEFINE k == old(j)
               i == buf[k].at
    <3>0. k \in m.end + 1..Len(buf) /\ new[j] = buf[k]
      BY <1>2, <1>3, <2>2
    <3> HIDE DEF old, k
    <3>1. k \in 1..Len(buf) /\ k > m.end /\ new[j] = buf[k] /\ k \in Int
      BY <1>1, <3>0
    <3>2. i \in 1..Size /\ \A p \in S : ~Covers(p, i)
      BY <1>6, <3>1 DEF BufferFor
    <3>3. ASSUME Covers(m, i)
          PROVE  FALSE
      <4>1. i \in Int /\ m.start < i /\ i <= m.end /\ i \in 0..Size
        BY <3>2, <3>3, <1>1 DEF Covers
      <4>2. CASE LeftOf(i, S)
        <5>1. i < k
          BY <1>1, <3>1, <4>1
        <5>2. i < buf[k].at
          BY <1>6, <3>1, <4>1, <4>2, <5>1 DEF BufferFor
        <5>. QED  BY <4>1, <5>2
      <4>3. CASE ~LeftOf(i, S)
        <5>1. PICK p \in S : ~(i <= p.start)
          BY <4>3 DEF LeftOf
        <5>2. p \in Match /\ p.start \in Nat /\ p.end \in Nat /\ m.start <= p.start /\ ~Inside(p, m)
          BY MatchFields DEF LeftOf
        <5>3. m.end < p.end
          BY <1>1, <5>2 DEF Inside
        <5>4. Covers(p, i)
          BY <1>1, <4>1, <5>1, <5>2, <5>3, SMTT(60) DEF Covers
        <5>. QED  BY <3>2, <5>4
      <4>. QED  BY <4>2, <4>3
    <3>. QED  BY <3>1, <3>2, <3>3
  <2>. QED  BY <1>4, <1>6, <2>1, <2>2
<1>. QED  BY <1>5, <1>6 DEF BufferFor

-----------------------------------------------------------------------------
(***************************************************************************)
(* The invariant is inductive                                              *)
(***************************************************************************)

LEMMA InitInv == Init => IInv
<1> SUFFICES ASSUME Init PROVE IInv
  OBVIOUS
<1>1. Rules \in Nat /\ 1 \in 1..Rules + 1
  BY DetectionAssumption
<1>2. TypeOK
  BY <1>1, TextIsCells DEF Init, TypeOK
<1>3. Replaced = {} /\ Processed = {}
  BY DEF Init, Replaced, Processed
<1>4. BufferInv
  BY <1>3, TextBuffer DEF Init, BufferInv
<1>. QED  BY <1>2, <1>3, <1>4 DEF Init, IInv, PhaseInv, ResolveInv, OrderInv, OnlyOverlapsPanic

\* A step that stays before the splices has nothing to show for them.
LEMMA EarlyKeeps ==
  ASSUME phase' \in {"scan", "resolve"}, buffer' = [i \in 1..Size |-> Text(i)]
  PROVE  OrderInv' /\ BufferInv' /\ OnlyOverlapsPanic'
<1>1. Replaced' = {} /\ Processed' = {}
  BY DEF Replaced, Processed
<1>2. BufferInv'
  BY <1>1, TextBuffer DEF BufferInv
<1>. QED  BY <1>1, <1>2 DEF OrderInv, OnlyOverlapsPanic

LEMMA ScanRuleKeeps == IInv /\ ScanRule => IInv'
<1> SUFFICES ASSUME IInv, ScanRule PROVE IInv'
  OBVIOUS
<1> USE DEF IInv
<1>1. PICK ms \in Yields(rule) : found' = found \cup ms
  BY DEF ScanRule
<1>2. ms \subseteq Match
  BY DEF Yields
<1>3. rule' \in 1..Rules + 1
  BY DetectionAssumption DEF ScanRule, TypeOK
<1>4. TypeOK'
  BY <1>1, <1>2, <1>3 DEF ScanRule, TypeOK
<1>5. PhaseInv' /\ ResolveInv'
  BY DEF ScanRule, PhaseInv, ResolveInv
<1>6. OrderInv' /\ BufferInv' /\ OnlyOverlapsPanic'
  BY EarlyKeeps DEF ScanRule, PhaseInv
<1>. QED  BY <1>4, <1>5, <1>6

LEMMA SortKeeps == IInv /\ Sort => IInv'
<1> SUFFICES ASSUME IInv, Sort PROVE IInv'
  OBVIOUS
<1> USE DEF IInv
<1>1. TypeOK' /\ PhaseInv'
  BY DEF Sort, TypeOK, PhaseInv
<1>2. ResolveInv'
  BY DEF Sort, PhaseInv, ResolveInv
<1>3. OrderInv' /\ BufferInv' /\ OnlyOverlapsPanic'
  BY EarlyKeeps DEF Sort, PhaseInv
<1>. QED  BY <1>1, <1>2, <1>3

\* The match that is looked at is dropped exactly if it is not maximal.  A match
\* it lies in comes earlier in the order, and what was kept covers that one.
LEMMA ResolveKeeps == IInv /\ Resolve => IInv'
<1> SUFFICES ASSUME IInv, Resolve PROVE IInv'
  OBVIOUS
<1> USE DEF IInv
<1>1. PICK m \in sorted :
        /\ \A x \in sorted \ {m} : Before(m, x)
        /\ sorted' = sorted \ {m}
        /\ resolved' = IF \E prev \in resolved : Inside(m, prev)
                       THEN resolved ELSE resolved \cup {m}
  BY DEF Resolve
<1>2. /\ phase = "resolve" /\ phase' = "resolve"
      /\ UNCHANGED <<rule, found, todo, buffer, redactions>>
  BY DEF Resolve
<1>3. /\ found \subseteq Match /\ m \in found /\ m \in Match
      /\ resolved \subseteq found \ sorted
      /\ \A x \in found \ sorted : Before(x, m)
      /\ \A x \in found \ sorted : \E k \in resolved : Inside(x, k)
      /\ resolved = {x \in found \ sorted : Maximal(x)}
  BY <1>2 DEF TypeOK, ResolveInv
<1>4. Maximal(m) <=> ~\E prev \in resolved : Inside(m, prev)
  <2>1. ASSUME Maximal(m), NEW prev \in resolved, Inside(m, prev)
        PROVE  FALSE
    <3>1. prev \in found \ {m} /\ prev \in Match /\ Before(prev, m)
      BY <1>3
    <3>2. SameSpan(m, prev) /\ m.rule < prev.rule
      BY <2>1, <3>1 DEF Maximal
    <3>. QED  BY <1>3, <3>1, <3>2, BeforeIsOrder
  <2>2. ASSUME ~Maximal(m)
        PROVE  \E prev \in resolved : Inside(m, prev)
    <3>1. PICK x \in found \ {m} : Inside(m, x) /\ ~(SameSpan(m, x) /\ m.rule < x.rule)
      BY <2>2 DEF Maximal
    <3>2. x \in Match /\ Before(x, m)
      BY <1>3, <3>1, BeforeIsOrder
    <3>3. x \notin sorted
      BY <1>1, <1>3, <3>1, <3>2, BeforeIsOrder
    <3>4. PICK k \in resolved : Inside(x, k)
      BY <1>3, <3>1, <3>3
    <3>5. Inside(m, k)
      <4>1. k \in Match
        BY <1>3
      <4>. QED  BY <1>3, <3>1, <3>2, <3>4, <4>1, MatchFields DEF Inside
    <3>. QED  BY <3>5
  <2>. QED  BY <2>1, <2>2
<1>5. found' \ sorted' = (found \ sorted) \cup {m} /\ found' = found
  BY <1>1, <1>2, <1>3
<1>6. \A x : Maximal(x)' <=> Maximal(x)
  BY <1>2 DEF Maximal
<1>7. ResolveInv'
  <2>1. ASSUME NEW y \in sorted', NEW x \in found' \ sorted'
        PROVE  Before(x, y)
    <3>1. \A u \in sorted, v \in found \ sorted : Before(v, u)
      BY <1>2 DEF ResolveInv
    <3>2. y \in sorted \ {m} /\ (x = m \/ x \in found \ sorted)
      BY <1>1, <1>5
    <3>. QED  BY <1>1, <3>1, <3>2
  <2>2. resolved' = {x \in found' \ sorted' : Maximal(x)'}
    <3>1. resolved' = {x \in found' \ sorted' : Maximal(x)}
      BY <1>1, <1>3, <1>4, <1>5
    <3>. QED  BY <1>6, <3>1
  <2>3. ASSUME NEW x \in found' \ sorted'
        PROVE  \E k \in resolved' : Inside(x, k)
    <3>1. CASE x = m
      <4>1. Inside(m, m)
        BY <1>3, MatchFields DEF Inside
      <4>. QED  BY <1>1, <3>1, <4>1
    <3>2. CASE x # m
      BY <1>1, <1>3, <1>5, <3>2
    <3>. QED  BY <3>1, <3>2
  <2>. QED  BY <2>1, <2>2, <2>3 DEF ResolveInv
<1>8. TypeOK'
  BY <1>1, <1>2, <1>3 DEF TypeOK, PhaseInv
<1>9. PhaseInv'
  BY <1>2 DEF PhaseInv
<1>10. OrderInv' /\ BufferInv' /\ OnlyOverlapsPanic'
  BY <1>2, EarlyKeeps DEF PhaseInv
<1>. QED  BY <1>7, <1>8, <1>9, <1>10

LEMMA ResolvedKeeps == IInv /\ Resolved => IInv'
<1> SUFFICES ASSUME IInv, Resolved PROVE IInv'
  OBVIOUS
<1> USE DEF IInv
<1>1. TypeOK' /\ PhaseInv'
  BY DEF Resolved, TypeOK, PhaseInv
<1>2. UNCHANGED <<found, sorted, resolved>> /\ phase # "scan" /\ phase' # "scan"
  BY DEF Resolved
<1>3. ResolveInv'
  BY <1>2 DEF ResolveInv, Maximal
<1>4. Processed' = {} /\ Replaced' = {}
  BY DEF Resolved, Processed, Replaced
<1>5. BufferInv'
  BY <1>4, TextBuffer DEF Resolved, PhaseInv, BufferInv
<1>. QED  BY <1>1, <1>3, <1>4, <1>5 DEF Resolved, OrderInv, OnlyOverlapsPanic

\* What every step after the resolution leaves alone.
LEMMA LateKeeps ==
  ASSUME IInv, phase = "splice", phase' # "scan", UNCHANGED <<found, sorted, resolved>>
  PROVE  ResolveInv' /\ (Disjoint' <=> Disjoint)
<1>1. Disjoint' <=> Disjoint
  BY DEF Disjoint
<1>2. \A x : Maximal(x)' <=> Maximal(x)
  BY DEF Maximal
<1>3. ResolveInv
  BY DEF IInv
<1>. QED  BY <1>1, <1>2, <1>3 DEF ResolveInv

\* The match that is looked at next, during the splices.
LEMMA NextMatch ==
  ASSUME IInv, phase = "splice", NEW m \in todo, Rightmost(m)
  PROVE  /\ m \in Match /\ m \in resolved /\ Replaced \subseteq Match
         /\ Processed = resolved \ todo
         /\ LeftOf(m.start, Replaced)
         /\ \A p \in Replaced : p \in resolved /\ p # m /\ ~Inside(p, m)
<1> USE DEF IInv
<1>1. todo \subseteq resolved /\ resolved \subseteq found /\ found \subseteq Match
  BY DEF TypeOK
<1>2. Processed = resolved \ todo
  BY DEF Processed
<1>3. LeftOf(m.start, Replaced)
  BY <1>2 DEF OrderInv, LeftOf, Replaced
<1>4. \A p \in Replaced : p \in resolved /\ p # m
  BY <1>2 DEF Replaced
<1>5. \A p \in Replaced : ~Inside(p, m)
  BY <1>1, <1>4, NoNesting
<1>. QED  BY <1>1, <1>2, <1>3, <1>4, <1>5 DEF Replaced

\* After a match has been dealt with, it is the leftmost of the processed ones.
LEMMA OrderKept ==
  ASSUME IInv, phase = "splice", phase' = "splice", NEW m \in todo, Rightmost(m),
         todo' = todo \ {m}, resolved' = resolved
  PROVE  OrderInv' /\ Processed' = Processed \cup {m}
<1>1. Processed = resolved \ todo /\ m \in resolved
  BY NextMatch
<1>2. Processed' = Processed \cup {m}
  BY <1>1 DEF Processed
<1>3. \A x \in todo', p \in Processed \cup {m} : x.start <= p.start
  BY DEF Rightmost, IInv, OrderInv
<1>. QED  BY <1>2, <1>3 DEF OrderInv

LEMMA SkipKeeps == IInv /\ Skip => IInv'
<1> SUFFICES ASSUME IInv, Skip PROVE IInv'
  OBVIOUS
<1>1. PICK m \in todo : Rightmost(m) /\ m.rule \notin Replacing /\ todo' = todo \ {m}
  BY DEF Skip
<1>2. /\ phase = "splice" /\ phase' = "splice"
      /\ UNCHANGED <<rule, found, sorted, resolved, buffer, redactions>>
  BY DEF Skip
<1>3. TypeOK' /\ PhaseInv'
  BY <1>1, <1>2 DEF IInv, TypeOK, PhaseInv
<1>4. ResolveInv'
  BY <1>2, LateKeeps
<1>5. OrderInv' /\ Processed' = Processed \cup {m}
  BY <1>1, <1>2, OrderKept
<1>6. Replaced' = Replaced
  BY <1>1, <1>5 DEF Replaced
<1>7. BufferInv'
  BY <1>2, <1>6 DEF IInv, BufferInv
<1>. QED  BY <1>2, <1>3, <1>4, <1>5, <1>7 DEF IInv, OnlyOverlapsPanic

LEMMA SpliceKeeps == IInv /\ Splice => IInv'
<1> SUFFICES ASSUME IInv, Splice PROVE IInv'
  OBVIOUS
<1>1. PICK m \in todo, size \in FakeSize :
        /\ Rightmost(m) /\ m.rule \in Replacing
        /\ m.end <= Len(buffer)
        /\ buffer' = Spliced(buffer, m, size)
        /\ redactions' = redactions \cup {[match |-> m, size |-> size]}
        /\ todo' = todo \ {m}
  BY DEF Splice
<1>2. /\ phase = "splice" /\ phase' = "splice"
      /\ UNCHANGED <<rule, found, sorted, resolved>>
  BY DEF Splice
<1>3. /\ m \in Match /\ Replaced \subseteq Match /\ LeftOf(m.start, Replaced)
      /\ \A p \in Replaced : ~Inside(p, m)
  BY <1>1, <1>2, NextMatch
<1>4. buffer \in Seq(Cell) /\ BufferFor(buffer, Replaced)
  BY DEF IInv, TypeOK, BufferInv
<1>5. TypeOK'
  <2>1. buffer' \in Seq(Cell)
    BY <1>1, <1>3, <1>4, SpliceFacts
  <2>2. redactions' \subseteq Redaction
    BY <1>1, <1>3 DEF IInv, TypeOK, Redaction
  <2>. QED  BY <1>1, <1>2, <2>1, <2>2 DEF IInv, TypeOK
<1>6. PhaseInv'
  BY <1>2 DEF IInv, PhaseInv
<1>7. ResolveInv'
  BY <1>2, LateKeeps
<1>8. OrderInv' /\ Processed' = Processed \cup {m}
  BY <1>1, <1>2, OrderKept
<1>9. Replaced' = Replaced \cup {m}
  BY <1>1, <1>8 DEF Replaced
<1>10. BufferFor(buffer', Replaced \cup {m})
  BY <1>1, <1>3, <1>4, SpliceBuffer
<1>11. BufferInv'
  BY <1>9, <1>10 DEF BufferInv
<1>. QED  BY <1>2, <1>5, <1>6, <1>7, <1>8, <1>11 DEF IInv, OnlyOverlapsPanic

\* If all splices so far were behind the match, the text is untouched up to its end.
LEMMA PanicKeeps == IInv /\ Panic => IInv'
<1> SUFFICES ASSUME IInv, Panic PROVE IInv'
  OBVIOUS
<1>1. PICK m \in todo : Rightmost(m) /\ m.rule \in Replacing /\ m.end > Len(buffer)
  BY DEF Panic
<1>2. /\ phase = "splice" /\ phase' = "panicked"
      /\ UNCHANGED <<rule, found, sorted, resolved, todo, buffer, redactions>>
  BY DEF Panic
<1>3. /\ m \in Match /\ m \in resolved /\ Replaced \subseteq Match /\ LeftOf(m.start, Replaced)
      /\ \A p \in Replaced : p \in resolved /\ p # m
  BY <1>1, <1>2, NextMatch
<1>4. m.end \in 0..Size /\ m.end \in Nat /\ Len(buffer) \in Nat
  BY <1>3, MatchFields, LenProperties DEF IInv, TypeOK
<1>5. ~LeftOf(m.end, Replaced)
  <2>1. LeftOf(m.end, Replaced) => m.end <= Len(buffer)
    BY <1>4 DEF IInv, BufferInv, BufferFor
  <2>. QED  BY <1>1, <1>4, <2>1
<1>6. PICK p \in Replaced : ~(m.end <= p.start)
  BY <1>5 DEF LeftOf
<1>7. Overlap(m, p)
  <2>1. m.start <= p.start
    BY <1>3 DEF LeftOf
  <2>2. p \in Match
    BY <1>3
  <2>. QED  BY <1>3, <1>6, <2>1, <2>2, MatchFields DEF Overlap
<1>8. ~Disjoint
  BY <1>1, <1>3, <1>7 DEF Disjoint, Replaced
<1>9. TypeOK' /\ PhaseInv'
  BY <1>2 DEF IInv, TypeOK, PhaseInv
<1>10. ResolveInv' /\ (Disjoint' <=> Disjoint)
  BY <1>2, LateKeeps
<1>11. Processed' = Processed /\ Replaced' = Replaced
  BY <1>2 DEF Processed, Replaced
<1>12. OrderInv' /\ BufferInv'
  BY <1>2, <1>11 DEF IInv, OrderInv, BufferInv
<1>. QED  BY <1>8, <1>9, <1>10, <1>12 DEF IInv, OnlyOverlapsPanic

LEMMA ReturnKeeps == IInv /\ Return => IInv'
<1> SUFFICES ASSUME IInv, Return PROVE IInv'
  OBVIOUS
<1>1. /\ phase = "splice" /\ phase' = "done" /\ todo = {}
      /\ UNCHANGED <<rule, found, sorted, resolved, todo, buffer, redactions>>
  BY DEF Return
<1>2. TypeOK' /\ PhaseInv'
  BY <1>1 DEF IInv, TypeOK, PhaseInv
<1>3. ResolveInv'
  BY <1>1, LateKeeps
<1>4. Processed' = Processed /\ Replaced' = Replaced
  BY <1>1 DEF Processed, Replaced
<1>5. OrderInv' /\ BufferInv'
  BY <1>1, <1>4 DEF IInv, OrderInv, BufferInv
<1>. QED  BY <1>1, <1>2, <1>3, <1>5 DEF IInv, OnlyOverlapsPanic

LEMMA StutterKeeps == IInv /\ UNCHANGED vars => IInv'
<1> SUFFICES ASSUME IInv, UNCHANGED vars PROVE IInv'
  OBVIOUS
<1> USE DEF IInv, vars
<1>1. TypeOK' /\ PhaseInv'
  BY DEF TypeOK, PhaseInv
<1>2. ResolveInv'
  BY DEF ResolveInv, Maximal
<1>3. Processed' = Processed /\ Replaced' = Replaced
  BY DEF Processed, Replaced
<1>4. OrderInv' /\ BufferInv'
  BY <1>3 DEF OrderInv, BufferInv
<1>5. OnlyOverlapsPanic'
  BY DEF OnlyOverlapsPanic, Disjoint
<1>. QED  BY <1>1, <1>2, <1>4, <1>5

LEMMA Invariance == Spec => []IInv
<1>1. Init => IInv
  BY InitInv
<1>2. IInv /\ [Next]_vars => IInv'
  BY ScanRuleKeeps, SortKeeps, ResolveKeeps, ResolvedKeeps, SkipKeeps, SpliceKeeps,
     PanicKeeps, ReturnKeeps, StutterKeeps DEF Next
<1>. QED  BY <1>1, <1>2, PTL DEF Spec

-----------------------------------------------------------------------------
(***************************************************************************)
(* What follows from it                                                    *)
(***************************************************************************)

\* Every variable of scan_inner and apply_with_dedup keeps its type; in particular
\* a splice always leaves a sequence of bytes.
THEOREM TypeCorrect == Spec => []TypeOK
<1>1. IInv => TypeOK
  BY DEF IInv
<1>. QED  BY Invariance, <1>1, PTL

\* The one-pass overlap resolution keeps exactly the maximal matches.
THEOREM ResolutionIsMaximal == Spec => []KeepsTheMaximal
<1>1. IInv => KeepsTheMaximal
  <2> SUFFICES ASSUME IInv, phase \in {"splice", "done", "panicked"}
               PROVE  resolved = {m \in found : Maximal(m)}
    BY DEF KeepsTheMaximal
  <2>1. sorted = {}
    BY DEF IInv, PhaseInv
  <2>. QED  BY <2>1 DEF IInv, ResolveInv
<1>. QED  BY Invariance, <1>1, PTL

\* No byte found by a replacing rule is in the body that is returned, however
\* the matches overlap, unless a passthrough match shields it.
THEOREM FoundBytesAreGone == Spec => []NoFoundByteSurvives
<1>1. IInv => NoFoundByteSurvives
  <2> SUFFICES ASSUME IInv, phase = "done", NEW j \in DOMAIN buffer, NEW m \in found,
                      buffer[j].rule = 0, Covers(m, buffer[j].at), m.rule \in Replacing
               PROVE  \E p \in resolved : p.rule \notin Replacing /\ Inside(m, p)
    BY DEF NoFoundByteSurvives
  <2>1. sorted = {} /\ todo = {} /\ buffer \in Seq(Cell) /\ resolved \subseteq Match /\ m \in Match
    BY DEF IInv, PhaseInv, TypeOK
  <2>2. PICK k \in resolved : Inside(m, k)
    BY <2>1 DEF IInv, ResolveInv
  <2>3. j \in 1..Len(buffer)
    BY <2>1
  <2>4. buffer[j].at \in 1..Size /\ \A p \in Replaced : ~Covers(p, buffer[j].at)
    BY <2>3 DEF IInv, BufferInv, BufferFor
  <2>5. Covers(k, buffer[j].at)
    <3>1. k \in Match /\ buffer[j].at \in Int
      BY <2>1, <2>4
    <3>. QED  BY <2>1, <2>2, <3>1, MatchFields DEF Covers, Inside
  <2>6. k \notin Replaced
    BY <2>4, <2>5
  <2>7. k.rule \notin Replacing
    BY <2>1, <2>6 DEF Replaced, Processed
  <2>. QED  BY <2>2, <2>7
<1>. QED  BY Invariance, <1>1, PTL

\* A splice whose range ends behind the buffer needs partially overlapping matches.
THEOREM PanicNeedsOverlap == Spec => []OnlyOverlapsPanic
<1>1. IInv => OnlyOverlapsPanic
  BY DEF IInv
<1>. QED  BY Invariance, <1>1, PTL

-----------------------------------------------------------------------------
(***************************************************************************)
(* Disjoint matches.  The text that DisjointIsExact describes is flattened *)
(* from left to right, the splices go from right to left: Fronts says what *)
(* the flattened beginnings are, and FrontsSpliced what a splice in front  *)
(* of all earlier ones does to each of them.                               *)
(***************************************************************************)

\* Chunk, for the redactions R.
ChunkOf(R, i) ==
  IF \E r \in R : Covers(r.match, i)
  THEN LET r == CHOOSE x \in R : Covers(x.match, i)
       IN IF i = r.match.start + 1 THEN FakeOf(r.match, r.size) ELSE << >>
  ELSE <<Text(i)>>

\* The first n bytes of the text.
TextTo(n) == [j \in 1..n |-> Text(j)]

\* f[n] is what the first n bytes of the text become with the redactions R.
Fronts(R, f) ==
  /\ f \in [0..Size -> Seq(Cell)]
  /\ \A n \in 1..Size : f[n] = f[n - 1] \o ChunkOf(R, n)
  /\ \A n \in 0..Size : (\A r \in R : n <= r.match.start) => f[n] = TextTo(n)
  /\ \A i, j \in 0..Size : i <= j => Len(f[i]) <= Len(f[j])

LEMMA TextToIs ==
  ASSUME NEW n \in 0..Size
  PROVE  TextTo(n) \in Seq(Cell) /\ Len(TextTo(n)) = n
<1>1. \A j \in 1..n : Text(j) \in Cell
  BY DetectionAssumption DEF Text, Cell
<1>. QED  BY <1>1, DetectionAssumption DEF TextTo

LEMMA TextToStep ==
  ASSUME NEW n \in 1..Size
  PROVE  TextTo(n) = TextTo(n - 1) \o <<Text(n)>>
<1>1. n \in Nat /\ n - 1 \in Nat /\ n - 1 \in 0..Size /\ n \in 0..Size
  BY DetectionAssumption
<1>2. TextTo(n) \in Seq(Cell) /\ Len(TextTo(n)) = n
  BY <1>1, TextToIs
<1>3. TextTo(n - 1) \in Seq(Cell) /\ Len(TextTo(n - 1)) = n - 1
  BY <1>1, TextToIs
<1>4. Text(n) \in Cell
  BY <1>1, DetectionAssumption DEF Text, Cell
<1> DEFINE a == TextTo(n - 1)
           b == TextTo(n)
           t == Text(n)
<1>5. /\ \A j \in 1..n : b[j] = Text(j)
      /\ \A j \in 1..n - 1 : a[j] = Text(j)
  BY <1>1 DEF TextTo
<1>6. \A j \in 1..n : b[j] = IF j <= n - 1 THEN a[j] ELSE t
  BY <1>1, <1>5
<1> HIDE DEF a, b, t
<1>7. a \in Seq(Cell) /\ b \in Seq(Cell) /\ Len(a) = n - 1 /\ Len(b) = n /\ t \in Cell
  BY <1>2, <1>3, <1>4 DEF a, b, t
<1>8. b = a \o <<t>>
  BY <1>1, <1>6, <1>7
<1>. QED  BY <1>8 DEF a, b, t

\* Before any splice they are the text's.
LEMMA TextFronts == Fronts({}, [n \in 0..Size |-> TextTo(n)])
<1> DEFINE f == [n \in 0..Size |-> TextTo(n)]
<1>1. f \in [0..Size -> Seq(Cell)]
  BY TextToIs
<1>2. \A n \in 0..Size : f[n] = TextTo(n)
  OBVIOUS
<1>3. ASSUME NEW n \in 1..Size PROVE f[n] = f[n - 1] \o ChunkOf({}, n)
  <2>1. ChunkOf({}, n) = <<Text(n)>>
    BY DEF ChunkOf
  <2>2. n \in 0..Size /\ n - 1 \in 0..Size
    BY DetectionAssumption
  <2>. QED  BY <2>1, <2>2, TextToStep
<1>4. \A i, j \in 0..Size : i <= j => Len(f[i]) <= Len(f[j])
  BY <1>2, TextToIs
<1> HIDE DEF f
<1>5. Fronts({}, f)
  BY <1>1, <1>2, <1>3, <1>4 DEF Fronts
<1>. QED  BY <1>5 DEF f

\* A byte that nothing covers stands for itself, one that a single redaction covers for
\* its fake or nothing.
LEMMA ChunkFree ==
  ASSUME NEW R, NEW i, \A r \in R : ~Covers(r.match, i)
  PROVE  ChunkOf(R, i) = <<Text(i)>>
  BY Zenon DEF ChunkOf

LEMMA ChunkCovered ==
  ASSUME NEW R, NEW i, NEW r \in R, Covers(r.match, i), \A s \in R : Covers(s.match, i) => s = r
  PROVE  ChunkOf(R, i) = IF i = r.match.start + 1 THEN FakeOf(r.match, r.size) ELSE << >>
<1> DEFINE c == CHOOSE x \in R : Covers(x.match, i)
<1>1. c \in R /\ Covers(c.match, i)
  OBVIOUS
<1>2. c = r
  BY <1>1
<1>. QED  BY <1>2 DEF ChunkOf

LEMMA ChunkIsCells ==
  ASSUME NEW R \in SUBSET Redaction, NEW i \in 1..Size
  PROVE  ChunkOf(R, i) \in Seq(Cell)
<1>1. CASE \A r \in R : ~Covers(r.match, i)
  <2>1. Text(i) \in Cell
    BY DetectionAssumption DEF Text, Cell
  <2>2. <<Text(i)>> \in Seq(Cell)
    BY <2>1
  <2>. QED  BY <1>1, <2>2, ChunkFree, Zenon
<1>2. CASE \E r \in R : Covers(r.match, i)
  <2> DEFINE c == CHOOSE x \in R : Covers(x.match, i)
  <2>1. c \in R
    BY <1>2
  <2>2. ChunkOf(R, i) = IF i = c.match.start + 1 THEN FakeOf(c.match, c.size) ELSE << >>
    BY <1>2 DEF ChunkOf
  <2> HIDE DEF c
  <2>3. c.match \in Match /\ c.size \in FakeSize
    BY <2>1 DEF Redaction
  <2>4. c.size \in Nat /\ FakeOf(c.match, c.size) \in Seq(Cell)
    <3>1. c.match.rule \in 0..Rules /\ c.match.start \in 0..Size /\ c.size \in Nat
      BY <2>3, MatchFields, DetectionAssumption DEF Rule
    <3>2. \A j \in 1..c.size : Fake(c.match, j) \in Cell
      BY <3>1 DEF Fake, Cell
    <3>. QED  BY <3>1, <3>2 DEF FakeOf
  <2>. QED  BY <2>2, <2>4
<1>. QED  BY <1>1, <1>2

\* What is appended behind the span stays behind it.
LEMMA TailOfConcat ==
  ASSUME NEW S, NEW b \in Seq(S), NEW c \in Seq(S), NEW e \in Nat, e <= Len(b)
  PROVE  SubSeq(b \o c, e + 1, Len(b \o c)) = SubSeq(b, e + 1, Len(b)) \o c
<1> DEFINE bc == b \o c
           y  == SubSeq(b, e + 1, Len(b))
           k  == Len(b)
           n  == Len(c)
<1>1. k \in Nat /\ n \in Nat
  BY LenProperties
<1>2. /\ bc \in Seq(S) /\ Len(bc) = k + n
      /\ \A j \in 1..k + n : bc[j] = IF j <= k THEN b[j] ELSE c[j - k]
  BY <1>1
<1>3. /\ y \in Seq(S) /\ Len(y) = k - e
      /\ \A j \in 1..k - e : y[j] = b[e + j]
  BY <1>1
<1> DEFINE l == SubSeq(bc, e + 1, Len(bc))
           r == y \o c
<1> HIDE DEF bc, y
<1>4. /\ l \in Seq(S) /\ Len(l) = k + n - e
      /\ \A j \in 1..k + n - e : l[j] = bc[e + j]
  BY <1>1, <1>2
<1>5. /\ r \in Seq(S) /\ Len(r) = k - e + n
      /\ \A j \in 1..k - e + n : r[j] = IF j <= k - e THEN y[j] ELSE c[j - (k - e)]
  <2>1. /\ r \in Seq(S) /\ Len(r) = Len(y) + Len(c)
        /\ \A j \in 1..Len(y) + Len(c) : r[j] = IF j <= Len(y) THEN y[j] ELSE c[j - Len(y)]
    BY <1>3, ConcatProperties
  <2>2. Len(y) = k - e
    BY <1>3
  <2>. QED  BY <2>1, <2>2
<1> HIDE DEF l, r, k, n
<1>6. ASSUME NEW j \in 1..k + n - e PROVE l[j] = r[j]
  <2>1. e <= k
    BY DEF k
  <2>2. j \in 1..k - e + n /\ e + j \in 1..k + n /\ j - (k - e) = (e + j) - k
        /\ (j <= k - e <=> e + j <= k) /\ (j <= k - e => j \in 1..k - e)
    BY <1>1, <2>1
  <2>3. l[j] = IF e + j <= k THEN b[e + j] ELSE c[(e + j) - k]
    <3>1. l[j] = bc[e + j]
      BY <1>4
    <3>2. bc[e + j] = IF e + j <= k THEN b[e + j] ELSE c[(e + j) - k]
      BY <1>2, <2>2
    <3>. QED  BY <3>1, <3>2
  <2>4. r[j] = IF j <= k - e THEN y[j] ELSE c[(e + j) - k]
    BY <1>5, <2>2
  <2>5. j <= k - e => y[j] = b[e + j]
    BY <1>3, <2>2
  <2>. QED  BY <2>2, <2>3, <2>4, <2>5
<1>7. Len(l) = Len(r) /\ \A j \in 1..Len(l) : l[j] = r[j]
  <2>1. e <= k
    BY DEF k
  <2>. QED  BY <1>1, <1>4, <1>5, <1>6, <2>1
<1>8. l = r
  BY <1>4, <1>5, <1>7, SeqEqual
<1>. QED  BY <1>8 DEF l, r, bc, y

LEMMA SplicedCat ==
  ASSUME NEW b \in Seq(Cell), NEW c \in Seq(Cell), NEW m \in Match, NEW size \in FakeSize,
         m.end <= Len(b)
  PROVE  Spliced(b \o c, m, size) = Spliced(b, m, size) \o c
<1> DEFINE fake == FakeOf(m, size)
           s == m.start
           e == m.end
<1>1. s \in Nat /\ e \in Nat /\ s < e
  BY MatchFields
<1>2. fake \in Seq(Cell)
  <2>1. m.rule \in 0..Rules /\ m.start \in 0..Size /\ size \in Nat
    BY MatchFields, DetectionAssumption DEF Rule
  <2>2. \A j \in 1..size : Fake(m, j) \in Cell
    BY <2>1 DEF Fake, Cell
  <2>. QED  BY <2>1, <2>2 DEF FakeOf
<1> HIDE DEF fake, s, e
<1>3. SubSeq(b \o c, 1, s) = SubSeq(b, 1, s)
  BY <1>1 DEF e
<1>4. SubSeq(b \o c, e + 1, Len(b \o c)) = SubSeq(b, e + 1, Len(b)) \o c
  BY <1>1, TailOfConcat DEF e
<1> DEFINE x == SubSeq(b, 1, s)
           y == SubSeq(b, e + 1, Len(b))
<1>5. x \in Seq(Cell) /\ y \in Seq(Cell)
  BY <1>1 DEF e
<1> HIDE DEF x, y
<1>6. x \o fake \o (y \o c) = (x \o fake \o y) \o c
  BY <1>2, <1>5
<1>. QED  BY <1>3, <1>4, <1>6 DEF Spliced, fake, x, y, s, e
LEMMA SpliceLengths ==
  ASSUME NEW b \in Seq(Cell), NEW m \in Match, NEW size \in FakeSize, m.end <= Len(b)
  PROVE  /\ Spliced(b, m, size) \in Seq(Cell)
         /\ Len(Spliced(b, m, size)) = m.start + size + Len(b) - m.end
  BY SpliceFacts

LEMMA FakeIsCells ==
  ASSUME NEW m \in Match, NEW size \in FakeSize
  PROVE  size \in Nat /\ FakeOf(m, size) \in Seq(Cell) /\ Len(FakeOf(m, size)) = size
<1>1. m.rule \in 0..Rules /\ m.start \in 0..Size /\ size \in Nat
  BY MatchFields, DetectionAssumption DEF Rule
<1>2. \A j \in 1..size : Fake(m, j) \in Cell
  BY <1>1 DEF Fake, Cell
<1>. QED  BY <1>1, <1>2 DEF FakeOf

\* A splice that ends with the text.
LEMMA SpliceAtEnd ==
  ASSUME NEW m \in Match, NEW size \in FakeSize
  PROVE  Spliced(TextTo(m.end), m, size) = TextTo(m.start) \o FakeOf(m, size)
<1> DEFINE b == TextTo(m.end)
           a == TextTo(m.start)
           fake == FakeOf(m, size)
<1>1. m.start \in 0..Size /\ m.end \in 0..Size /\ m.start \in Nat /\ m.end \in Nat /\ m.start < m.end
  BY MatchFields
<1>2. b \in Seq(Cell) /\ Len(b) = m.end /\ a \in Seq(Cell) /\ Len(a) = m.start
  BY <1>1, TextToIs
<1>3. /\ \A j \in 1..m.end : b[j] = Text(j)
      /\ \A j \in 1..m.start : a[j] = Text(j)
  BY <1>1 DEF TextTo
<1>4. fake \in Seq(Cell)
  BY FakeIsCells
<1> HIDE DEF a, b, fake
<1>5. SubSeq(b, 1, m.start) = a
  BY <1>1, <1>2, <1>3
<1>6. SubSeq(b, m.end + 1, Len(b)) = << >>
  BY <1>1, <1>2
<1>7. a \o fake \o << >> = a \o fake
  BY <1>2, <1>4
<1>. QED  BY <1>5, <1>6, <1>7 DEF Spliced, a, b, fake

\* No byte is covered twice.
Single(R) == \A i \in 1..Size : \A r, s \in R : Covers(r.match, i) /\ Covers(s.match, i) => r = s

\* The splice of a match that lies in front of the redactions R.
LEMMA FrontsSpliced ==
  ASSUME NEW R \in SUBSET Redaction, Single(R), NEW f, Fronts(R, f),
         NEW m \in Match, NEW size \in FakeSize, \A r \in R : m.end <= r.match.start,
         NEW T, T = R \cup {[match |-> m, size |-> size]}
  PROVE  \E g : Fronts(T, g) /\ g[Size] = Spliced(f[Size], m, size)
<1> DEFINE s == m.start
           e == m.end
           fake == FakeOf(m, size)
           new == [match |-> m, size |-> size]
           g == [n \in 0..Size |-> IF n <= s THEN f[n]
                                  ELSE IF n < e THEN f[s] \o fake
                                  ELSE Spliced(f[n], m, size)]
<1>1. s \in 0..Size /\ e \in 0..Size /\ s \in Nat /\ e \in Nat /\ s < e /\ Size \in Nat
  BY MatchFields, DetectionAssumption
<1>2. size \in Nat /\ fake \in Seq(Cell) /\ Len(fake) = size
  BY FakeIsCells
<1>3. \A n \in 0..Size : f[n] \in Seq(Cell) /\ Len(f[n]) \in Nat
  BY DEF Fronts
<1>4. \A r \in R : r.match \in Match /\ r.match.start \in Nat /\ r.match.end \in Nat
  BY MatchFields DEF Redaction
<1>5. \A n \in 0..e : f[n] = TextTo(n) /\ Len(f[n]) = n
  <2> SUFFICES ASSUME NEW n \in 0..e PROVE f[n] = TextTo(n) /\ Len(f[n]) = n
    OBVIOUS
  <2>1. n \in 0..Size /\ \A r \in R : n <= r.match.start
    BY <1>1, <1>4
  <2>. QED  BY <2>1, TextToIs DEF Fronts
<1>6. \A n \in 0..Size : n >= e => Len(f[n]) >= e
  <2> SUFFICES ASSUME NEW n \in 0..Size, n >= e PROVE Len(f[n]) >= e
    OBVIOUS
  <2> HIDE DEF e
  <2>1. Len(f[e]) = e
    BY <1>1, <1>5
  <2>2. Len(f[e]) <= Len(f[n])
    BY <1>1 DEF Fronts
  <2>. QED  BY <1>1, <1>3, <2>1, <2>2
<1>7. \A n \in 0..Size : n >= e =>
        /\ Spliced(f[n], m, size) \in Seq(Cell)
        /\ Len(Spliced(f[n], m, size)) = s + size + Len(f[n]) - e
  BY <1>3, <1>6, SpliceLengths
<1>8. f[s] \o fake \in Seq(Cell) /\ Len(f[s] \o fake) = s + size
  <2>1. f[s] \in Seq(Cell) /\ Len(f[s]) = s
    BY <1>1, <1>3, <1>5
  <2>. QED  BY <1>2, <2>1, SMTT(30)
<1>9. Spliced(f[e], m, size) = f[s] \o fake
  <2>1. f[e] = TextTo(e) /\ f[s] = TextTo(s)
    BY <1>1, <1>5
  <2>. QED  BY <2>1, SpliceAtEnd
<1>10. /\ \A n \in 0..Size : n <= s => g[n] = f[n]
       /\ \A n \in 0..Size : s < n /\ n < e => g[n] = f[s] \o fake
       /\ \A n \in 0..Size : n >= e => g[n] = Spliced(f[n], m, size)
  BY <1>1
<1>11. \A n \in 0..Size : s < n /\ n <= e => g[n] = f[s] \o fake
  BY <1>1, <1>9, <1>10
<1>12. g \in [0..Size -> Seq(Cell)]
  <2>1. \A n \in 0..Size : g[n] \in Seq(Cell)
    <3> HIDE DEF g, fake, s, e
    <3> SUFFICES ASSUME NEW n \in 0..Size PROVE g[n] \in Seq(Cell)
      OBVIOUS
    <3>1. n <= s \/ (s < n /\ n < e) \/ n >= e
      BY <1>1
    <3>2. n <= s => g[n] = f[n]
      BY <1>10
    <3>3. s < n /\ n < e => g[n] = f[s] \o fake
      BY <1>10
    <3>4. n >= e => g[n] = Spliced(f[n], m, size)
      BY <1>10
    <3>. QED  BY <1>3, <1>7, <1>8, <3>1, <3>2, <3>3, <3>4, Zenon
  <2>2. g = [n \in 0..Size |-> g[n]]
    OBVIOUS
  <2> HIDE DEF g
  <2>. QED  BY <2>1, <2>2
<1> HIDE DEF g, fake, s, e, new
<1>13. new \in T /\ new.match = m /\ new.size = size
  BY DEF new
<1>14. ASSUME NEW n \in 1..Size PROVE g[n] = g[n - 1] \o ChunkOf(T, n)
  <2>1. n \in 0..Size /\ n - 1 \in 0..Size /\ n \in Nat
    BY <1>1
  <2>2. f[n] = f[n - 1] \o ChunkOf(R, n)
    BY DEF Fronts
  <2>3. Covers(m, n) <=> s < n /\ n <= e
    BY DEF Covers, s, e
  <2>4. CASE n <= s
    <3>1. \A r \in T : ~Covers(r.match, n)
      <4>1. ~Covers(m, n)
        BY <1>1, <2>1, <2>3, <2>4
      <4>2. \A r \in R : ~Covers(r.match, n)
        BY <1>1, <1>4, <2>1, <2>4 DEF Covers, e
      <4>. QED  BY <4>1, <4>2
    <3>2. ChunkOf(T, n) = <<Text(n)>> /\ ChunkOf(R, n) = <<Text(n)>>
      BY <3>1, ChunkFree
    <3>3. g[n] = f[n] /\ g[n - 1] = f[n - 1]
      BY <1>1, <1>10, <2>1, <2>4
    <3>. QED  BY <2>2, <3>2, <3>3
  <2>5. CASE s < n /\ n <= e
    <3>1. \A r \in T : Covers(r.match, n) => r = new
      <4>1. \A r \in R : ~Covers(r.match, n)
        BY <1>1, <1>4, <2>1, <2>5 DEF Covers, e
      <4>. QED  BY <4>1 DEF new
    <3>2. ChunkOf(T, n) = IF n = s + 1 THEN fake ELSE << >>
      <4>1. Covers(new.match, n)
        BY <1>13, <2>3, <2>5
      <4>2. ChunkOf(T, n) = IF n = new.match.start + 1 THEN FakeOf(new.match, new.size) ELSE << >>
        BY <1>13, <3>1, <4>1, ChunkCovered
      <4>. QED  BY <1>13, <4>2 DEF s, fake
    <3>3. g[n] = f[s] \o fake
      BY <1>11, <2>1, <2>5
    <3>4. CASE n = s + 1
      <4>1. g[n - 1] = f[s]
        BY <1>1, <1>10, <2>1, <3>4
      <4>. QED  BY <3>2, <3>3, <3>4, <4>1
    <3>5. CASE n # s + 1
      <4>1. g[n - 1] = f[s] \o fake
        BY <1>1, <1>11, <2>1, <2>5, <3>5
      <4>2. g[n - 1] \o << >> = g[n - 1]
        BY <1>8, <4>1
      <4>. QED  BY <3>2, <3>3, <3>5, <4>1, <4>2
    <3>. QED  BY <3>4, <3>5
  <2>6. CASE n > e
    <3>1. ChunkOf(T, n) = ChunkOf(R, n)
      <4>1. ~Covers(m, n)
        BY <1>1, <2>1, <2>3, <2>6
      <4>2. CASE \A r \in R : ~Covers(r.match, n)
        <5>1. \A r \in T : ~Covers(r.match, n)
          BY <4>1, <4>2
        <5>. QED  BY <4>2, <5>1, ChunkFree
      <4>3. CASE \E r \in R : Covers(r.match, n)
        <5>1. PICK r \in R : Covers(r.match, n)
          BY <4>3
        <5>2. \A x \in R : Covers(x.match, n) => x = r
          BY <5>1 DEF Single
        <5>3. r \in T /\ \A x \in T : Covers(x.match, n) => x = r
          BY <4>1, <5>2
        <5>. QED  BY <5>1, <5>2, <5>3, ChunkCovered
      <4>. QED  BY <4>2, <4>3
    <3>2. g[n] = Spliced(f[n], m, size) /\ g[n - 1] = Spliced(f[n - 1], m, size)
      BY <1>1, <1>10, <2>1, <2>6
    <3>3. f[n - 1] \in Seq(Cell) /\ ChunkOf(R, n) \in Seq(Cell) /\ m.end <= Len(f[n - 1])
      BY <1>1, <1>3, <1>6, <2>1, <2>6, ChunkIsCells DEF e
    <3>4. Spliced(f[n - 1] \o ChunkOf(R, n), m, size) = Spliced(f[n - 1], m, size) \o ChunkOf(R, n)
      BY <3>3, SplicedCat
    <3>. QED  BY <2>2, <3>1, <3>2, <3>4
  <2>7. n <= s \/ (s < n /\ n <= e) \/ n > e
    BY <1>1, <2>1
  <2>. QED  BY <2>4, <2>5, <2>6, <2>7, Zenon
<1>15. ASSUME NEW n \in 0..Size, \A r \in T : n <= r.match.start PROVE g[n] = TextTo(n)
  <2>1. n <= s
    BY <1>13, <1>15 DEF s
  <2>2. g[n] = f[n] /\ n \in 0..e
    BY <1>1, <1>10, <2>1
  <2>. QED  BY <1>5, <2>2
<1>16. ASSUME NEW i \in 0..Size, NEW j \in 0..Size, i <= j PROVE Len(g[i]) <= Len(g[j])
  <2>1. Len(f[i]) <= Len(f[j]) /\ Len(f[i]) \in Nat /\ Len(f[j]) \in Nat
    BY <1>3, <1>16 DEF Fronts
  <2>2. CASE j <= s
    <3>1. g[i] = f[i] /\ g[j] = f[j]
      BY <1>1, <1>10, <1>16, <2>2
    <3>. QED  BY <2>1, <3>1
  <2>3. CASE s < j /\ j < e
    <3>1. Len(g[j]) = s + size
      BY <1>8, <1>10, <2>3
    <3>2. i <= s => Len(g[i]) = i
      BY <1>1, <1>5, <1>10
    <3>3. ~(i <= s) => Len(g[i]) = s + size
      <4>1. ~(i <= s) => s < i /\ i < e
        BY <1>1, <1>16, <2>3
      <4>. QED  BY <1>8, <1>10, <4>1
    <3>. QED  BY <1>1, <1>2, <3>1, <3>2, <3>3
  <2>4. CASE j >= e
    <3>1. Len(g[j]) = s + size + Len(f[j]) - e /\ Len(f[j]) >= e
      BY <1>6, <1>7, <1>10, <2>4
    <3>2. i <= s => Len(g[i]) = i
      BY <1>1, <1>5, <1>10
    <3>3. s < i /\ i < e => Len(g[i]) = s + size
      BY <1>1, <1>8, <1>10
    <3>4. i >= e => Len(g[i]) = s + size + Len(f[i]) - e
      BY <1>7, <1>10
    <3>5. i <= s \/ (s < i /\ i < e) \/ i >= e
      BY <1>1
    <3> DEFINE gi == Len(g[i])
               fi == Len(f[i])
               fj == Len(f[j])
    <3> HIDE DEF gi, fi, fj
    <3>6. /\ (i <= s => gi = i) /\ (s < i /\ i < e => gi = s + size) /\ (i >= e => gi = s + size + fi - e)
          /\ fj >= e /\ fi <= fj /\ fi \in Nat /\ fj \in Nat
      BY <2>1, <3>1, <3>2, <3>3, <3>4 DEF gi, fi, fj
    <3>7. gi <= s + size + fj - e
      BY <1>1, <1>2, <3>5, <3>6
    <3>. QED  BY <3>1, <3>7 DEF gi, fj
  <2>. QED  BY <1>1, <2>2, <2>3, <2>4
<1>17. Fronts(T, g)
  BY <1>12, <1>14, <1>15, <1>16 DEF Fronts
<1>18. g[Size] = Spliced(f[Size], m, size)
  BY <1>1, <1>10
<1>. QED  BY <1>17, <1>18

\* The equation of the function by which FlattenSeq is defined.
FlattenBody(R, f) == [i \in 1..Size |-> IF i = 1 THEN ChunkOf(R, 1) ELSE f[i - 1] \o ChunkOf(R, i)]

LEMMA FlattenWalks ==
  ASSUME NEW R, Size # 0
  PROVE  FlattenSeq([i \in 1..Size |-> ChunkOf(R, i)])
           = (CHOOSE f : f = FlattenBody(R, f))[Size]
<1> DEFINE seqs == [i \in 1..Size |-> ChunkOf(R, i)]
           Body(f) == [i \in 1..Len(seqs) |-> IF i = 1 THEN seqs[i] ELSE f[i - 1] \o seqs[i]]
<1>1. Size \in Nat /\ Len(seqs) = Size /\ \A i \in 1..Size : seqs[i] = ChunkOf(R, i)
  BY DetectionAssumption
<1>2. FlattenSeq(seqs) = (CHOOSE f : f = Body(f))[Len(seqs)]
  <2> HIDE DEF seqs
  <2>1. Len(seqs) # 0
    BY <1>1
  <2>. QED  BY <2>1, Zenon DEF FlattenSeq
<1>3. ASSUME NEW f PROVE Body(f) = FlattenBody(R, f)
  <2> HIDE DEF seqs
  <2>1. 1 \in 1..Size
    BY <1>1
  <2>. QED  BY <1>1, <2>1 DEF FlattenBody
<1> HIDE DEF Body, seqs
<1>4. (CHOOSE f : f = Body(f)) = (CHOOSE f : f = FlattenBody(R, f))
  BY <1>3, Zenon
<1>. QED  BY <1>1, <1>2, <1>4 DEF seqs

LEMMA LeastOfNumbers ==
  ASSUME NEW S \in SUBSET Nat, S # {}
  PROVE  \E i \in S : \A j \in S : i <= j
<1>1. PICK i \in S : \A j \in S : ~(<<j, i>> \in OpToRel(<, Nat))
  BY NatLessThanWellFounded, WFMin
<1>2. i \in Nat /\ \A j \in S : j \in Nat
  OBVIOUS
<1>3. \A j \in S : ~(j < i)
  BY <1>1, <1>2, Zenon DEF OpToRel
<1>. QED  BY <1>2, <1>3

LEMMA FlattenSteps ==
  ASSUME NEW R, NEW g, g = FlattenBody(R, g), NEW i \in 1..Size
  PROVE  g[i] = IF i = 1 THEN ChunkOf(R, 1) ELSE g[i - 1] \o ChunkOf(R, i)
<1>1. FlattenBody(R, g)[i] = IF i = 1 THEN ChunkOf(R, 1) ELSE g[i - 1] \o ChunkOf(R, i)
  BY Zenon DEF FlattenBody
<1>2. g[i] = FlattenBody(R, g)[i]
  BY Zenon
<1>. QED  BY <1>1, <1>2, Zenon

\* The function of that equation, however it was chosen, has the values of f.
LEMMA FlattenIs ==
  ASSUME NEW R \in SUBSET Redaction, NEW f, Fronts(R, f)
  PROVE  FlattenSeq([i \in 1..Size |-> ChunkOf(R, i)]) = f[Size]
<1>0. Size \in Nat
  BY DetectionAssumption
<1>1. f[0] = << >>
  <2>1. 0 \in 0..Size /\ \A r \in R : 0 <= r.match.start
    BY <1>0, MatchFields DEF Redaction
  <2>2. f[0] = TextTo(0)
    BY <2>1 DEF Fronts
  <2>. QED  BY <2>2 DEF TextTo
<1>2. CASE Size = 0
  BY <1>1, <1>2 DEF FlattenSeq
<1>3. CASE Size # 0
  <2> DEFINE g == CHOOSE x : x = FlattenBody(R, x)
             h == [i \in 1..Size |-> f[i]]
  <2>1. h = FlattenBody(R, h)
    <3>1. ASSUME NEW i \in 1..Size
          PROVE  f[i] = IF i = 1 THEN ChunkOf(R, 1) ELSE h[i - 1] \o ChunkOf(R, i)
      <4>1. f[i] = f[i - 1] \o ChunkOf(R, i) /\ ChunkOf(R, i) \in Seq(Cell)
        BY ChunkIsCells DEF Fronts
      <4>2. CASE i = 1
        <5>1. << >> \o ChunkOf(R, 1) = ChunkOf(R, 1)
          BY <4>1, <4>2
        <5>. QED  BY <1>1, <4>1, <4>2, <5>1
      <4>3. CASE i # 1
        <5>1. i - 1 \in 1..Size
          BY <1>0, <4>3
        <5>. QED  BY <4>1, <4>3, <5>1
      <4>. QED  BY <4>2, <4>3
    <3>. QED  BY <3>1 DEF FlattenBody
  <2>2. g = FlattenBody(R, g)
    <3> HIDE DEF h
    <3>. QED  BY <2>1, Zenon
  <2> HIDE DEF g
  <2>3. g[1] = ChunkOf(R, 1) /\ \A i \in 1..Size : i # 1 => g[i] = g[i - 1] \o ChunkOf(R, i)
    <3>1. 1 \in 1..Size
      BY <1>0, <1>3
    <3>. QED  BY <2>2, <3>1, FlattenSteps, Zenon
  <2>4. h[1] = ChunkOf(R, 1) /\ \A i \in 1..Size : i # 1 => h[i] = h[i - 1] \o ChunkOf(R, i)
    <3> HIDE DEF h
    <3>1. 1 \in 1..Size
      BY <1>0, <1>3
    <3>. QED  BY <2>1, <3>1, FlattenSteps, Zenon
  <2> DEFINE Bad == {i \in 1..Size : g[i] # h[i]}
  <2>5. Bad = {}
    <3> SUFFICES ASSUME Bad # {} PROVE FALSE
      OBVIOUS
    <3>1. PICK i \in Bad : \A j \in Bad : i <= j
      <4>1. Bad \subseteq Nat
        BY <1>0
      <4> HIDE DEF Bad
      <4>. QED  BY <4>1, LeastOfNumbers
    <3>2. i \in 1..Size /\ g[i] # h[i]
      OBVIOUS
    <3>3. i # 1
      BY <2>3, <2>4, <3>2
    <3>4. i - 1 \in 1..Size
      BY <1>0, <3>2, <3>3
    <3>5. g[i - 1] = h[i - 1]
      <4>1. i - 1 \notin Bad
        <5> HIDE DEF Bad
        <5>. QED  BY <3>1, <3>2, <1>0
      <4>. QED  BY <3>4, <4>1
    <3> HIDE DEF Bad, h
    <3>. QED  BY <2>3, <2>4, <3>2, <3>3, <3>5
  <2>6. g[Size] = h[Size] /\ h[Size] = f[Size]
    <3>1. Size \in 1..Size
      BY <1>0, <1>3
    <3>. QED  BY <2>5, <3>1
  <2>. QED  BY <1>3, <2>6, FlattenWalks DEF g
<1>. QED  BY <1>2, <1>3

-----------------------------------------------------------------------------
\* The redactions are those of the matches spliced so far, and with disjoint ones the
\* buffer is put together from them.
ExactInv ==
  /\ {r.match : r \in redactions} = Replaced
  /\ \A r, s \in redactions : r.match = s.match => r = s
  /\ phase \in {"scan", "resolve"} => redactions = {}
  /\ phase \notin {"scan", "resolve"} /\ Disjoint =>
       \E f : Fronts(redactions, f) /\ f[Size] = buffer

\* Nothing changes but the phase and, behind the splices, what was skipped.
LEMMA ExactKept ==
  ASSUME ExactInv, UNCHANGED <<redactions, buffer, resolved>>,
         Replaced' = Replaced, phase' \in {"scan", "resolve"} <=> phase \in {"scan", "resolve"}
  PROVE  ExactInv'
<1>1. Disjoint' <=> Disjoint
  BY DEF Disjoint
<1>. QED  BY <1>1 DEF ExactInv

LEMMA ExactStep ==
  ASSUME IInv, ExactInv, [Next]_vars
  PROVE  ExactInv'
<1>1. CASE ScanRule \/ Sort \/ Resolve
  <2>1. phase \in {"scan", "resolve"} /\ phase' \in {"scan", "resolve"} /\ redactions' = redactions
    BY <1>1 DEF ScanRule, Sort, Resolve
  <2>2. redactions' = {}
    BY <2>1 DEF ExactInv
  <2>3. Replaced' = {}
    BY <2>1 DEF Replaced, Processed
  <2>. QED  BY <2>1, <2>2, <2>3 DEF ExactInv
<1>2. CASE Resolved
  <2>1. /\ phase = "resolve" /\ phase' = "splice" /\ redactions' = redactions
        /\ todo' = resolved /\ resolved' = resolved /\ buffer' = buffer
    BY <1>2 DEF Resolved
  <2>2. redactions' = {} /\ buffer' = TextTo(Size)
    BY <2>1 DEF ExactInv, IInv, PhaseInv, TextTo
  <2>3. Replaced' = {}
    BY <2>1 DEF Replaced, Processed
  <2>4. \E f : Fronts({}, f) /\ f[Size] = TextTo(Size)
    <3> DEFINE f == [n \in 0..Size |-> TextTo(n)]
    <3>1. Fronts({}, f)
      BY TextFronts
    <3>2. f[Size] = TextTo(Size)
      BY DetectionAssumption
    <3> HIDE DEF f
    <3>. QED  BY <3>1, <3>2
  <2>. QED  BY <2>1, <2>2, <2>3, <2>4 DEF ExactInv
<1>3. CASE Skip
  <2>1. PICK m \in todo : /\ phase = "splice" /\ Rightmost(m) /\ m.rule \notin Replacing
                          /\ todo' = todo \ {m} /\ phase' = phase
                          /\ UNCHANGED <<redactions, buffer, resolved>>
    BY <1>3 DEF Skip
  <2>2. Processed' = Processed \cup {m}
    BY <2>1, OrderKept
  <2>3. Replaced' = Replaced
    BY <2>1, <2>2 DEF Replaced
  <2>. QED  BY <2>1, <2>3, ExactKept
<1>4. CASE Splice
  <2>1. PICK m \in todo, size \in FakeSize :
          /\ phase = "splice" /\ phase' = "splice" /\ Rightmost(m) /\ m.rule \in Replacing
          /\ buffer' = Spliced(buffer, m, size)
          /\ redactions' = redactions \cup {[match |-> m, size |-> size]}
          /\ todo' = todo \ {m} /\ resolved' = resolved
    BY <1>4 DEF Splice
  <2>2. /\ m \in Match /\ m \in resolved /\ LeftOf(m.start, Replaced)
        /\ \A p \in Replaced : p \in Match /\ p \in resolved /\ p # m /\ p.rule \in Replacing
    <3>1. \A p \in Replaced : p.rule \in Replacing
      BY DEF Replaced
    <3>. QED  BY <2>1, <3>1, NextMatch
  <2>3. Processed' = Processed \cup {m}
    BY <2>1, OrderKept
  <2>4. Replaced' = Replaced \cup {m}
    BY <2>1, <2>3 DEF Replaced
  <2> DEFINE new == [match |-> m, size |-> size]
  <2>5. new.match = m
    OBVIOUS
  <2>6. \A r \in redactions : r.match \in Replaced
    BY DEF ExactInv
  <2> HIDE DEF new
  <2>7. redactions' = redactions \cup {new}
    BY <2>1 DEF new
  <2>8. {r.match : r \in redactions'} = Replaced'
    BY <2>4, <2>5, <2>7 DEF ExactInv
  <2>9. \A r, s \in redactions' : r.match = s.match => r = s
    BY <2>2, <2>5, <2>6, <2>7 DEF ExactInv
  <2>10. ASSUME Disjoint' PROVE \E f : Fronts(redactions', f) /\ f[Size] = buffer'
    <3>1. Disjoint
      BY <2>1, <2>10 DEF Disjoint
    <3>2. PICK f : Fronts(redactions, f) /\ f[Size] = buffer
      BY <2>1, <3>1 DEF ExactInv
    <3>3. redactions \in SUBSET Redaction
      BY DEF IInv, TypeOK
    <3>4. Single(redactions)
      <4> SUFFICES ASSUME NEW i \in 1..Size, NEW r \in redactions, NEW s \in redactions,
                          Covers(r.match, i), Covers(s.match, i)
                   PROVE  r = s
        BY DEF Single
      <4>1. /\ r.match \in resolved /\ r.match.rule \in Replacing /\ r.match \in Match
            /\ s.match \in resolved /\ s.match.rule \in Replacing /\ s.match \in Match
        BY <2>2, <2>6
      <4>2. Overlap(r.match, s.match)
        BY <4>1, MatchFields, DetectionAssumption DEF Covers, Overlap
      <4>3. r.match = s.match
        BY <3>1, <4>1, <4>2 DEF Disjoint
      <4>. QED  BY <4>3 DEF ExactInv
    <3>5. \A r \in redactions : m.end <= r.match.start
      <4> SUFFICES ASSUME NEW r \in redactions PROVE m.end <= r.match.start
        OBVIOUS
      <4> DEFINE p == r.match
      <4>1. p \in Replaced /\ p \in Match /\ p \in resolved /\ p # m /\ p.rule \in Replacing
        BY <2>2, <2>6
      <4> HIDE DEF p
      <4>2. m.start <= p.start
        BY <2>2, <4>1 DEF LeftOf
      <4>3. ~Overlap(m, p)
        BY <2>1, <2>2, <3>1, <4>1 DEF Disjoint
      <4>4. m.end <= p.start
        BY <2>2, <4>1, <4>2, <4>3, MatchFields DEF Overlap
      <4>. QED  BY <4>4 DEF p
    <3>6. redactions' = redactions \cup {[match |-> m, size |-> size]}
      BY <2>1
    <3>7. \E g : Fronts(redactions', g) /\ g[Size] = Spliced(f[Size], m, size)
      <4> DEFINE T == redactions'
      <4>1. T = redactions \cup {[match |-> m, size |-> size]}
        BY <3>6
      <4> HIDE DEF T
      <4>2. \E g : Fronts(T, g) /\ g[Size] = Spliced(f[Size], m, size)
        BY <2>2, <3>2, <3>3, <3>4, <3>5, <4>1, FrontsSpliced, SMTT(30)
      <4>. QED  BY <4>2 DEF T
    <3>. QED  BY <2>1, <3>2, <3>7
  <2>. QED  BY <2>1, <2>8, <2>9, <2>10 DEF ExactInv
<1>5. CASE Panic \/ Return \/ UNCHANGED vars
  <2>1. /\ UNCHANGED <<redactions, buffer, resolved, todo>>
        /\ phase' \in {"scan", "resolve"} <=> phase \in {"scan", "resolve"}
    BY <1>5 DEF Panic, Return, vars
  <2>2. Replaced' = Replaced
    BY <2>1 DEF Replaced, Processed
  <2>. QED  BY <2>1, <2>2, ExactKept
<1>. QED  BY <1>1, <1>2, <1>3, <1>4, <1>5 DEF Next

\* With disjoint matches, however many and however long their fakes, the splices put
\* every fake whole into its place and keep every other byte in order.
THEOREM DisjointTextIsExact == Spec => []DisjointIsExact
<1>1. Init => ExactInv
  <2> SUFFICES ASSUME Init PROVE ExactInv
    OBVIOUS
  <2>1. redactions = {} /\ phase = "scan"
    BY DEF Init
  <2>2. Replaced = {}
    BY <2>1 DEF Replaced, Processed
  <2>. QED  BY <2>1, <2>2 DEF ExactInv
<1>2. IInv /\ IInv' /\ ExactInv /\ [Next]_vars => ExactInv'
  BY ExactStep
<1>3. IInv /\ ExactInv => DisjointIsExact
  <2> SUFFICES ASSUME IInv, ExactInv, phase = "done", Disjoint
               PROVE  /\ buffer = FlattenSeq([i \in 1..Size |-> Chunk(i)])
                      /\ {r.match : r \in redactions} = {m \in resolved : m.rule \in Replacing}
    BY DEF DisjointIsExact
  <2>1. todo = {} /\ redactions \in SUBSET Redaction
    BY DEF IInv, PhaseInv, TypeOK
  <2>2. Replaced = {m \in resolved : m.rule \in Replacing}
    BY <2>1 DEF Replaced, Processed
  <2>3. PICK f : Fronts(redactions, f) /\ f[Size] = buffer
    BY DEF ExactInv
  <2>4. FlattenSeq([i \in 1..Size |-> ChunkOf(redactions, i)]) = buffer
    BY <2>1, <2>3, FlattenIs
  <2>5. [i \in 1..Size |-> ChunkOf(redactions, i)] = [i \in 1..Size |-> Chunk(i)]
    BY DEF Chunk, ChunkOf
  <2>. QED  BY <2>2, <2>4, <2>5 DEF ExactInv
<1>. QED  BY Invariance, <1>1, <1>2, <1>3, PTL DEF Spec

=============================================================================
