----------------------- MODULE StreamingDeanon_proofs -----------------------
(***************************************************************************)
(* Proofs about StreamingDeanon, for any bytes, frames and rules: what the *)
(* body holds back, and that for clean rules the stream implements         *)
(* BodyRestoration, by the lemmas of Substitution_proofs.                  *)
(***************************************************************************)
EXTENDS StreamingDeanon, Substitution_proofs

-----------------------------------------------------------------------------
(***************************************************************************)
(* The rules of a response                                                 *)
(***************************************************************************)

\* What max_fake_len is.
LEMMA LongestFake ==
  ASSUME NEW rules \in Seq(RedactionRule)
  PROVE  LET m == Max({0} \cup {Len(f) : f \in FakesIn(rules)})
         IN  m \in Nat /\ \A i \in 1..Len(rules) : Len(rules[i].fake) <= m
<1> DEFINE n == Len(rules)
           L == [i \in 1..n |-> Len(rules[i].fake)]
           S == {0} \cup {Len(f) : f \in FakesIn(rules)}
<1>1. /\ n \in Nat /\ DOMAIN rules = 1..n
      /\ \A i \in 1..n : Len(rules[i].fake) \in Nat
  <2>1. \A i \in 1..n : rules[i] \in RedactionRule
    BY ElementOfSeq
  <2>. QED  BY <2>1, LenProperties DEF RedactionRule
<1>2. L \in Seq(Nat) /\ Len(L) = n
  BY <1>1
<1>3. PICK b \in Nat : \A i \in 1..n : L[i] <= b
  <2> HIDE DEF L
  <2>. QED  BY <1>2, SequenceBounded
<1>4. \A y \in S : y \in Nat /\ y <= b
  BY <1>1, <1>3 DEF FakesIn
<1>5. \A i \in 1..n : Len(rules[i].fake) \in S
  BY <1>1 DEF FakesIn
<1>6. S # {} /\ S \in SUBSET Nat
  BY <1>4
<1> HIDE DEF S
<1>7. Max(S) \in S /\ \A y \in S : Max(S) >= y
  BY <1>3, <1>4, <1>6, BoundedMax
<1>. QED  BY <1>1, <1>4, <1>5, <1>7 DEF S

LEMMA RuleIs == RedactionRule = RuleOver(Byte)
  BY DEF RedactionRule, RuleOver

\* The fake of every redaction has a last redaction.
LEMMA LastRedaction ==
  ASSUME NEW s \in Setup, NEW j \in DOMAIN s.inflight
  PROVE  \E i \in DOMAIN s.inflight :
           /\ s.inflight[i].fake = s.inflight[j].fake
           /\ \A k \in DOMAIN s.inflight : s.inflight[k].fake = s.inflight[i].fake => k <= i
<1> DEFINE r == s.inflight
           n == Len(r)
           S == {i \in 1..n : r[i].fake = r[j].fake}
<1>1. n \in Nat /\ DOMAIN r = 1..n
  BY StreamingAssumption, LenProperties
<1>2. j \in S /\ S \in SUBSET (1..n)
  BY <1>1
<1> HIDE DEF S
<1>3. Max(S) \in S /\ \A y \in S : Max(S) >= y
  BY <1>1, <1>2, GreatestIs
<1>4. \A y \in S : y <= Max(S)
  BY <1>1, <1>2, <1>3
<1>. QED  BY <1>1, <1>3, <1>4 DEF S

\* The entries of the map: typed, finite, one for every fake.
LEMMA EntriesAre ==
  ASSUME NEW s \in Setup
  PROVE  /\ Entries(s) \subseteq RedactionRule /\ IsFiniteSet(Entries(s))
         /\ {p.fake : p \in Entries(s)} = FakesIn(s.inflight) \cup {p.fake : p \in s.dictionary}
<1> DEFINE r == s.inflight
           d == s.dictionary
           L == {r[i] : i \in {j \in DOMAIN r :
                   \A k \in DOMAIN r : r[k].fake = r[j].fake => k <= j}}
<1>1. r \in Seq(RedactionRule) /\ d \subseteq RedactionRule /\ IsFiniteSet(d)
  BY StreamingAssumption
<1>2. ToSet(r) \subseteq RedactionRule /\ IsFiniteSet(ToSet(r))
  BY <1>1, SequenceRange
<1>3. L \subseteq ToSet(r)
  BY DEF ToSet
<1>4. Entries(s) = {p \in d : p.fake \notin FakesIn(r)} \cup L
  BY Zenon DEF Entries
<1>5. \A j \in DOMAIN r : \E p \in L : p.fake = r[j].fake
  <2>1. SUFFICES ASSUME NEW j \in DOMAIN r
                 PROVE  \E p \in L : p.fake = r[j].fake
    OBVIOUS
  <2>2. PICK i \in DOMAIN r :
           /\ r[i].fake = r[j].fake
           /\ \A k \in DOMAIN r : r[k].fake = r[i].fake => k <= i
    BY LastRedaction
  <2>. QED  BY <2>2
<1> HIDE DEF L, r, d
<1>6. Entries(s) \subseteq d \cup ToSet(r)
  BY <1>3, <1>4
<1>7. IsFiniteSet(d \cup ToSet(r))
  BY <1>1, <1>2, FS_Union
<1>8. IsFiniteSet(Entries(s))
  BY <1>6, <1>7, FS_Subset
<1>9. {p.fake : p \in Entries(s)} = FakesIn(r) \cup {p.fake : p \in d}
  BY <1>3, <1>4, <1>5 DEF FakesIn, ToSet
<1>. QED  BY <1>1, <1>2, <1>6, <1>8, <1>9 DEF r, d

\* The map of a response in any iteration order.
LEMMA MappingIs ==
  ASSUME NEW s \in Setup, NEW m \in SetToSeqs(Entries(s))
  PROVE  /\ m \in Seq(RedactionRule) /\ m \in Seq(Entries(s)) /\ ToSet(m) = Entries(s)
         /\ FakesIn(m) = FakesIn(s.inflight) \cup {p.fake : p \in s.dictionary}
<1>1. m \in Seq(Entries(s)) /\ ToSet(m) = Entries(s)
  BY EntriesAre, SequencesOfSet
<1>2. m \in Seq(RedactionRule)
  <2>1. Entries(s) \subseteq RedactionRule
    BY EntriesAre
  <2>2. \A i \in 1..Len(m) : m[i] \in RedactionRule
    BY <1>1, <2>1, ElementOfSeq
  <2>. QED  BY <1>1, <2>2
<1>3. FakesIn(m) = {p.fake : p \in ToSet(m)}
  BY DEF FakesIn, ToSet
<1>. QED  BY <1>1, <1>2, <1>3, EntriesAre

-----------------------------------------------------------------------------
(***************************************************************************)
(* Clean rules keep apart                                                  *)
(***************************************************************************)

LEMMA WithinBy ==
  ASSUME NEW s \in Seq(Byte), NEW t \in Seq(Byte), NEW i \in 0..Len(t) - Len(s),
         \A j \in 1..Len(s) : t[i + j] = s[j]
  PROVE  Within(s, t)
<1> DEFINE n == Len(s)
           u == SubSeq(t, i + 1, i + n)
<1>1. n \in Nat /\ Len(t) \in Nat /\ i \in Nat /\ i + n <= Len(t)
  BY LenProperties
<1>2. u \in Seq(Byte) /\ Len(u) = n /\ \A j \in 1..n : u[j] = t[i + j]
  <2> HIDE DEF n
  <2>. QED  BY <1>1
<1>3. u = s
  <2>1. Len(s) = n /\ \A j \in 1..n : t[i + j] = s[j]
    OBVIOUS
  <2> HIDE DEF u, n
  <2>2. \A j \in 1..n : u[j] = s[j]
    BY <1>2, <2>1
  <2>. QED  BY <1>2, <2>1, <2>2, SameString
<1>. QED  BY <1>3 DEF Within

LEMMA MeetsBy ==
  ASSUME NEW s \in Seq(Byte), NEW t \in Seq(Byte), NEW n \in Nat,
         1 <= n, n <= Len(s), n <= Len(t), n < Len(s) \/ n < Len(t),
         \A j \in 1..n : s[Len(s) - n + j] = t[j]
  PROVE  Meets(s, t)
<1> DEFINE u == SubSeq(s, Len(s) - n + 1, Len(s))
           v == SubSeq(t, 1, n)
<1>1. Len(s) \in Nat /\ Len(t) \in Nat
  BY LenProperties
<1>2. u \in Seq(Byte) /\ Len(u) = n /\ \A j \in 1..n : u[j] = s[Len(s) - n + j]
  BY <1>1
<1>3. v \in Seq(Byte) /\ Len(v) = n /\ \A j \in 1..n : v[j] = t[j]
  BY <1>1
<1>4. u = v
  <2> HIDE DEF u, v
  <2>. QED  BY <1>2, <1>3, SameString, SMTT(60)
<1>5. n \in 1..Min({Len(s), Len(t)})
  <2> DEFINE m == IF Len(s) <= Len(t) THEN Len(s) ELSE Len(t)
  <2>1. m \in {Len(s), Len(t)} /\ \A y \in {Len(s), Len(t)} : m =< y
    BY <1>1
  <2>2. \A x \in {Len(s), Len(t)} : (\A y \in {Len(s), Len(t)} : x =< y) => x = m
    BY <1>1
  <2>3. Min({Len(s), Len(t)}) = m
    BY <2>1, <2>2 DEF Min
  <2>. QED  BY <1>1, <2>3
<1>. QED  BY <1>4, <1>5 DEF Meets

\* Where a string starts whose beginning is at hand.
LEMMA StartsAt ==
  ASSUME NEW s \in Seq(Byte), NEW f \in Seq(Byte), NEW k \in 0..Len(s),
         Starts(Drop(s, k), f)
  PROVE  /\ Len(f) \in Nat /\ k + Len(f) <= Len(s)
         /\ \A j \in 1..Len(f) : s[k + j] = f[j]
<1>1. Len(s) \in Nat /\ Len(f) \in Nat /\ k \in Nat
  BY LenProperties
<1>2. /\ Len(Drop(s, k)) = Len(s) - k
      /\ \A i \in 1..Len(s) - k : Drop(s, k)[i] = s[k + i]
  BY DropIs
<1>3. Len(f) <= Len(s) - k /\ \A j \in 1..Len(f) : Drop(s, k)[j] = f[j]
  BY <1>2 DEF Starts
<1>4. \A j \in 1..Len(f) : j \in 1..Len(s) - k
  BY <1>1, <1>3
<1>. QED  BY <1>1, <1>2, <1>3, <1>4

\* Two texts that share a stretch of letters: f from place k of it, g at its start.
\* Either one contains the other or they meet.
LEMMA Overlap ==
  ASSUME NEW f \in Seq(Byte), NEW g \in Seq(Byte), NEW k \in 0..Len(f) - 1, g # << >>,
         \A j \in 1..Len(g) : k + j <= Len(f) => f[k + j] = g[j]
  PROVE  \/ Within(g, f) /\ k + Len(g) <= Len(f)
         \/ Meets(f, g) /\ k + Len(g) > Len(f)
         \/ k = 0 /\ Within(f, g)
<1>1. Len(f) \in Nat \ {0} /\ Len(g) \in Nat \ {0} /\ k \in Nat
  BY LenProperties, EmptySeq
<1>2. CASE k + Len(g) <= Len(f)
  <2>1. k \in 0..Len(f) - Len(g) /\ \A j \in 1..Len(g) : k + j <= Len(f)
    BY <1>1, <1>2
  <2>. QED  BY <1>2, <2>1, WithinBy
<1>3. CASE k + Len(g) > Len(f) /\ k # 0
  <2> DEFINE n == Len(f) - k
  <2>1. n \in Nat /\ 1 <= n /\ n <= Len(f) /\ n <= Len(g) /\ n < Len(f) /\ Len(f) - n = k
    BY <1>1, <1>3
  <2>2. \A j \in 1..n : f[k + j] = g[j]
    BY <1>1, <1>3
  <2>3. \A j \in 1..n : f[Len(f) - n + j] = g[j]
    BY <2>1, <2>2
  <2> HIDE DEF n
  <2>4. Meets(f, g)
    BY <2>1, <2>3, MeetsBy
  <2>. QED  BY <1>3, <2>4
<1>4. CASE k + Len(g) > Len(f) /\ k = 0
  <2>1. \A j \in 1..Len(f) : j \in 1..Len(g) /\ k + j <= Len(f) /\ k + j = j
    BY <1>1, <1>4
  <2>2. \A j \in 1..Len(f) : g[0 + j] = f[j]
    BY <1>4, <2>1
  <2>3. 0 \in 0..Len(g) - Len(f)
    BY <1>1, <1>4
  <2>4. Within(f, g)
    BY <2>2, <2>3, WithinBy
  <2>. QED  BY <1>4, <2>4
<1>. QED  BY <1>1, <1>2, <1>3, <1>4

LEMMA EmptyIsWithin ==
  ASSUME NEW t \in Seq(Byte)
  PROVE  Within(<< >>, t)
<1>1. 0 \in 0..Len(t) - Len(<< >>) /\ << >> \in Seq(Byte) /\ Len(<< >>) = 0
  BY LenProperties
<1>2. \A j \in 1..Len(<< >>) : t[0 + j] = << >>[j]
  BY <1>1
<1>. QED  BY <1>1, <1>2, WithinBy

LEMMA CleanEntries ==
  ASSUME NEW s \in Setup, Clean(s)
  PROVE  /\ Entries(s) \subseteq s.dictionary \cup ToSet(s.inflight)
         /\ \A p, q \in Entries(s) : p.fake = q.fake => p = q
         /\ \A f, g \in {p.fake : p \in Entries(s)} : ~Meets(f, g) /\ (f # g => ~Within(f, g))
         /\ \A f \in {p.fake : p \in Entries(s)}, o \in {p.original : p \in Entries(s)} :
              ~Meets(f, o) /\ ~Meets(o, f) /\ ~Within(f, o) /\ ~Within(o, f)
<1> DEFINE r == s.inflight
           d == s.dictionary
           E == Entries(s)
<1>1. /\ \A p, q \in ToSet(r) : p.fake = q.fake => p = q
      /\ \A f, g \in {p.fake : p \in d \cup ToSet(r)} : ~Meets(f, g) /\ (f # g => ~Within(f, g))
      /\ \A f \in {p.fake : p \in d \cup ToSet(r)}, o \in {p.original : p \in d \cup ToSet(r)} :
           ~Meets(f, o) /\ ~Meets(o, f) /\ ~Within(f, o) /\ ~Within(o, f)
  BY Zenon DEF Clean
<1>2. \A p, q \in d : p.fake = q.fake => p = q
  BY StreamingAssumption
<1>3. \A p \in E : p \in ToSet(r) \/ (p \in d /\ p.fake \notin FakesIn(r))
  BY DEF Entries, ToSet
<1>4. \A p \in ToSet(r) : p.fake \in FakesIn(r)
  BY DEF ToSet, FakesIn
<1> HIDE DEF r, d, E
<1>5. E \subseteq d \cup ToSet(r)
  BY <1>3
<1>6. \A p, q \in E : p.fake = q.fake => p = q
  BY <1>1, <1>2, <1>3, <1>4
<1>7. /\ {p.fake : p \in E} \subseteq {p.fake : p \in d \cup ToSet(r)}
      /\ {p.original : p \in E} \subseteq {p.original : p \in d \cup ToSet(r)}
  BY <1>5
<1>8. \A f, g \in {p.fake : p \in E} : ~Meets(f, g) /\ (f # g => ~Within(f, g))
  BY <1>1, <1>7
<1>9. \A f \in {p.fake : p \in E}, o \in {p.original : p \in E} :
        ~Meets(f, o) /\ ~Meets(o, f) /\ ~Within(f, o) /\ ~Within(o, f)
  BY <1>1, <1>7
<1>. QED  BY <1>5, <1>6, <1>8, <1>9 DEF E, d, r

\* Clean, letter by letter: the rules of a clean setup keep apart.
LEMMA CleanApart ==
  ASSUME NEW s \in Setup, Clean(s)
  PROVE  Apart(Byte, Entries(s))
<1> DEFINE E == Entries(s)
<1>1. E \subseteq RuleOver(Byte)
  BY EntriesAre, RuleIs
<1>2. \A p \in E : p.fake \in Seq(Byte) /\ p.original \in Seq(Byte)
  BY <1>1 DEF RuleOver
<1>3. \A p, q \in E : p.fake = q.fake => p = q
  BY CleanEntries
<1>4. \A p, q \in E : ~Meets(p.fake, q.fake) /\ (p.fake # q.fake => ~Within(p.fake, q.fake))
  BY CleanEntries
<1>5. \A p, q \in E : /\ ~Meets(q.fake, p.original) /\ ~Meets(p.original, q.fake)
                      /\ ~Within(q.fake, p.original) /\ ~Within(p.original, q.fake)
  BY CleanEntries
<1> HIDE DEF E
<1>6. \A p \in E : p.fake # << >> /\ p.original # << >>
  BY <1>2, <1>5, EmptyIsWithin
<1>7. ASSUME NEW p \in E, NEW q \in E, NEW t \in Seq(Byte), Starts(t, p.fake),
             NEW k \in 0..Len(p.fake) - 1, Starts(Drop(t, k), q.fake)
      PROVE  k = 0 /\ p = q
  <2> DEFINE f == p.fake
             g == q.fake
  <2>1. f \in Seq(Byte) /\ g \in Seq(Byte) /\ f # << >> /\ g # << >>
    BY <1>2, <1>6
  <2>2. Len(f) \in Nat /\ Len(t) \in Nat /\ Len(f) <= Len(t) /\ \A j \in 1..Len(f) : t[j] = f[j]
    BY <1>7, <2>1, LenProperties DEF Starts
  <2>3. k \in 0..Len(t) /\ k \in 0..Len(f) - 1
    BY <2>2
  <2>4. Starts(Drop(t, k), g)
    BY <1>7
  <2>5. ~Meets(f, g) /\ (f # g => ~Within(f, g)) /\ (f # g => ~Within(g, f))
    BY <1>4
  <2> HIDE DEF f, g
  <2>6. Len(g) \in Nat /\ \A j \in 1..Len(g) : t[k + j] = g[j]
    BY <2>1, <2>3, <2>4, StartsAt
  <2>7. \A j \in 1..Len(g) : k + j <= Len(f) => f[k + j] = g[j]
    <3>1. ASSUME NEW j \in 1..Len(g), k + j <= Len(f)
          PROVE  f[k + j] = g[j]
      <4>1. k + j \in 1..Len(f)
        BY <2>2, <2>3, <2>6, <3>1
      <4>. QED  BY <2>2, <2>6, <4>1
    <3>. QED  BY <3>1
  <2>8. \/ Within(g, f) /\ k + Len(g) <= Len(f)
        \/ Meets(f, g)
        \/ k = 0 /\ Within(f, g)
    BY <2>1, <2>3, <2>7, Overlap
  <2>9. f = g
    BY <2>5, <2>8
  <2>10. k = 0
    BY <2>2, <2>3, <2>5, <2>8, <2>9
  <2>. QED  BY <1>3, <2>9, <2>10 DEF f, g
<1>8. ASSUME NEW p \in E, NEW q \in E, NEW x \in Seq(Byte), NEW k \in 0..Len(p.original) - 1
      PROVE  ~Starts(Drop(Cat(p.original, x), k), q.fake)
  <2> DEFINE o == p.original
             f == q.fake
             t == Cat(o, x)
  <2>1. SUFFICES ASSUME Starts(Drop(t, k), f)
                 PROVE  FALSE
    OBVIOUS
  <2>2. o \in Seq(Byte) /\ f \in Seq(Byte) /\ f # << >> /\ k \in 0..Len(o) - 1
    BY <1>2, <1>6
  <2>3. ~Meets(o, f) /\ ~Within(f, o) /\ ~Within(o, f)
    BY <1>5
  <2> HIDE DEF o, f
  <2>4. t \in Seq(Byte) /\ Len(t) = Len(o) + Len(x) /\ Len(o) \in Nat /\ Len(x) \in Nat
        /\ \A j \in 1..Len(o) : t[j] = o[j]
    <3>1. t = o \o x
      BY DEF Cat
    <3> HIDE DEF t
    <3>. QED  BY <2>2, <3>1, ConcatIs
  <2> HIDE DEF t
  <2>5. k \in 0..Len(t)
    BY <2>2, <2>4
  <2>6. Len(f) \in Nat /\ \A j \in 1..Len(f) : t[k + j] = f[j]
    BY <2>1, <2>2, <2>4, <2>5, StartsAt
  <2>7. \A j \in 1..Len(f) : k + j <= Len(o) => o[k + j] = f[j]
    <3>1. ASSUME NEW j \in 1..Len(f), k + j <= Len(o)
          PROVE  o[k + j] = f[j]
      <4>1. k + j \in 1..Len(o)
        BY <2>2, <2>4, <2>6, <3>1
      <4>. QED  BY <2>4, <2>6, <4>1
    <3>. QED  BY <3>1
  <2>. QED  BY <2>2, <2>3, <2>7, Overlap
<1>9. ASSUME NEW p \in E, NEW q \in E, NEW x \in Seq(Byte), NEW k \in 0..Len(q.fake) - 1
      PROVE  ~Starts(Cat(p.original, x), Drop(q.fake, k))
  <2> DEFINE o == p.original
             f == q.fake
             t == Cat(o, x)
             e == Drop(f, k)
  <2>1. SUFFICES ASSUME Starts(t, e)
                 PROVE  FALSE
    OBVIOUS
  <2>2. o \in Seq(Byte) /\ f \in Seq(Byte) /\ o # << >> /\ k \in 0..Len(f) - 1
    BY <1>2, <1>6
  <2>3. ~Meets(f, o) /\ ~Within(f, o) /\ ~Within(o, f)
    BY <1>5
  <2> HIDE DEF o, f
  <2>4. t \in Seq(Byte) /\ Len(t) = Len(o) + Len(x) /\ Len(o) \in Nat /\ Len(x) \in Nat
        /\ \A j \in 1..Len(o) : t[j] = o[j]
    <3>1. t = o \o x
      BY DEF Cat
    <3> HIDE DEF t
    <3>. QED  BY <2>2, <3>1, ConcatIs
  <2>5. Len(f) \in Nat /\ k \in 0..Len(f)
    BY <2>2, LenProperties
  <2>6. Len(e) = Len(f) - k /\ \A j \in 1..Len(f) - k : e[j] = f[k + j]
    BY <2>2, <2>5, DropIs
  <2> HIDE DEF t, e
  <2>7. Len(e) <= Len(t) /\ \A j \in 1..Len(e) : t[j] = e[j]
    BY <2>1 DEF Starts
  <2>8. \A j \in 1..Len(o) : k + j <= Len(f) => f[k + j] = o[j]
    <3>1. ASSUME NEW j \in 1..Len(o), k + j <= Len(f)
          PROVE  f[k + j] = o[j]
      <4>1. j \in 1..Len(f) - k
        BY <2>2, <2>4, <2>5, <3>1
      <4>. QED  BY <2>4, <2>6, <2>7, <4>1
    <3>. QED  BY <3>1
  <2>. QED  BY <2>2, <2>3, <2>8, Overlap
<1>10. Unambiguous(Byte, E)
  <2>1. ASSUME NEW p \in E, NEW q \in E, NEW t \in Seq(Byte), Starts(t, p.fake), Starts(t, q.fake)
        PROVE  p = q
    <3>1. 0 \in 0..Len(p.fake) - 1 /\ Drop(t, 0) = t
      <4>1. Len(p.fake) \in Nat \ {0}
        BY <1>2, <1>6, LenProperties, EmptySeq
      <4>. QED  BY <4>1, DropEnds
    <3>. QED  BY <1>7, <2>1, <3>1
  <2>. QED  BY <1>1, <1>6, <2>1 DEF Unambiguous
<1>11. \A p, q \in E, t \in Seq(Byte) : Starts(t, p.fake) =>
         \A k \in 1..Len(p.fake) - 1 : ~Starts(Drop(t, k), q.fake)
  <2>1. SUFFICES ASSUME NEW p \in E, NEW q \in E, NEW t \in Seq(Byte), Starts(t, p.fake),
                        NEW k \in 1..Len(p.fake) - 1, Starts(Drop(t, k), q.fake)
                 PROVE  FALSE
    OBVIOUS
  <2>2. Len(p.fake) \in Nat
    BY <1>2, LenProperties
  <2>3. k \in 0..Len(p.fake) - 1 /\ k # 0
    BY <2>2
  <2>. QED  BY <1>7, <2>1, <2>3
<1>. QED  BY <1>6, <1>8, <1>9, <1>10, <1>11 DEF Apart, E

\* The buffered path uses the entries of the map, in an order of its own.
LEMMA CleanBuffered ==
  ASSUME NEW s \in Setup, Clean(s)
  PROVE  BufferedRules(s) \in Seq(Entries(s)) /\ ToSet(BufferedRules(s)) = Entries(s)
<1> DEFINE r == s.inflight
           D == {p \in s.dictionary : p.fake \notin FakesIn(s.inflight)}
           t == SetToSeq(D)
           L == {r[i] : i \in {j \in DOMAIN r :
                   \A k \in DOMAIN r : r[k].fake = r[j].fake => k <= j}}
           E == Entries(s)
<1>1. E = D \cup L
  BY Zenon DEF Entries
<1>2. r \in Seq(RedactionRule) /\ IsFiniteSet(D)
  <2>1. D \subseteq s.dictionary /\ IsFiniteSet(s.dictionary)
    BY StreamingAssumption
  <2> HIDE DEF D
  <2>2. IsFiniteSet(D)
    BY <2>1, FS_Subset
  <2>. QED  BY <2>2, StreamingAssumption
<1>3. t \in Seq(D) /\ ToSet(t) = D
  <2> HIDE DEF D
  <2>. QED  BY <1>2, SequencesOfSet
<1>4. ToSet(r) = L
  <2>1. \A p, q \in ToSet(r) : p.fake = q.fake => p = q
    BY Zenon DEF Clean
  <2>2. L \subseteq ToSet(r)
    BY DEF ToSet
  <2>3. ASSUME NEW j \in DOMAIN r
        PROVE  r[j] \in L
    <3>1. PICK i \in DOMAIN r :
             /\ r[i].fake = r[j].fake
             /\ \A k \in DOMAIN r : r[k].fake = r[i].fake => k <= i
      BY LastRedaction
    <3>2. r[i] = r[j]
      BY <2>1, <3>1 DEF ToSet
    <3>3. r[i] \in L
      BY <3>1
    <3>. QED  BY <3>2, <3>3
  <2> HIDE DEF L
  <2>. QED  BY <2>2, <2>3 DEF ToSet
<1>5. BufferedRules(s) = r \o t
  BY DEF BufferedRules
<1> HIDE DEF r, t, D, L, E
<1>6. r \in Seq(E) /\ t \in Seq(E)
  <2>1. \A i \in 1..Len(r) : r[i] \in E
    BY <1>1, <1>2, <1>4, LenProperties DEF ToSet
  <2>2. \A i \in 1..Len(t) : t[i] \in E
    BY <1>1, <1>3, ElementOfSeq
  <2>. QED  BY <1>2, <1>3, <2>1, <2>2
<1>7. r \o t \in Seq(E)
  BY <1>6, ConcatIs
<1>8. ToSet(r \o t) = ToSet(r) \cup ToSet(t)
  <2> DEFINE u == r \o t
  <2>1. /\ u \in Seq(E)
        /\ Len(r) \in Nat /\ Len(t) \in Nat
        /\ Len(u) = Len(r) + Len(t)
        /\ \A i \in 1..Len(r) : u[i] = r[i]
        /\ \A i \in 1..Len(t) : u[Len(r) + i] = t[i]
    BY <1>6, ConcatIs
  <2> HIDE DEF u
  <2>2. DOMAIN u = 1..Len(r) + Len(t) /\ DOMAIN r = 1..Len(r) /\ DOMAIN t = 1..Len(t)
    BY <1>6, <2>1, LenProperties
  <2>3. ASSUME NEW i \in 1..Len(r) + Len(t)
        PROVE  u[i] \in ToSet(r) \cup ToSet(t)
    <3>1. CASE i <= Len(r)
      <4>1. i \in 1..Len(r)
        BY <2>1, <3>1
      <4>. QED  BY <2>1, <2>2, <4>1 DEF ToSet
    <3>2. CASE ~(i <= Len(r))
      <4>1. i - Len(r) \in 1..Len(t) /\ Len(r) + (i - Len(r)) = i
        BY <2>1, <3>2
      <4>2. u[i] = t[i - Len(r)]
        BY <2>1, <4>1
      <4>. QED  BY <2>2, <4>1, <4>2 DEF ToSet
    <3>. QED  BY <3>1, <3>2
  <2>4. \A i \in 1..Len(r) : i \in DOMAIN u /\ r[i] = u[i]
    BY <2>1, <2>2
  <2>5. \A i \in 1..Len(t) : Len(r) + i \in DOMAIN u /\ t[i] = u[Len(r) + i]
    BY <2>1, <2>2
  <2>6. ToSet(u) = ToSet(r) \cup ToSet(t)
    BY <2>2, <2>3, <2>4, <2>5 DEF ToSet
  <2>. QED  BY <2>6 DEF u
<1>. QED  BY <1>1, <1>3, <1>4, <1>5, <1>7, <1>8 DEF E

-----------------------------------------------------------------------------
(***************************************************************************)
(* What is held back                                                       *)
(***************************************************************************)

Frame == [kind : {"data", "trailers", "error", "end"}, bytes : Seq(Byte)]

\* Everything polled is made of bytes, the map is an order of the entries, no more
\* than the window is held back, and a task that sleeps has polled every frame.
WindowInv ==
  /\ TypeOK
  /\ mapping \in SetToSeqs(Entries(setup))
  /\ arrived \in Seq(Frame) /\ text \in Seq(Letter)
  /\ pending \in Seq(Byte) /\ received \in Seq(Byte) /\ out \in Seq(Byte)
  /\ Len(pending) <= Hold
  /\ ~woken => arrived = << >>

LEMMA HoldIs ==
  ASSUME WindowInv
  PROVE  /\ max_fake_len \in Nat /\ Hold \in Nat
         /\ Hold = IF max_fake_len = 0 THEN 0 ELSE max_fake_len - 1
         /\ \A i \in 1..Len(mapping) : Len(mapping[i].fake) <= max_fake_len
         /\ mapping \in Seq(RedactionRule)
<1>1. mapping \in Seq(RedactionRule)
  BY MappingIs DEF WindowInv, TypeOK
<1>2. max_fake_len \in Nat /\ \A i \in 1..Len(mapping) : Len(mapping[i].fake) <= max_fake_len
  BY <1>1, LongestFake DEF max_fake_len
<1> DEFINE m == max_fake_len
<1>3. m \in Nat /\ Hold = Max({0, m - 1})
  BY <1>2 DEF Hold
<1> HIDE DEF m
<1>4. Max({0, m - 1}) = IF 0 >= m - 1 THEN 0 ELSE m - 1
  BY <1>3, MaxOfTwo
<1>5. Hold \in Nat /\ Hold = IF m = 0 THEN 0 ELSE m - 1
  BY <1>3, <1>4
<1>. QED  BY <1>1, <1>2, <1>5 DEF m

LEMMA PieceIs ==
  ASSUME NEW piece \in Piece
  PROVE  /\ piece \in Seq(Letter) /\ piece \in Seq(Byte)
         /\ Opening \o piece \o Closing \in Seq(Byte)
<1>1. PICK n \in 1..MaxPiece : piece \in [1..n -> Letter]
  BY DEF Piece
<1>2. n \in Nat
  BY StreamingAssumption
<1>3. piece \in Seq(Letter)
  BY <1>1, <1>2, SeqDef, Zenon
<1>4. piece \in Seq(Byte)
  BY <1>3, StreamingAssumption
<1>5. Opening \o piece \in Seq(Byte)
  BY <1>4, StreamingAssumption
<1> DEFINE op == Opening \o piece
<1>6. op \in Seq(Byte)
  BY <1>5
<1> HIDE DEF op
<1>7. op \o Closing \in Seq(Byte)
  BY <1>6, StreamingAssumption
<1>. QED  BY <1>3, <1>4, <1>7 DEF op

LEMMA WindowInit == Init => WindowInv
<1> SUFFICES ASSUME Init PROVE WindowInv
  OBVIOUS
<1>1. FakesIn(mapping) = FakesIn(setup.inflight) \cup {p.fake : p \in setup.dictionary}
  BY MappingIs DEF Init
<1>2. mapping \in Seq(RedactionRule)
  BY MappingIs DEF Init
<1>3. Hold \in Nat
  <2>1. max_fake_len \in Nat
    BY <1>2, LongestFake DEF max_fake_len
  <2> DEFINE m == max_fake_len
  <2>2. m \in Nat /\ Hold = Max({0, m - 1})
    BY <2>1 DEF Hold
  <2> HIDE DEF m
  <2>3. Max({0, m - 1}) = IF 0 >= m - 1 THEN 0 ELSE m - 1
    BY <2>2, MaxOfTwo
  <2>. QED  BY <2>2, <2>3
<1>4. << >> \in Seq(Byte) /\ << >> \in Seq(Letter) /\ << >> \in Seq(Frame) /\ Len(<< >>) = 0
  OBVIOUS
<1>5. TypeOK
  <2>1. 0 <= MaxText
    BY StreamingAssumption
  <2>2. arrived = << >> /\ text = << >> /\ pending = << >> /\ DOMAIN << >> = {}
    BY DEF Init
  <2>3. \A i \in DOMAIN arrived : arrived[i].kind \in {"data", "trailers", "error", "end"}
    BY <2>2
  <2>4. Len(text) <= MaxText /\ (pending # << >> => ~flushed)
    BY <1>4, <2>1, <2>2
  <2>5. /\ setup \in Setup /\ closed \in BOOLEAN /\ inner_done \in BOOLEAN
        /\ flushed \in BOOLEAN /\ failed \in BOOLEAN /\ woken \in BOOLEAN
    BY DEF Init
  <2>. QED  BY <1>1, <2>3, <2>4, <2>5 DEF TypeOK
<1>. QED  BY <1>3, <1>4, <1>5 DEF Init, WindowInv

\* What a poll of a chunk computes, gives out and keeps.
LEMMA ChunkIs ==
  ASSUME WindowInv, PollData
  PROVE  LET b == Head(arrived).bytes
             c == AllReplaced(pending \o b, mapping)
             e == IF Len(c) <= Hold THEN 0 ELSE Len(c) - Hold
         IN  /\ arrived # << >> /\ arrived' = Tail(arrived) /\ b \in Seq(Byte) /\ c \in Seq(Byte)
             /\ e \in 0..Len(c) /\ Len(c) - e <= Hold
             /\ out' = out \o Take(c, e)
             /\ pending' = Drop(c, e)
             /\ received' = received \o b
<1> DEFINE b == Head(arrived).bytes
           c == AllReplaced(pending \o b, mapping)
           e == IF Len(c) <= Hold THEN 0 ELSE Len(c) - Hold
           m == Max({0, Len(c) - Hold})
<1>1. arrived # << >> /\ arrived' = Tail(arrived) /\ arrived \in Seq(Frame)
  BY DEF PollData, PollKind, WindowInv
<1>2. Head(arrived) \in Frame
  BY <1>1
<1>3. b \in Seq(Byte)
  BY <1>2 DEF Frame
<1>4. pending \in Seq(Byte) /\ mapping \in Seq(RuleOver(Byte)) /\ Hold \in Nat
  BY HoldIs, RuleIs DEF WindowInv
<1>5. c \in Seq(Byte)
  <2> DEFINE s == pending \o b
  <2>1. s \in Seq(Byte)
    BY <1>3, <1>4, ConcatIs
  <2> HIDE DEF s
  <2>2. AllReplaced(s, mapping) \in Seq(Byte)
    BY <1>4, <2>1, AllReplacedIsString
  <2>. QED  BY <2>2 DEF s
<1>6. /\ out' = out \o SubSeq(c, 1, m)
      /\ pending' = SubSeq(c, m + 1, Len(c))
      /\ received' = received \o b
  BY DEF PollData
<1> HIDE DEF b, c
<1>7. Len(c) \in Nat
  BY <1>5, LenProperties
<1>8. m = e
  <2>1. m = IF 0 >= Len(c) - Hold THEN 0 ELSE Len(c) - Hold
    BY <1>4, <1>7, MaxOfTwo
  <2> HIDE DEF m
  <2>. QED  BY <1>4, <1>7, <2>1
<1> HIDE DEF m
<1>9. e \in 0..Len(c) /\ Len(c) - e <= Hold
  BY <1>4, <1>7
<1> HIDE DEF e
<1>10. out' = out \o Take(c, e) /\ pending' = Drop(c, e)
  BY <1>6, <1>8 DEF Take, Drop
<1>. QED  BY <1>1, <1>3, <1>5, <1>6, <1>9, <1>10 DEF b, c, e

LEMMA WindowNext == WindowInv /\ [Next]_vars => WindowInv'
<1> SUFFICES ASSUME WindowInv, [Next]_vars PROVE WindowInv'
  OBVIOUS
<1> USE DEF WindowInv
<1>0. Hold \in Nat /\ Len(<< >>) = 0 /\ << >> \in Seq(Byte) /\ Len(text) \in Nat
  BY HoldIs, LenProperties
<1>1. ASSUME NEW frame \in Frame, Arrive(frame), UNCHANGED text \/ (text' \in Seq(Letter) /\ Len(text') <= MaxText),
             closed' \in BOOLEAN
      PROVE  WindowInv'
  <2>1. arrived' \in Seq(Frame) /\ \A i \in DOMAIN arrived' : arrived'[i] \in Frame
    <3>1. arrived' \in Seq(Frame)
      BY <1>1 DEF Arrive
    <3>. QED  BY <3>1
  <2>2. UNCHANGED Hold
    BY <1>1 DEF Arrive, Hold, max_fake_len
  <2>3. TypeOK'
    BY <1>1, <2>1 DEF TypeOK, Arrive, Frame
  <2>. QED  BY <1>1, <2>1, <2>2, <2>3 DEF Arrive
<1>2. ASSUME NEW piece \in Piece, SendPiece(piece)
      PROVE  WindowInv'
  <2> DEFINE f == [kind |-> "data", bytes |-> Opening \o piece \o Closing]
  <2>1. f \in Frame
    BY PieceIs DEF Frame
  <2>2. Arrive(f) /\ text' = text \o piece /\ Len(text) + Len(piece) <= MaxText
    BY <1>2 DEF SendPiece
  <2> HIDE DEF f
  <2>3. text' \in Seq(Letter) /\ Len(text') <= MaxText
    <3>1. piece \in Seq(Letter)
      BY PieceIs
    <3>. QED  BY <2>2, <3>1
  <2>4. closed' \in BOOLEAN
    BY <1>2 DEF SendPiece, TypeOK
  <2>. QED  BY <1>1, <2>1, <2>2, <2>3, <2>4
<1>3. ASSUME NEW kind \in {"trailers", "error", "end"}, SendLast(kind)
      PROVE  WindowInv'
  <2> DEFINE f == [kind |-> kind, bytes |-> << >>]
  <2>1. f \in Frame
    BY <1>0 DEF Frame
  <2>2. Arrive(f) /\ text' = text /\ closed' \in BOOLEAN
    BY <1>3 DEF SendLast
  <2> HIDE DEF f
  <2>. QED  BY <1>1, <2>1, <2>2
<1>4. CASE Flush
  <2>1. UNCHANGED Hold
    BY <1>4 DEF Flush, Hold, max_fake_len
  <2>2. out' \in Seq(Byte)
    <3> DEFINE c == AllReplaced(pending, mapping)
    <3>1. c \in Seq(Byte)
      <4>1. mapping \in Seq(RuleOver(Byte))
        BY HoldIs, RuleIs
      <4>. QED  BY <4>1, AllReplacedIsString
    <3>2. out' = out \o c
      BY <1>4 DEF Flush
    <3> HIDE DEF c
    <3>. QED  BY <3>1, <3>2, ConcatIs
  <2>3. TypeOK'
    BY <1>4 DEF Flush, TypeOK, inner
  <2>. QED  BY <1>0, <1>4, <2>1, <2>2, <2>3 DEF Flush, inner
<1>5. CASE PollNothing
  <2>1. UNCHANGED Hold
    BY <1>5 DEF PollNothing, Hold, max_fake_len
  <2>2. TypeOK'
    BY <1>5 DEF PollNothing, TypeOK, inner
  <2>. QED  BY <1>5, <2>1, <2>2 DEF PollNothing, inner
<1>6. CASE PollEnd \/ PollError \/ PollTrailers
  <2>0. arrived # << >> /\ arrived' = Tail(arrived) /\ woken /\ UNCHANGED <<setup, mapping, pending, woken, text, received, out>>
    BY <1>6 DEF PollEnd, PollError, PollTrailers, PollKind, Polling
  <2>1. UNCHANGED Hold
    BY <2>0 DEF Hold, max_fake_len
  <2>2. arrived' \in Seq(Frame) /\ \A i \in DOMAIN arrived' : arrived'[i] \in Frame
    <3>1. arrived' \in Seq(Frame)
      BY <2>0
    <3>. QED  BY <3>1
  <2>3. TypeOK'
    <3>1. \A i \in DOMAIN arrived' : arrived'[i].kind \in {"data", "trailers", "error", "end"}
      BY <2>2 DEF Frame
    <3>2. /\ closed' \in BOOLEAN /\ inner_done' \in BOOLEAN /\ flushed' \in BOOLEAN
          /\ failed' \in BOOLEAN /\ flushed' = flushed
      BY <1>6 DEF PollEnd, PollError, PollTrailers, TypeOK
    <3>. QED  BY <2>0, <3>1, <3>2 DEF TypeOK
  <2>. QED  BY <2>0, <2>1, <2>2, <2>3 DEF TypeOK
<1>7. CASE PollData
  <2> DEFINE b == Head(arrived).bytes
             c == AllReplaced(pending \o b, mapping)
             e == IF Len(c) <= Hold THEN 0 ELSE Len(c) - Hold
  <2>1. /\ arrived # << >> /\ arrived' = Tail(arrived) /\ b \in Seq(Byte) /\ c \in Seq(Byte)
        /\ e \in 0..Len(c) /\ Len(c) - e <= Hold
        /\ out' = out \o Take(c, e)
        /\ pending' = Drop(c, e)
        /\ received' = received \o b
    BY <1>7, ChunkIs
  <2>2. woken /\ ~flushed /\ UNCHANGED <<setup, mapping, closed, text, inner_done, flushed, failed, woken>>
    BY <1>7 DEF PollData, PollKind, Polling
  <2>3. UNCHANGED Hold
    BY <2>2 DEF Hold, max_fake_len
  <2>4. arrived' \in Seq(Frame) /\ \A i \in DOMAIN arrived' : arrived'[i] \in Frame
    <3>1. arrived' \in Seq(Frame)
      BY <2>1
    <3>. QED  BY <3>1
  <2> HIDE DEF b, c, e
  <2>5. pending' \in Seq(Byte) /\ Len(pending') <= Hold
    BY <2>1, DropIs
  <2>6. out' \in Seq(Byte)
    <3> DEFINE o == Take(c, e)
    <3>1. o \in Seq(Byte)
      BY <2>1, FrontIs
    <3>2. out' = out \o o
      BY <2>1
    <3> HIDE DEF o
    <3>. QED  BY <3>1, <3>2, ConcatIs
  <2>7. received' \in Seq(Byte)
    BY <2>1, ConcatIs
  <2>8. TypeOK'
    BY <2>2, <2>4 DEF TypeOK, Frame
  <2>. QED  BY <2>2, <2>3, <2>4, <2>5, <2>6, <2>7, <2>8
<1>8. CASE UNCHANGED vars
  <2>1. UNCHANGED Hold
    BY <1>8 DEF Hold, max_fake_len, vars
  <2>. QED  BY <1>8, <2>1 DEF vars, TypeOK
<1>. QED  BY <1>2, <1>3, <1>4, <1>5, <1>6, <1>7, <1>8 DEF Next

LEMMA WindowAlways == Spec => []WindowInv
  BY WindowInit, WindowNext, PTL DEF Spec

\* The state has its type: among the rest, the map holds every fake of the
\* redactions and of the snapshot, and nothing is held back once the tail is out.
THEOREM StreamingTypeCorrect == Spec => []TypeOK
<1>1. WindowInv => TypeOK
  BY DEF WindowInv
<1>. QED  BY <1>1, WindowAlways, PTL

\* Whatever the rules, a body that waits for the upstream holds back less than the
\* longest fake and has polled everything that arrived.
THEOREM StreamingWaitsWithLittle == Spec => []WaitsWithLittle
<1>1. WindowInv => WaitsWithLittle
  <2> SUFFICES ASSUME WindowInv, ~woken PROVE arrived = << >> /\ Len(pending) < Max({1, max_fake_len})
    BY DEF WaitsWithLittle
  <2> DEFINE m == max_fake_len
  <2>1. m \in Nat /\ Hold = IF m = 0 THEN 0 ELSE m - 1
    BY HoldIs
  <2>2. arrived = << >> /\ Len(pending) \in Nat /\ Len(pending) <= Hold
    BY LenProperties DEF WindowInv
  <2> HIDE DEF m
  <2>3. Max({1, m}) = IF 1 >= m THEN 1 ELSE m
    BY <2>1, MaxOfTwo
  <2>4. Len(pending) < Max({1, m})
    BY <2>1, <2>2, <2>3
  <2>. QED  BY <2>2, <2>4 DEF m
<1>. QED  BY <1>1, WindowAlways, PTL

-----------------------------------------------------------------------------
(***************************************************************************)
(* The stream implements BodyRestoration                                   *)
(***************************************************************************)

Rules == Entries(setup)

\* Until the tail is out, and whatever the upstream still sends: what was given out,
\* followed by the pass over what is held back and the rest, is the pass over the
\* whole body.
RestoreInv ==
  /\ WindowInv
  /\ Clean(setup)
  /\ ~flushed =>
       \A z \in Seq(Byte) : Cat(out, Restored(Byte, Rules)[Cat(pending, z)]) =
                              Restored(Byte, Rules)[Cat(received, z)]

\* The rules of the map and those of the buffered path come to the same pass.
LEMMA BothAreOnePass ==
  ASSUME setup \in Setup, Clean(setup), mapping \in SetToSeqs(Entries(setup)),
         NEW s \in Seq(Byte)
  PROVE  /\ Apart(Byte, Rules)
         /\ AllReplaced(s, mapping) = Restored(Byte, Rules)[s]
         /\ AllReplaced(s, BufferedRules(setup)) = Restored(Byte, Rules)[s]
         /\ Restored(Byte, Rules)[s] \in Seq(Byte)
<1> DEFINE P == Rules
           b == BufferedRules(setup)
<1>1. Apart(Byte, P)
  BY CleanApart DEF Rules
<1>2. mapping \in Seq(P) /\ ToSet(mapping) = P
  BY MappingIs DEF Rules
<1>3. b \in Seq(P) /\ ToSet(b) = P
  BY CleanBuffered DEF Rules
<1> HIDE DEF P, b
<1>4. AllReplaced(s, mapping) = Restored(Byte, P)[s] /\ AllReplaced(s, b) = Restored(Byte, P)[s]
  BY <1>1, <1>2, <1>3, AllReplacedIsOnePass
<1>5. Restored(Byte, P)[s] \in Seq(Byte)
  <2>1. Unambiguous(Byte, P)
    BY <1>1 DEF Apart
  <2>. QED  BY <2>1, RestoredIsString
<1>. QED  BY <1>1, <1>4, <1>5 DEF P, b

LEMMA RestoreInit == Init /\ Clean(setup) => RestoreInv
<1> SUFFICES ASSUME Init, Clean(setup) PROVE RestoreInv
  OBVIOUS
<1>1. out = << >> /\ pending = << >> /\ received = << >> /\ setup \in Setup
      /\ mapping \in SetToSeqs(Entries(setup))
  BY DEF Init
<1>2. ASSUME NEW z \in Seq(Byte)
      PROVE  Cat(<< >>, Restored(Byte, Rules)[Cat(<< >>, z)]) = Restored(Byte, Rules)[Cat(<< >>, z)]
  <2>1. Cat(<< >>, z) = z
    BY CatIs, EmptySeq
  <2> DEFINE y == Restored(Byte, Rules)[z]
  <2>2. y \in Seq(Byte)
    BY <1>1, BothAreOnePass
  <2> HIDE DEF y
  <2>3. Cat(<< >>, y) = y
    BY <2>2, CatIs, EmptySeq
  <2>. QED  BY <2>1, <2>3 DEF y
<1>. QED  BY <1>1, <1>2, WindowInit DEF RestoreInv

\* A poll of a chunk keeps the balance.
LEMMA ChunkRestores ==
  ASSUME RestoreInv, PollData, NEW z \in Seq(Byte)
  PROVE  Cat(out', Restored(Byte, Rules)[Cat(pending', z)]) =
           Restored(Byte, Rules)[Cat(received', z)]
<1> DEFINE P == Rules
           R == Restored(Byte, P)
           b == Head(arrived).bytes
           c == AllReplaced(pending \o b, mapping)
           e == IF Len(c) <= Hold THEN 0 ELSE Len(c) - Hold
<1>1. /\ b \in Seq(Byte) /\ c \in Seq(Byte)
      /\ e \in 0..Len(c) /\ Len(c) - e <= Hold
      /\ out' = out \o Take(c, e)
      /\ pending' = Drop(c, e)
      /\ received' = received \o b
  BY ChunkIs DEF RestoreInv
<1>2. /\ setup \in Setup /\ Clean(setup) /\ mapping \in SetToSeqs(Entries(setup))
      /\ pending \in Seq(Byte) /\ received \in Seq(Byte) /\ out \in Seq(Byte)
  BY DEF RestoreInv, WindowInv, TypeOK
<1>3. Apart(Byte, P)
  BY <1>2, BothAreOnePass, EmptySeq
<1>4. e > 0 => \A p \in P : Len(p.fake) <= Len(c) - e + 1
  <2>1. SUFFICES ASSUME e > 0, NEW p \in P
                 PROVE  Len(p.fake) <= Len(c) - e + 1
    OBVIOUS
  <2>2. PICK i \in 1..Len(mapping) : p = mapping[i]
    <3>1. mapping \in Seq(Entries(setup)) /\ ToSet(mapping) = Entries(setup)
      BY <1>2, MappingIs
    <3>. QED  BY <3>1, LenProperties DEF Rules, ToSet
  <2>3. /\ Hold \in Nat /\ max_fake_len \in Nat /\ Len(p.fake) <= max_fake_len
        /\ Hold = IF max_fake_len = 0 THEN 0 ELSE max_fake_len - 1
    BY <2>2, HoldIs DEF RestoreInv
  <2>4. Len(p.fake) \in Nat
    <3>1. p.fake \in Seq(Byte)
      BY <1>3 DEF Apart, Unambiguous, RuleOver
    <3>. QED  BY <3>1, LenProperties
  <2>5. Len(c) \in Nat
    BY <1>1, LenProperties
  <2> HIDE DEF c, P
  <2>6. Len(c) - e = Hold
    <3> DEFINE n == Len(c)
               h == Hold
    <3>1. n \in Nat /\ h \in Nat /\ e = (IF n <= h THEN 0 ELSE n - h) /\ e > 0
      BY <2>1, <2>3, <2>5
    <3> HIDE DEF n, h, e
    <3>2. n - e = h
      BY <3>1
    <3>. QED  BY <3>2 DEF n, h
  <2>7. e \in Nat
    <3> HIDE DEF e
    <3>. QED  BY <1>1, <2>5
  <2> HIDE DEF e
  <2>. QED  BY <2>3, <2>4, <2>5, <2>6, <2>7
<1>5. c = R[Cat(pending, b)] /\ Cat(pending, b) \in Seq(Byte)
  <2> DEFINE s == pending \o b
  <2>1. s \in Seq(Byte)
    BY <1>1, <1>2, ConcatIs
  <2> HIDE DEF s
  <2>2. AllReplaced(s, mapping) = R[s]
    BY <1>2, <2>1, BothAreOnePass
  <2>. QED  BY <2>1, <2>2 DEF s, Cat
<1>6. \A y \in Seq(Byte) : Cat(out, R[Cat(pending, y)]) = R[Cat(received, y)]
  BY DEF RestoreInv, PollData, PollKind, Polling
<1>7. \A y \in Seq(Byte) : R[y] \in Seq(Byte)
  BY <1>2, BothAreOnePass
<1> HIDE DEF P, b, c, e
<1>8. NoHit(P, c, Len(c))
  BY <1>3, <1>5, NoFakeLeft
<1> DEFINE o == Take(c, e)
           d == Drop(c, e)
<1>9. o \in Seq(Byte) /\ d \in Seq(Byte) /\ Cat(d, z) \in Seq(Byte) /\ Cat(b, z) \in Seq(Byte)
  <2>1. o \in Seq(Byte)
    BY <1>1, FrontIs
  <2>2. d \in Seq(Byte)
    BY <1>1, DropIs
  <2> HIDE DEF o, d
  <2>. QED  BY <1>1, <2>1, <2>2, CatIsString
<1>10. R[Cat(c, z)] = Cat(o, R[Cat(d, z)])
  BY <1>1, <1>3, <1>4, <1>8, FrontIsFinal
<1>11. R[Cat(c, z)] = R[Cat(Cat(pending, b), z)]
  BY <1>3, <1>5, PassInParts
<1>12. Cat(Cat(pending, b), z) = Cat(pending, Cat(b, z)) /\ Cat(Cat(received, b), z) = Cat(received, Cat(b, z))
  BY <1>1, <1>2, CatThree
<1>13. Cat(out, R[Cat(pending, Cat(b, z))]) = R[Cat(received, Cat(b, z))]
  <2> DEFINE y == Cat(b, z)
  <2>1. y \in Seq(Byte)
    BY <1>9
  <2> HIDE DEF y, R
  <2>2. Cat(out, R[Cat(pending, y)]) = R[Cat(received, y)]
    BY <1>6, <2>1
  <2>. QED  BY <2>2 DEF y
<1> DEFINE w == R[Cat(d, z)]
<1>14. w \in Seq(Byte)
  BY <1>7, <1>9
<1> HIDE DEF o, d, w, R
<1>15. Cat(Cat(out, o), w) = Cat(out, Cat(o, w))
  BY <1>2, <1>9, <1>14, CatThree
<1>16. out' = Cat(out, o) /\ pending' = d /\ received' = Cat(received, b)
  BY <1>1 DEF Cat, o, d
<1>17. R[Cat(received', z)] = Cat(out, R[Cat(c, z)])
  BY <1>11, <1>12, <1>13, <1>16
<1>18. R[Cat(received', z)] = Cat(Cat(out, o), w)
  BY <1>10, <1>15, <1>17 DEF w
<1>19. Cat(out', R[Cat(pending', z)]) = Cat(Cat(out, o), w)
  BY <1>16 DEF w
<1>20. Cat(out', R[Cat(pending', z)]) = R[Cat(received', z)]
  BY <1>18, <1>19
<1>. QED  BY <1>20 DEF R, P

LEMMA FlushRestores ==
  ASSUME RestoreInv, Flush
  PROVE  out' = AllReplaced(received, BufferedRules(setup))
<1> DEFINE R == Restored(Byte, Rules)
<1>1. /\ setup \in Setup /\ Clean(setup) /\ mapping \in SetToSeqs(Entries(setup))
      /\ pending \in Seq(Byte) /\ received \in Seq(Byte) /\ out \in Seq(Byte)
  BY DEF RestoreInv, WindowInv, TypeOK
<1>2. /\ AllReplaced(pending, mapping) = R[pending]
      /\ AllReplaced(received, BufferedRules(setup)) = R[received]
  BY <1>1, BothAreOnePass
<1>3. Cat(out, R[Cat(pending, << >>)]) = R[Cat(received, << >>)]
  BY EmptySeq DEF RestoreInv, Flush, Polling
<1>4. Cat(pending, << >>) = pending /\ Cat(received, << >>) = received
  BY <1>1, CatIs, EmptySeq
<1>5. out' = Cat(out, AllReplaced(pending, mapping))
  BY DEF Flush, Cat
<1> HIDE DEF R
<1>. QED  BY <1>2, <1>3, <1>4, <1>5

LEMMA PrefixBy ==
  ASSUME NEW s \in Seq(Byte), NEW t \in Seq(Byte)
  PROVE  IsPrefix(s, s \o t)
<1> DEFINE u == s \o t
           v == SubSeq(s, 1, Len(s))
           w == SubSeq(u, 1, Len(s))
<1>1. /\ u \in Seq(Byte) /\ Len(s) \in Nat /\ Len(t) \in Nat /\ Len(u) = Len(s) + Len(t)
  BY ConcatIs
<1>2. v = s
  BY SubSeqFull
<1>3. w = s
  <2>1. Take(Cat(s, t), Len(s)) = s
    BY CatIs
  <2>. QED  BY <2>1 DEF Take, Cat
<1>4. Len(s) <= Len(u)
  <2> HIDE DEF u
  <2>. QED  BY <1>1
<1> HIDE DEF u, v, w
<1>5. v = w /\ Len(s) <= Len(u)
  BY <1>2, <1>3, <1>4
<1>. QED  BY <1>5 DEF u, v, w, IsPrefix

\* Only a poll of a chunk and the flush touch what the client reads.
LEMMA QuietSteps ==
  ASSUME WindowInv, [Next]_vars, ~Flush, ~PollData
  PROVE  /\ UNCHANGED <<setup, mapping, pending, received, out>>
         /\ \/ PollError
            \/ UNCHANGED <<flushed, failed>>
<1>1. ASSUME NEW piece \in Piece, SendPiece(piece)
      PROVE  UNCHANGED <<setup, mapping, pending, received, out, flushed, failed>>
  BY <1>1 DEF SendPiece, Arrive
<1>2. ASSUME NEW kind \in {"trailers", "error", "end"}, SendLast(kind)
      PROVE  UNCHANGED <<setup, mapping, pending, received, out, flushed, failed>>
  BY <1>2 DEF SendLast, Arrive
<1>3. CASE PollNothing
  BY <1>3 DEF PollNothing
<1>4. CASE PollEnd
  BY <1>4 DEF PollEnd
<1>5. CASE PollError
  BY <1>5 DEF PollError
<1>6. CASE PollTrailers
  BY <1>6 DEF PollTrailers
<1>7. CASE UNCHANGED vars
  BY <1>7 DEF vars
<1>. QED  BY <1>1, <1>2, <1>3, <1>4, <1>5, <1>6, <1>7 DEF Next

LEMMA RestoreNext == RestoreInv /\ [Next]_vars => RestoreInv'
<1> SUFFICES ASSUME RestoreInv, [Next]_vars PROVE RestoreInv'
  OBVIOUS
<1>0. WindowInv /\ WindowInv'
  BY WindowNext DEF RestoreInv
<1>1. CASE PollData
  <2>1. UNCHANGED setup
    BY <1>1 DEF PollData
  <2>2. UNCHANGED Rules /\ Clean(setup')
    BY <2>1 DEF Rules, RestoreInv
  <2>3. \A z \in Seq(Byte) : Cat(out', Restored(Byte, Rules)[Cat(pending', z)]) =
                              Restored(Byte, Rules)[Cat(received', z)]
    BY <1>1, ChunkRestores
  <2>. QED  BY <1>0, <2>2, <2>3 DEF RestoreInv
<1>2. CASE Flush
  BY <1>0, <1>2 DEF Flush, RestoreInv
<1>3. CASE ~PollData /\ ~Flush
  <2>1. UNCHANGED <<setup, pending, received, out>> /\ (flushed' = flushed)
    BY <1>0, <1>3, QuietSteps DEF PollError
  <2>. QED  BY <1>0, <2>1 DEF RestoreInv, Rules
<1>. QED  BY <1>1, <1>2, <1>3

\* BodyRestoration speaks of the same operators.
LEMMA SameOperators ==
  /\ \A s, t : Restoration!IsPrefix(s, t) = IsPrefix(s, t)
  /\ \A s, r : Restoration!AllReplaced(s, r) = AllReplaced(s, r)
<1>1. \A s, t : Restoration!IsPrefix(s, t) = IsPrefix(s, t)
  BY Zenon DEF Restoration!IsPrefix, IsPrefix
<1>2. \A S : Restoration!Max(S) = Max(S)
  BY Zenon DEF Restoration!Max, Max
<1>3. \A s, r : Restoration!Replaced(s, r) = Replaced(s, r)
  BY Zenon DEF Restoration!Replaced, Replaced
<1>4. \A s, r : Restoration!AllReplaced(s, r) = AllReplaced(s, r)
  BY <1>2, <1>3, Zenon DEF Restoration!AllReplaced, AllReplaced, Restoration!FoldLeft, FoldLeft,
     Restoration!MapThenFoldSet, MapThenFoldSet
<1>. QED  BY <1>1, <1>4

\* Every step of the stream is a step of BodyRestoration or leaves it alone.
LEMMA RestoreStep ==
  RestoreInv /\ RestoreInv' /\ [Next]_vars =>
    [Restoration!Next]_<<BufferedRules(setup), received, out,
                         IF failed THEN "failed" ELSE IF flushed THEN "done" ELSE "open">>
<1> DEFINE rules == BufferedRules(setup)
           end   == IF failed THEN "failed" ELSE IF flushed THEN "done" ELSE "open"
<1> SUFFICES ASSUME RestoreInv, RestoreInv', [Next]_vars
             PROVE  Restoration!Next \/ UNCHANGED <<rules, received, out, end>>
  BY Zenon
<1>1. CASE PollData
  <2>1. ~failed /\ ~flushed /\ UNCHANGED <<setup, failed, flushed>>
    BY <1>1 DEF PollData, PollKind, Polling
  <2>2. end = "open" /\ UNCHANGED rules /\ UNCHANGED end
    BY <2>1
  <2> DEFINE b == Head(arrived).bytes
             c == AllReplaced(pending \o b, mapping)
             e == IF Len(c) <= Hold THEN 0 ELSE Len(c) - Hold
             o == Take(c, e)
  <2>3. b \in Seq(Byte) /\ o \in Seq(Byte) /\ out' = out \o o /\ received' = received \o b
    <3>1. /\ b \in Seq(Byte) /\ c \in Seq(Byte) /\ e \in 0..Len(c)
          /\ out' = out \o o /\ received' = received \o b
      BY <1>1, ChunkIs DEF RestoreInv
    <3> HIDE DEF b, c, e
    <3>. QED  BY <3>1, FrontIs
  <2> HIDE DEF b, o
  <2>4. out \in Seq(Byte) /\ received \in Seq(Byte) /\ out' \in Seq(Byte) /\ received' \in Seq(Byte)
    BY DEF RestoreInv, WindowInv
  <2>5. IsPrefix(received, received') /\ IsPrefix(out, out')
    BY <2>3, <2>4, PrefixBy
  <2>6. IsPrefix(out', AllReplaced(received', BufferedRules(setup)))
    <3> DEFINE R == Restored(Byte, Rules)
    <3>1. /\ setup \in Setup /\ Clean(setup) /\ mapping \in SetToSeqs(Entries(setup))
          /\ pending' \in Seq(Byte)
      BY DEF RestoreInv, WindowInv, TypeOK
    <3>2. AllReplaced(received', BufferedRules(setup)) = R[received']
      <4> DEFINE s == received'
      <4>1. s \in Seq(Byte)
        BY <2>4
      <4> HIDE DEF s
      <4>2. AllReplaced(s, BufferedRules(setup)) = R[s]
        BY <3>1, <4>1, BothAreOnePass
      <4>. QED  BY <4>2 DEF s
    <3>3. R[pending'] \in Seq(Byte)
      <4> DEFINE s == pending'
      <4>1. s \in Seq(Byte)
        BY <3>1
      <4> HIDE DEF s
      <4>2. R[s] \in Seq(Byte)
        BY <3>1, <4>1, BothAreOnePass
      <4>. QED  BY <4>2 DEF s
    <3>4. Cat(out', R[Cat(pending', << >>)]) = R[Cat(received', << >>)]
      BY <1>1, ChunkRestores, EmptySeq
    <3>5. Cat(pending', << >>) = pending' /\ Cat(received', << >>) = received'
      BY <2>4, <3>1, CatIs, EmptySeq
    <3> DEFINE w == R[pending']
    <3>6. w \in Seq(Byte)
      BY <3>3
    <3>7. AllReplaced(received', BufferedRules(setup)) = out' \o w
      BY <3>2, <3>4, <3>5 DEF Cat
    <3> HIDE DEF w
    <3>8. IsPrefix(out', out' \o w)
      BY <2>4, <3>6, PrefixBy
    <3>. QED  BY <3>7, <3>8
  <2>7. rules' = BufferedRules(setup)
    BY <2>2
  <2> HIDE DEF rules, end
  <2>8. Restoration!Flow
    BY <2>2, <2>5, <2>6, SameOperators DEF Restoration!Flow, rules, end
  <2>. QED  BY <2>8 DEF Restoration!Next
<1>2. CASE Flush
  <2>1. ~failed /\ ~flushed /\ flushed' /\ UNCHANGED <<setup, received, failed>>
    BY <1>2 DEF Flush, Polling
  <2>2. out' = AllReplaced(received, BufferedRules(setup))
    BY <1>2, FlushRestores
  <2>3. Restoration!Finish
    BY <2>1, <2>2, SameOperators DEF Restoration!Finish
  <2>. QED  BY <2>3 DEF Restoration!Next
<1>3. CASE PollError
  <2>1. /\ ~failed /\ ~flushed /\ failed' /\ UNCHANGED <<setup, received, out>>
    BY <1>3 DEF PollError, PollKind, Polling
  <2>2. Restoration!Fail
    BY <2>1 DEF Restoration!Fail
  <2>. QED  BY <2>2 DEF Restoration!Next
<1>4. CASE ~PollData /\ ~Flush /\ ~PollError
  <2>1. UNCHANGED <<setup, received, out, flushed, failed>>
    BY <1>4, QuietSteps DEF RestoreInv
  <2>. QED  BY <2>1
<1>. QED  BY <1>1, <1>2, <1>3, <1>4

\* For rules that neither overlap nor meet their originals, the stream implements
\* BodyRestoration with the rules of the buffered path: however the reply is cut
\* into frames, in whatever order the map gives its entries and however polls and
\* frames interleave, the client reads what the buffered path would have given it.
THEOREM StreamRefinesBuffered == Spec /\ Clean(setup) => StreamsAsBuffered
<1>1. Spec /\ Clean(setup) => []RestoreInv
  BY RestoreInit, RestoreNext, PTL DEF Spec
<1>2. Init => Restoration!Init
  BY DEF Init, Restoration!Init
<1>. QED  BY <1>1, <1>2, RestoreStep, PTL DEF Spec, StreamsAsBuffered, Restoration!Spec

=============================================================================
