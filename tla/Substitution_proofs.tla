------------------------ MODULE Substitution_proofs ------------------------
(***************************************************************************)
(* What the substitution of Substitution computes, for any strings and any *)
(* rules that keep apart: one pass over the text that replaces every fake  *)
(* at once.                                                                *)
(***************************************************************************)
EXTENDS Substitution, NaturalsInduction, WellFoundedInduction, SequenceTheorems,
        FiniteSetTheorems, TLAPS

-----------------------------------------------------------------------------
(***************************************************************************)
(* Strings                                                                 *)
(***************************************************************************)

\* s without its first n letters.
Drop(s, n) == SubSeq(s, n + 1, Len(s))

\* The first n letters of s.
Take(s, n) == SubSeq(s, 1, n)

\* s and then t.
Cat(s, t) == s \o t

\* s starts with f.
Starts(s, f) == Len(f) <= Len(s) /\ \A i \in 1..Len(f) : s[i] = f[i]

\* A nonempty set of naturals has a least element.
LEMMA LeastNumber ==
  ASSUME NEW S \in SUBSET Nat, S # {}
  PROVE  \E i \in S : \A j \in S : i <= j
<1>1. PICK i \in S : \A j \in S : ~(<<j, i>> \in OpToRel(<, Nat))
  BY NatLessThanWellFounded, WFMin
<1>2. i \in Nat /\ \A j \in S : j \in Nat
  OBVIOUS
<1>3. \A j \in S : ~(j < i)
  BY <1>1, <1>2, Zenon DEF OpToRel
<1>. QED  BY <1>2, <1>3

LEMMA MaxOfTwo ==
  ASSUME NEW a \in Int, NEW b \in Int
  PROVE  Max({a, b}) = IF a >= b THEN a ELSE b
<1> DEFINE m == IF a >= b THEN a ELSE b
<1>1. m \in {a, b} /\ \A y \in {a, b} : m >= y
  OBVIOUS
<1>2. \A x \in {a, b} : (\A y \in {a, b} : x >= y) => x = m
  OBVIOUS
<1>. QED  BY <1>1, <1>2 DEF Max

LEMMA BoundedMax ==
  ASSUME NEW S \in SUBSET Nat, S # {}, NEW n \in Nat, \A y \in S : y <= n
  PROVE  Max(S) \in S /\ \A y \in S : Max(S) >= y
<1> DEFINE N == {n - x : x \in S}
<1>1. N \in SUBSET Nat /\ N # {}
  <2>1. \A x \in S : n - x \in Nat
    OBVIOUS
  <2>2. N \in SUBSET Nat
    BY <2>1
  <2>3. PICK x \in S : TRUE
    OBVIOUS
  <2>4. n - x \in N
    OBVIOUS
  <2>. QED  BY <2>2, <2>4
<1>2. PICK m \in N : \A k \in N : m <= k
  <2> HIDE DEF N
  <2>. QED  BY <1>1, LeastNumber, Zenon
<1>3. PICK x \in S : m = n - x
  OBVIOUS
<1>4. \A y \in S : x >= y
  <2>1. SUFFICES ASSUME NEW y \in S
                 PROVE  x >= y
    OBVIOUS
  <2>2. n - y \in N
    OBVIOUS
  <2>3. m <= n - y
    <3> HIDE DEF N
    <3>. QED  BY <1>2, <2>2
  <2>. QED  BY <1>3, <2>3
<1>. QED  BY <1>4 DEF Max

\* A sequence of naturals is bounded.
LEMMA SequenceBounded ==
  ASSUME NEW s \in Seq(Nat)
  PROVE  \E b \in Nat : \A i \in 1..Len(s) : s[i] <= b
<1> DEFINE n      == Len(s)
           Has(k) == \E b \in Nat : \A i \in 1..k : s[i] <= b
           Bad    == {k \in 0..n : ~Has(k)}
<1>1. n \in Nat /\ \A i \in 1..n : s[i] \in Nat
  BY LenProperties, ElementOfSeq
<1>2. SUFFICES ASSUME Bad # {}
               PROVE  FALSE
  <2>1. n \in 0..n
    BY <1>1
  <2> HIDE DEF Has
  <2>2. ASSUME Bad = {}
        PROVE  Has(n)
    BY <2>1, <2>2
  <2>. QED  BY <2>2 DEF Has
<1>3. PICK k \in Bad : \A j \in Bad : k <= j
  <2>1. Bad \in SUBSET Nat
    BY <1>1
  <2> HIDE DEF Bad
  <2>. QED  BY <1>2, <2>1, LeastNumber, Zenon
<1>4. k \in 0..n /\ ~Has(k) /\ k \in Nat
  <2> HIDE DEF Has
  <2>. QED  BY <1>1
<1>5. k # 0
  <2>1. \A i \in 1..0 : s[i] <= 0
    OBVIOUS
  <2>. QED  BY <1>4, <2>1
<1>6. k - 1 \in 0..n /\ ~(k <= k - 1) /\ k \in 1..n
  BY <1>1, <1>4, <1>5
<1>7. Has(k - 1)
  <2>1. k - 1 \notin Bad
    <3> HIDE DEF Bad
    <3>. QED  BY <1>3, <1>6
  <2> HIDE DEF Has
  <2>. QED  BY <1>6, <2>1 DEF Bad
<1>8. PICK b \in Nat : \A i \in 1..k - 1 : s[i] <= b
  BY <1>7
<1>9. b + s[k] \in Nat /\ \A i \in 1..k : s[i] <= b + s[k]
  <2>1. s[k] \in Nat /\ k \in Nat
    BY <1>1, <1>4, <1>6
  <2> HIDE DEF Bad, Has, n
  <2>2. ASSUME NEW i \in 1..k
        PROVE  s[i] <= b + s[k]
    <3>1. i = k \/ i \in 1..k - 1
      BY <2>1
    <3>2. CASE i = k
      BY <2>1, <3>2
    <3>3. CASE i \in 1..k - 1
      <4>1. s[i] \in Nat /\ s[i] <= b
        BY <1>1, <1>6, <1>8, <3>3
      <4>. QED  BY <2>1, <4>1
    <3>. QED  BY <3>1, <3>2, <3>3
  <2>. QED  BY <2>1, <2>2
<1>. QED  BY <1>4, <1>9

LEMMA SequenceRange ==
  ASSUME NEW S, NEW s \in Seq(S)
  PROVE  ToSet(s) \subseteq S /\ IsFiniteSet(ToSet(s))
<1>1. Len(s) \in Nat /\ DOMAIN s = 1..Len(s) /\ s \in [1..Len(s) -> S]
  BY LenProperties
<1>2. s \in Surjection(1..Len(s), ToSet(s))
  BY <1>1 DEF Surjection, ToSet
<1>3. IsFiniteSet(1..Len(s))
  BY <1>1, FS_Interval
<1>. QED  BY <1>1, <1>2, <1>3, FS_Surjection DEF ToSet

\* A nonempty set of strings has a shortest one: what holds of a string when it
\* holds of the shorter ones holds of all.
LEMMA ShortestString ==
  ASSUME NEW A, NEW T \in SUBSET Seq(A), T # {}
  PROVE  \E s \in T : \A t \in Seq(A) : Len(t) < Len(s) => t \notin T
<1> DEFINE N == {Len(s) : s \in T}
<1>1. N \in SUBSET Nat /\ N # {}
  BY LenProperties
<1>2. PICK n \in N : \A m \in N : n <= m
  BY <1>1, LeastNumber, Zenon
<1>3. PICK s \in T : n = Len(s)
  BY <1>2
<1>4. ASSUME NEW t \in Seq(A), Len(t) < Len(s), t \in T
      PROVE  FALSE
  <2>1. Len(t) \in N
    BY <1>4
  <2>2. n <= Len(t) /\ Len(t) \in Nat /\ n \in Nat
    BY <1>1, <1>2, <2>1
  <2>. QED  BY <1>3, <1>4, <2>2
<1>. QED  BY <1>4

LEMMA DropIs ==
  ASSUME NEW A, NEW s \in Seq(A), NEW n \in 0..Len(s)
  PROVE  /\ Drop(s, n) \in Seq(A)
         /\ Len(Drop(s, n)) = Len(s) - n
         /\ \A i \in 1..Len(s) - n : Drop(s, n)[i] = s[n + i]
<1>1. Len(s) \in Nat /\ n \in Nat /\ \A i \in n + 1..Len(s) : s[i] \in A
  BY LenProperties, ElementOfSeq
<1>2. /\ SubSeq(s, n + 1, Len(s)) \in Seq(A)
      /\ Len(SubSeq(s, n + 1, Len(s))) = IF n + 1 <= Len(s) THEN Len(s) - (n + 1) + 1 ELSE 0
      /\ \A i \in 1..Len(s) - (n + 1) + 1 : SubSeq(s, n + 1, Len(s))[i] = s[n + 1 + i - 1]
  <2>1. n + 1 \in Int /\ Len(s) \in Int
    BY <1>1
  <2>. QED  BY <1>1, <2>1, SubSeqProperties
<1>3. \A i : i \in Int => n + 1 + i - 1 = n + i
  BY <1>1
<1>. QED  BY <1>1, <1>2, <1>3 DEF Drop

LEMMA TakeIs ==
  ASSUME NEW A, NEW s \in Seq(A), NEW n \in 0..Len(s)
  PROVE  /\ SubSeq(s, 1, n) \in Seq(A)
         /\ Len(SubSeq(s, 1, n)) = n
         /\ \A i \in 1..n : SubSeq(s, 1, n)[i] = s[i]
<1>1. Len(s) \in Nat /\ n \in Nat /\ \A i \in 1..n : s[i] \in A
  BY LenProperties, ElementOfSeq
<1>2. /\ SubSeq(s, 1, n) \in Seq(A)
      /\ Len(SubSeq(s, 1, n)) = IF 1 <= n THEN n - 1 + 1 ELSE 0
      /\ \A i \in 1..n - 1 + 1 : SubSeq(s, 1, n)[i] = s[1 + i - 1]
  <2>1. 1 \in Int /\ n \in Int
    BY <1>1
  <2>. QED  BY <1>1, <2>1, SubSeqProperties
<1>3. \A i : i \in Int => 1 + i - 1 = i
  OBVIOUS
<1>. QED  BY <1>1, <1>2, <1>3

LEMMA CatIsString ==
  ASSUME NEW A, NEW s \in Seq(A), NEW t \in Seq(A)
  PROVE  Cat(s, t) \in Seq(A)
  BY DEF Cat

LEMMA CatIs ==
  ASSUME NEW A, NEW s \in Seq(A), NEW t \in Seq(A)
  PROVE  /\ Cat(s, t) \in Seq(A)
         /\ Len(Cat(s, t)) = Len(s) + Len(t)
         /\ Take(Cat(s, t), Len(s)) = s
         /\ Drop(Cat(s, t), Len(s)) = t
         /\ s # << >> => Cat(s, t)[1] = s[1]
         /\ Cat(s, << >>) = s /\ Cat(<< >>, s) = s
  BY DEF Cat, Take, Drop

LEMMA CatThree ==
  ASSUME NEW A, NEW s \in Seq(A), NEW t \in Seq(A), NEW u \in Seq(A)
  PROVE  Cat(Cat(s, t), u) = Cat(s, Cat(t, u))
  BY DEF Cat

LEMMA FrontIs ==
  ASSUME NEW A, NEW s \in Seq(A), NEW n \in 0..Len(s)
  PROVE  /\ Take(s, n) \in Seq(A) /\ Len(Take(s, n)) = n
         /\ n < Len(s) => Take(s, n + 1) = Cat(Take(s, n), <<s[n + 1]>>)
  BY DEF Take, Cat

LEMMA ConcatIs ==
  ASSUME NEW A, NEW s \in Seq(A), NEW t \in Seq(A), NEW u, u = s \o t
  PROVE  /\ u \in Seq(A)
         /\ Len(s) \in Nat /\ Len(t) \in Nat
         /\ Len(u) = Len(s) + Len(t)
         /\ \A i \in 1..Len(s) : u[i] = s[i]
         /\ \A i \in 1..Len(t) : u[Len(s) + i] = t[i]
<1>1. Len(s) \in Nat /\ Len(t) \in Nat
  BY LenProperties
<1>2. /\ u \in Seq(A)
      /\ Len(u) = Len(s) + Len(t)
      /\ \A i \in 1..Len(s) + Len(t) : u[i] = IF i <= Len(s) THEN s[i] ELSE t[i - Len(s)]
  BY ConcatProperties, Zenon
<1>3. ASSUME NEW i \in 1..Len(s)
      PROVE  u[i] = s[i]
  <2>1. i \in 1..Len(s) + Len(t) /\ i <= Len(s)
    BY <1>1
  <2>. QED  BY <1>2, <2>1, Zenon
<1>4. ASSUME NEW i \in 1..Len(t)
      PROVE  u[Len(s) + i] = t[i]
  <2>1. Len(s) + i \in 1..Len(s) + Len(t) /\ ~(Len(s) + i <= Len(s)) /\ (Len(s) + i) - Len(s) = i
    BY <1>1
  <2>. QED  BY <1>2, <2>1, Zenon
<1>. QED  BY <1>1, <1>2, <1>3, <1>4

\* Two strings with the same letters are the same.
LEMMA SameString ==
  ASSUME NEW A, NEW s \in Seq(A), NEW t \in Seq(A), NEW n,
         Len(s) = n, Len(t) = n, \A i \in 1..n : s[i] = t[i]
  PROVE  s = t
  BY SeqEqual, Zenon

\* Dropping within what was put in front.
LEMMA DropConcat ==
  ASSUME NEW A, NEW s \in Seq(A), NEW t \in Seq(A), NEW n \in 0..Len(s)
  PROVE  Drop(Cat(s, t), n) = Cat(Drop(s, n), t)
<1> DEFINE st == s \o t
           d  == Drop(s, n)
           l  == Drop(st, n)
           r  == d \o t
<1>1. /\ st \in Seq(A)
      /\ Len(s) \in Nat /\ Len(t) \in Nat /\ n \in Nat
      /\ Len(st) = Len(s) + Len(t)
      /\ \A i \in 1..Len(s) : st[i] = s[i]
      /\ \A i \in 1..Len(t) : st[Len(s) + i] = t[i]
  BY ConcatIs
<1>2. d \in Seq(A) /\ Len(d) = Len(s) - n /\ \A i \in 1..Len(s) - n : d[i] = s[n + i]
  BY DropIs
<1>3. /\ r \in Seq(A)
      /\ Len(r) = Len(d) + Len(t)
      /\ \A i \in 1..Len(d) : r[i] = d[i]
      /\ \A i \in 1..Len(t) : r[Len(d) + i] = t[i]
  <2>1. d \in Seq(A)
    BY <1>2
  <2> HIDE DEF d
  <2>. QED  BY <2>1
<1> HIDE DEF st, d
<1>4. n \in 0..Len(st)
  BY <1>1
<1>5. /\ l \in Seq(A)
      /\ Len(l) = Len(st) - n
      /\ \A i \in 1..Len(st) - n : l[i] = st[n + i]
  BY <1>1, <1>4, DropIs
<1> HIDE DEF l, r
<1> DEFINE len == Len(s) + Len(t) - n
<1>6. Len(l) = len /\ Len(r) = len /\ len \in Nat
  BY <1>1, <1>2, <1>5, <1>3
<1>7. ASSUME NEW i \in 1..len
      PROVE  l[i] = r[i]
  <2>1. i \in 1..Len(st) - n /\ l[i] = st[n + i]
    BY <1>1, <1>5
  <2>2. CASE n + i <= Len(s)
    <3>1. n + i \in 1..Len(s) /\ i \in 1..Len(s) - n /\ i \in 1..Len(d)
      BY <1>1, <1>2, <2>2
    <3>2. st[n + i] = s[n + i] /\ d[i] = s[n + i] /\ r[i] = d[i]
      BY <1>1, <1>2, <1>3, <3>1
    <3>. QED  BY <2>1, <3>2
  <2>3. CASE ~(n + i <= Len(s))
    <3> DEFINE j == n + i - Len(s)
    <3>1. j \in 1..Len(t) /\ n + i = Len(s) + j /\ i = Len(d) + j
      BY <1>1, <1>2, <2>3
    <3>2. st[Len(s) + j] = t[j] /\ r[Len(d) + j] = t[j]
      BY <1>1, <1>3, <3>1
    <3>. QED  BY <2>1, <3>1, <3>2
  <2>. QED  BY <2>2, <2>3
<1> HIDE DEF len
<1>8. l = r
  BY <1>5, <1>3, <1>6, <1>7, SameString
<1>. QED  BY <1>8 DEF l, r, st, d, Cat

\* Dropping all of it, and more.
LEMMA DropFront ==
  ASSUME NEW A, NEW s \in Seq(A), NEW t \in Seq(A), NEW n \in 0..Len(t)
  PROVE  Drop(Cat(s, t), Len(s) + n) = Drop(t, n)
<1> DEFINE st == s \o t
           l  == Drop(s \o t, Len(s) + n)
           r  == Drop(t, n)
<1>1. /\ st \in Seq(A)
      /\ Len(s) \in Nat /\ Len(t) \in Nat /\ n \in Nat
      /\ Len(st) = Len(s) + Len(t)
      /\ \A i \in 1..Len(t) : st[Len(s) + i] = t[i]
  BY ConcatIs
<1>2. r \in Seq(A) /\ Len(r) = Len(t) - n /\ \A i \in 1..Len(t) - n : r[i] = t[n + i]
  BY DropIs
<1>3. l = Drop(st, Len(s) + n)
  OBVIOUS
<1> HIDE DEF st, l, r
<1>4. Len(s) + n \in 0..Len(st) /\ Len(st) - (Len(s) + n) = Len(t) - n
  BY <1>1
<1>5. /\ l \in Seq(A)
      /\ Len(l) = Len(t) - n
      /\ \A i \in 1..Len(t) - n : l[i] = st[(Len(s) + n) + i]
  BY <1>1, <1>3, <1>4, DropIs, ZenonT(60)
<1>6. ASSUME NEW i \in 1..Len(t) - n
      PROVE  l[i] = r[i]
  <2>1. n + i \in 1..Len(t) /\ (Len(s) + n) + i = Len(s) + (n + i)
    BY <1>1
  <2>. QED  BY <1>1, <1>2, <1>5, <2>1
<1>7. l = r
  BY <1>2, <1>5, <1>6, SameString
<1>. QED  BY <1>7 DEF l, r, Cat

LEMMA DropDrop ==
  ASSUME NEW A, NEW s \in Seq(A), NEW m \in 0..Len(s), NEW n \in 0..Len(s) - m
  PROVE  Drop(Drop(s, m), n) = Drop(s, m + n)
<1> DEFINE d == Drop(s, m)
           l == Drop(d, n)
           r == Drop(s, m + n)
<1>1. Len(s) \in Nat /\ m \in Nat /\ n \in Nat /\ m + n \in 0..Len(s)
  BY LenProperties
<1>2. d \in Seq(A) /\ Len(d) = Len(s) - m /\ \A i \in 1..Len(s) - m : d[i] = s[m + i]
  BY DropIs
<1>3. /\ r \in Seq(A)
      /\ Len(r) = Len(s) - (m + n)
      /\ \A i \in 1..Len(s) - (m + n) : r[i] = s[(m + n) + i]
  BY <1>1, DropIs
<1> HIDE DEF d, r
<1>4. /\ l \in Seq(A)
      /\ Len(l) = (Len(s) - m) - n
      /\ \A i \in 1..(Len(s) - m) - n : l[i] = d[n + i]
  <2>1. n \in 0..Len(d)
    BY <1>2
  <2>2. /\ l \in Seq(A)
        /\ Len(l) = Len(d) - n
        /\ \A i \in 1..Len(d) - n : l[i] = d[n + i]
    BY <1>2, <2>1, DropIs, ZenonT(60)
  <2>. QED  BY <1>2, <2>2, Zenon
<1> HIDE DEF l
<1>5. (Len(s) - m) - n = Len(s) - (m + n)
  BY <1>1
<1>6. ASSUME NEW i \in 1..Len(s) - (m + n)
      PROVE  l[i] = r[i]
  <2>1. n + i \in 1..Len(s) - m /\ (m + n) + i = m + (n + i)
    BY <1>1
  <2>. QED  BY <1>2, <1>3, <1>4, <1>5, <2>1
<1>7. l = r
  BY <1>3, <1>4, <1>5, <1>6, SameString, ZenonT(60)
<1>. QED  BY <1>7 DEF l, r, d

LEMMA DropEnds ==
  ASSUME NEW A, NEW s \in Seq(A)
  PROVE  Drop(s, 0) = s /\ Drop(s, Len(s)) = << >>
<1>1. Len(s) \in Nat
  BY LenProperties
<1>2. SubSeq(s, 1, Len(s)) = s
  BY SubSeqFull
<1>3. SubSeq(s, Len(s) + 1, Len(s)) = << >>
  <2>1. Len(s) + 1 \in Int /\ Len(s) \in Int /\ Len(s) < Len(s) + 1
    BY <1>1
  <2>. QED  BY <2>1, SubSeqEmpty
<1>. QED  BY <1>2, <1>3 DEF Drop

\* A string is any front of it and the rest.
LEMMA Halves ==
  ASSUME NEW A, NEW s \in Seq(A), NEW n \in 0..Len(s)
  PROVE  s = Cat(Take(s, n), Drop(s, n))
<1> DEFINE f == SubSeq(s, 1, n)
           d == Drop(s, n)
           r == f \o d
<1>1. Len(s) \in Nat /\ n \in Nat
  BY LenProperties
<1>2. f \in Seq(A) /\ Len(f) = n /\ \A i \in 1..n : f[i] = s[i]
  BY TakeIs
<1>3. d \in Seq(A) /\ Len(d) = Len(s) - n /\ \A i \in 1..Len(s) - n : d[i] = s[n + i]
  BY DropIs
<1> HIDE DEF f, d
<1>4. /\ r \in Seq(A)
      /\ Len(r) = Len(f) + Len(d)
      /\ \A i \in 1..Len(f) : r[i] = f[i]
      /\ \A i \in 1..Len(d) : r[Len(f) + i] = d[i]
  BY <1>2, <1>3, ConcatIs
<1> HIDE DEF r
<1>5. Len(r) = Len(s)
  BY <1>1, <1>2, <1>3, <1>4
<1>6. ASSUME NEW i \in 1..Len(s)
      PROVE  s[i] = r[i]
  <2>1. CASE i <= n
    BY <1>1, <1>2, <1>4, <2>1
  <2>2. CASE ~(i <= n)
    <3> DEFINE j == i - n
    <3>1. j \in 1..Len(s) - n /\ i = n + j
      BY <1>1, <2>2
    <3>2. d[j] = s[n + j] /\ r[n + j] = d[j]
      BY <1>1, <1>2, <1>3, <1>4, <3>1
    <3>. QED  BY <3>1, <3>2
  <2>. QED  BY <2>1, <2>2
<1>7. s = r
  BY <1>4, <1>5, <1>6, SameString
<1>. QED  BY <1>7 DEF r, f, d, Take, Cat

-----------------------------------------------------------------------------
(***************************************************************************)
(* One pass over the text                                                  *)
(***************************************************************************)

RuleOver(A) == [fake : Seq(A), original : Seq(A)]

\* A fake of P starts s.
Hit(P, s)    == \E p \in P : Starts(s, p.fake)
Chosen(P, s) == CHOOSE p \in P : Starts(s, p.fake)

\* No fake starts at the first n letters of s.
NoHit(P, s, n) == \A i \in 0..n - 1 : ~Hit(P, Drop(s, i))

\* What one pass does with s, if it turns shorter strings t into g[t].
OnePass(P, g, s) ==
  IF s = << >> THEN << >>
  ELSE IF Hit(P, s) THEN Cat(Chosen(P, s).original, g[Drop(s, Len(Chosen(P, s).fake))])
  ELSE Cat(<<s[1]>>, g[Drop(s, 1)])

Restored(A, P) == CHOOSE g : g = [s \in Seq(A) |-> OnePass(P, g, s)]

\* Rules a single pass is clear about: no empty fake, and never two fakes to choose
\* from.
Unambiguous(A, P) ==
  /\ P \subseteq RuleOver(A)
  /\ \A p \in P : p.fake # << >>
  /\ \A p, q \in P, s \in Seq(A) : Starts(s, p.fake) /\ Starts(s, q.fake) => p = q

\* The rules P keep apart: besides, two fakes do not overlap in a text, and no fake
\* begins or ends within an original that has been put in.
Apart(A, P) ==
  /\ Unambiguous(A, P)
  /\ \A p \in P : p.original # << >>
  /\ \A p, q \in P, s \in Seq(A) : Starts(s, p.fake) =>
       \A k \in 1..Len(p.fake) - 1 : ~Starts(Drop(s, k), q.fake)
  /\ \A p, q \in P, x \in Seq(A) : \A k \in 0..Len(p.original) - 1 :
       ~Starts(Drop(Cat(p.original, x), k), q.fake)
  /\ \A p, q \in P, x \in Seq(A) : \A k \in 0..Len(q.fake) - 1 :
       ~Starts(Cat(p.original, x), Drop(q.fake, k))

\* One pass looks only at shorter strings.
LEMMA OnePassLooksAhead ==
  ASSUME NEW A, NEW P, Unambiguous(A, P), NEW s \in Seq(A), s # << >>
  PROVE  /\ Hit(P, s) => /\ Chosen(P, s) \in P
                         /\ Chosen(P, s).original \in Seq(A)
                         /\ Drop(s, Len(Chosen(P, s).fake)) \in Seq(A)
                         /\ Len(Drop(s, Len(Chosen(P, s).fake))) < Len(s)
         /\ s[1] \in A /\ Drop(s, 1) \in Seq(A) /\ Len(Drop(s, 1)) < Len(s)
<1>1. Len(s) \in Nat \ {0}
  BY EmptySeq
<1>2. ASSUME Hit(P, s)
      PROVE  /\ Chosen(P, s) \in P
             /\ Chosen(P, s).original \in Seq(A)
             /\ Drop(s, Len(Chosen(P, s).fake)) \in Seq(A)
             /\ Len(Drop(s, Len(Chosen(P, s).fake))) < Len(s)
  <2> DEFINE p == Chosen(P, s)
  <2>1. p \in P /\ Starts(s, p.fake)
    BY <1>2 DEF Hit, Chosen
  <2>2. p.fake \in Seq(A) /\ p.original \in Seq(A) /\ p.fake # << >>
    BY <2>1 DEF Unambiguous, RuleOver
  <2> HIDE DEF p
  <2>3. Len(p.fake) \in 1..Len(s)
    BY <1>1, <2>1, <2>2, EmptySeq DEF Starts
  <2> DEFINE n == Len(p.fake)
  <2>4. Drop(s, n) \in Seq(A) /\ Len(Drop(s, n)) = Len(s) - n
    <3>1. n \in 0..Len(s)
      BY <1>1, <2>3
    <3> HIDE DEF n
    <3>. QED  BY <3>1, DropIs
  <2>. QED  BY <1>1, <2>1, <2>2, <2>3, <2>4 DEF p
<1>3. Drop(s, 1) \in Seq(A) /\ Len(Drop(s, 1)) = Len(s) - 1
  BY <1>1, DropIs
<1>. QED  BY <1>1, <1>2, <1>3, ElementOfSeq

LEMMA OnePassIsString ==
  ASSUME NEW A, NEW P, Unambiguous(A, P), NEW s \in Seq(A), NEW g,
         \A t \in Seq(A) : Len(t) < Len(s) => g[t] \in Seq(A)
  PROVE  OnePass(P, g, s) \in Seq(A)
<1>1. CASE s = << >>
  BY <1>1, EmptySeq DEF OnePass
<1>2. CASE s # << >> /\ Hit(P, s)
  <2> DEFINE o == Chosen(P, s).original
             t == Drop(s, Len(Chosen(P, s).fake))
  <2>1. o \in Seq(A) /\ g[t] \in Seq(A)
    BY <1>2, OnePassLooksAhead
  <2>2. OnePass(P, g, s) = Cat(o, g[t])
    BY <1>2 DEF OnePass
  <2> HIDE DEF o, t
  <2>. QED  BY <2>1, <2>2, CatIsString
<1>3. CASE s # << >> /\ ~Hit(P, s)
  <2> DEFINE h == <<s[1]>>
             t == Drop(s, 1)
  <2>1. h \in Seq(A) /\ g[t] \in Seq(A)
    BY <1>3, OnePassLooksAhead
  <2>2. OnePass(P, g, s) = Cat(h, g[t])
    BY <1>3 DEF OnePass
  <2> HIDE DEF h, t
  <2>. QED  BY <2>1, <2>2, CatIsString
<1>. QED  BY <1>1, <1>2, <1>3

\* It comes to the same with functions that agree on the shorter strings.
LEMMA OnePassAgrees ==
  ASSUME NEW A, NEW P, Unambiguous(A, P), NEW s \in Seq(A), NEW g, NEW h,
         \A t \in Seq(A) : Len(t) < Len(s) => g[t] = h[t]
  PROVE  OnePass(P, g, s) = OnePass(P, h, s)
  BY OnePassLooksAhead DEF OnePass

\* Restored is what its equation says, because it looks at shorter strings only.
LEMMA RestoredEquation ==
  ASSUME NEW A, NEW P, Unambiguous(A, P)
  PROVE  Restored(A, P) = [s \in Seq(A) |-> OnePass(P, Restored(A, P), s)]
<1> DEFINE Below(n)  == {s \in Seq(A) : Len(s) < n}
           Good(g, n) == \A s \in Below(n) : g[s] = OnePass(P, g, s)
<1>1. \A n \in Nat : \E g : Good(g, n)
  <2> DEFINE Bad == {n \in Nat : ~\E g : Good(g, n)}
  <2>1. SUFFICES ASSUME Bad # {}
                 PROVE  FALSE
    OBVIOUS
  <2>2. PICK n \in Bad : \A m \in Bad : n <= m
    <3>1. Bad \in SUBSET Nat
      OBVIOUS
    <3> HIDE DEF Bad
    <3>. QED  BY <2>1, <3>1, LeastNumber, Zenon
  <2>3. n \in Nat /\ ~\E g : Good(g, n)
    OBVIOUS
  <2>4. n # 0
    <3>1. Below(0) = {}
      BY LenProperties
    <3>2. \A g : Good(g, 0)
      BY <3>1
    <3>. QED  BY <2>3, <3>2
  <2>5. n - 1 \in Nat /\ n - 1 \notin Bad
    <3>1. n - 1 \in Nat /\ ~(n <= n - 1)
      BY <2>3, <2>4
    <3>. QED  BY <2>2, <3>1
  <2>6. PICK h : Good(h, n - 1)
    BY <2>5
  <2> DEFINE g == [s \in Below(n) |-> OnePass(P, h, s)]
  <2>7. ASSUME NEW s \in Below(n)
        PROVE  g[s] = OnePass(P, g, s)
    <3>1. s \in Seq(A) /\ Len(s) < n
      OBVIOUS
    <3>2. ASSUME NEW t \in Seq(A), Len(t) < Len(s)
          PROVE  h[t] = g[t]
      <4>1. Len(t) \in Nat /\ Len(s) \in Nat
        BY <3>1, LenProperties
      <4>2. Len(t) < n - 1 /\ Len(t) < n
        <5>1. n \in Nat
          BY <2>3
        <5> HIDE DEF Bad, g
        <5>. QED  BY <3>1, <3>2, <4>1, <5>1
      <4>3. t \in Below(n - 1) /\ t \in Below(n)
        BY <4>2
      <4>. QED  BY <2>6, <4>3
    <3>3. OnePass(P, h, s) = OnePass(P, g, s)
      <4> HIDE DEF g
      <4>. QED  BY <3>1, <3>2, OnePassAgrees
    <3>. QED  BY <3>3
  <2>8. Good(g, n)
    BY <2>7
  <2>. QED  BY <2>3, <2>8
<1>2. ASSUME NEW m \in Nat, NEW n \in Nat, NEW g, NEW h, Good(g, m), Good(h, n),
             NEW s \in Below(m), s \in Below(n)
      PROVE  g[s] = h[s]
  <2> DEFINE Bad == {t \in Seq(A) : t \in Below(m) /\ t \in Below(n) /\ g[t] # h[t]}
  <2>1. SUFFICES ASSUME Bad # {}
                 PROVE  FALSE
    BY <1>2
  <2>2. PICK t \in Bad : \A u \in Seq(A) : Len(u) < Len(t) => u \notin Bad
    <3>1. Bad \in SUBSET Seq(A)
      OBVIOUS
    <3> HIDE DEF Bad
    <3>. QED  BY <2>1, <3>1, ShortestString, Zenon
  <2>3. t \in Seq(A) /\ t \in Below(m) /\ t \in Below(n) /\ g[t] # h[t]
    OBVIOUS
  <2>4. ASSUME NEW u \in Seq(A), Len(u) < Len(t)
        PROVE  g[u] = h[u]
    <3>1. u \in Below(m) /\ u \in Below(n)
      <4>1. Len(u) \in Nat /\ Len(t) \in Nat
        BY <2>3, LenProperties
      <4>. QED  BY <2>3, <2>4, <4>1
    <3>. QED  BY <2>2, <2>4, <3>1
  <2>5. OnePass(P, g, t) = OnePass(P, h, t)
    <3> HIDE DEF Bad
    <3>. QED  BY <2>3, <2>4, OnePassAgrees
  <2>6. g[t] = OnePass(P, g, t) /\ h[t] = OnePass(P, h, t)
    BY <1>2, <2>3
  <2>. QED  BY <2>3, <2>5, <2>6
<1> DEFINE Best(s) == CHOOSE g : Good(g, Len(s) + 1)
           F       == [s \in Seq(A) |-> Best(s)[s]]
<1>3. ASSUME NEW s \in Seq(A)
      PROVE  Len(s) + 1 \in Nat /\ s \in Below(Len(s) + 1) /\ Good(Best(s), Len(s) + 1)
  <2>1. Len(s) + 1 \in Nat /\ Len(s) < Len(s) + 1
    BY LenProperties
  <2>2. \E g : Good(g, Len(s) + 1)
    BY <1>1, <2>1
  <2> HIDE DEF Good
  <2>3. Good(Best(s), Len(s) + 1)
    BY <2>2
  <2>. QED  BY <2>1, <2>3
<1>4. ASSUME NEW s \in Seq(A)
      PROVE  F[s] = OnePass(P, F, s)
  <2> DEFINE g == Best(s)
  <2>1. Good(g, Len(s) + 1) /\ s \in Below(Len(s) + 1) /\ Len(s) + 1 \in Nat
    BY <1>3
  <2>2. F[s] = g[s]
    OBVIOUS
  <2>3. g[s] = OnePass(P, g, s)
    <3> HIDE DEF g
    <3>. QED  BY <2>1
  <2>4. ASSUME NEW t \in Seq(A), Len(t) < Len(s)
        PROVE  g[t] = F[t]
    <3>1. Good(Best(t), Len(t) + 1) /\ t \in Below(Len(t) + 1) /\ Len(t) + 1 \in Nat
      BY <1>3
    <3>2. t \in Below(Len(s) + 1)
      <4>1. Len(t) \in Nat /\ Len(s) \in Nat
        BY LenProperties
      <4>. QED  BY <2>4, <4>1
    <3>3. F[t] = Best(t)[t]
      OBVIOUS
    <3> HIDE DEF Best, g, Good, Below, F
    <3>4. g[t] = Best(t)[t]
      BY <1>2, <2>1, <3>1, <3>2
    <3>. QED  BY <3>3, <3>4
  <2> HIDE DEF F, g
  <2>5. OnePass(P, g, s) = OnePass(P, F, s)
    BY <2>4, OnePassAgrees
  <2>. QED  BY <2>2, <2>3, <2>5
<1>5. F = [s \in Seq(A) |-> OnePass(P, F, s)]
  <2>1. F = [s \in Seq(A) |-> F[s]]
    OBVIOUS
  <2> HIDE DEF F
  <2>. QED  BY <1>4, <2>1
<1> HIDE DEF F
<1>6. \E g : g = [s \in Seq(A) |-> OnePass(P, g, s)]
  BY <1>5
<1>. QED  BY <1>6 DEF Restored

LEMMA FewerRulesApart ==
  ASSUME NEW A, NEW P, Apart(A, P), NEW Q, Q \subseteq P
  PROVE  Apart(A, Q)
  BY Zenon DEF Apart, Unambiguous

\* Restored, letter by letter and fake by fake.
LEMMA RestoredSteps ==
  ASSUME NEW A, NEW P, Unambiguous(A, P)
  PROVE  /\ \A s \in Seq(A) : Restored(A, P)[s] \in Seq(A)
         /\ Restored(A, P)[<< >>] = << >>
         /\ \A s \in Seq(A), p \in P : Starts(s, p.fake) =>
              Restored(A, P)[s] = Cat(p.original, Restored(A, P)[Drop(s, Len(p.fake))])
         /\ \A s \in Seq(A) : s # << >> /\ ~Hit(P, s) =>
              Restored(A, P)[s] = Cat(<<s[1]>>, Restored(A, P)[Drop(s, 1)])
<1> DEFINE g == Restored(A, P)
<1>1. ASSUME NEW s \in Seq(A)
      PROVE  g[s] = OnePass(P, g, s)
  <2>1. g = [t \in Seq(A) |-> OnePass(P, g, t)]
    BY RestoredEquation
  <2> HIDE DEF g
  <2>. QED  BY <2>1
<1> HIDE DEF g
<1>2. \A s \in Seq(A) : g[s] \in Seq(A)
  <2> DEFINE Bad == {s \in Seq(A) : g[s] \notin Seq(A)}
  <2>1. SUFFICES ASSUME Bad # {}
                 PROVE  FALSE
    OBVIOUS
  <2>2. PICK s \in Bad : \A t \in Seq(A) : Len(t) < Len(s) => t \notin Bad
    <3>1. Bad \in SUBSET Seq(A)
      OBVIOUS
    <3> HIDE DEF Bad
    <3>. QED  BY <2>1, <3>1, ShortestString, Zenon
  <2>3. \A t \in Seq(A) : Len(t) < Len(s) => g[t] \in Seq(A)
    BY <2>2
  <2>4. s \in Seq(A) /\ g[s] \notin Seq(A)
    OBVIOUS
  <2>5. OnePass(P, g, s) \in Seq(A)
    BY <2>3, <2>4, OnePassIsString
  <2>. QED  BY <1>1, <2>4, <2>5
<1>3. g[<< >>] = << >>
  BY <1>1, EmptySeq DEF OnePass
<1>4. ASSUME NEW s \in Seq(A), NEW p \in P, Starts(s, p.fake)
      PROVE  g[s] = Cat(p.original, g[Drop(s, Len(p.fake))])
  <2>1. s # << >>
    <3>1. p.fake \in Seq(A) /\ p.fake # << >>
      BY DEF Unambiguous, RuleOver
    <3>. QED  BY <1>4, <3>1, EmptySeq DEF Starts
  <2>2. Hit(P, s)
    BY <1>4 DEF Hit
  <2>3. Chosen(P, s) \in P /\ Starts(s, Chosen(P, s).fake)
    BY <1>4 DEF Chosen
  <2>4. Chosen(P, s) = p
    BY <1>4, <2>3, Zenon DEF Unambiguous
  <2>. QED  BY <1>1, <2>1, <2>2, <2>4 DEF OnePass
<1>5. ASSUME NEW s \in Seq(A), s # << >>, ~Hit(P, s)
      PROVE  g[s] = Cat(<<s[1]>>, g[Drop(s, 1)])
  BY <1>1, <1>5 DEF OnePass
<1>. QED  BY <1>2, <1>3, <1>4, <1>5 DEF g

LEMMA RestoredIsString ==
  ASSUME NEW A, NEW P, Unambiguous(A, P), NEW s \in Seq(A)
  PROVE  Restored(A, P)[s] \in Seq(A)
  BY RestoredSteps

LEMMA RestoredFake ==
  ASSUME NEW A, NEW P, Unambiguous(A, P), NEW s \in Seq(A), NEW p \in P, Starts(s, p.fake)
  PROVE  Restored(A, P)[s] = Cat(p.original, Restored(A, P)[Drop(s, Len(p.fake))])
  BY RestoredSteps

LEMMA RestoredLetter ==
  ASSUME NEW A, NEW P, Unambiguous(A, P), NEW s \in Seq(A), s # << >>, ~Hit(P, s)
  PROVE  Restored(A, P)[s] = Cat(<<s[1]>>, Restored(A, P)[Drop(s, 1)])
  BY RestoredSteps

LEMMA StartsMore ==
  ASSUME NEW A, NEW s \in Seq(A), NEW z \in Seq(A), NEW f \in Seq(A), Starts(s, f)
  PROVE  Starts(Cat(s, z), f)
  BY DEF Starts, Cat

LEMMA StartsCat ==
  ASSUME NEW A, NEW f \in Seq(A), NEW x \in Seq(A)
  PROVE  Cat(f, x) \in Seq(A) /\ Starts(Cat(f, x), f) /\ Drop(Cat(f, x), Len(f)) = x
<1>1. Starts(Cat(f, x), f)
  BY DEF Starts, Cat
<1>. QED  BY <1>1, CatIs

LEMMA StartsWithin ==
  ASSUME NEW A, NEW s \in Seq(A), NEW z \in Seq(A), NEW f \in Seq(A),
         Starts(Cat(s, z), f), Len(f) <= Len(s)
  PROVE  Starts(s, f)
  BY DEF Starts, Cat

\* A string by its first letter.
LEMMA FirstLetter ==
  ASSUME NEW A, NEW s \in Seq(A), s # << >>
  PROVE  /\ s[1] \in A /\ <<s[1]>> \in Seq(A)
         /\ Drop(s, 1) \in Seq(A) /\ Len(Drop(s, 1)) = Len(s) - 1 /\ Len(Drop(s, 1)) < Len(s)
         /\ s = Cat(<<s[1]>>, Drop(s, 1))
<1>1. Len(s) \in Nat \ {0} /\ 1 \in 0..Len(s)
  BY EmptySeq
<1>2. s[1] \in A
  BY <1>1, ElementOfSeq
<1>3. <<s[1]>> \in Seq(A) /\ Take(s, 1) = <<s[1]>>
  <2> DEFINE c == <<s[1]>>
             t == Take(s, 1)
  <2>1. c \in Seq(A) /\ Len(c) = 1 /\ c[1] = s[1]
    BY <1>2
  <2>2. t \in Seq(A) /\ Len(t) = 1 /\ \A i \in 1..1 : t[i] = s[i]
    BY <1>1, TakeIs DEF Take
  <2>3. \A i \in 1..1 : i = 1
    OBVIOUS
  <2> HIDE DEF c, t
  <2>4. t = c
    BY <2>1, <2>2, <2>3, SameString
  <2>. QED  BY <2>1, <2>4 DEF c, t
<1>4. Drop(s, 1) \in Seq(A) /\ Len(Drop(s, 1)) = Len(s) - 1 /\ s = Cat(Take(s, 1), Drop(s, 1))
  BY <1>1, DropIs, Halves
<1>. QED  BY <1>1, <1>2, <1>3, <1>4

LEMMA StartsLetter ==
  ASSUME NEW A, NEW x \in A, NEW e \in Seq(A), NEW f \in Seq(A), NEW i \in 0..Len(f) - 1
  PROVE  Starts(Cat(<<x>>, e), Drop(f, i)) <=> x = f[i + 1] /\ Starts(e, Drop(f, i + 1))
<1> DEFINE d == Drop(f, i)
           t == Drop(f, i + 1)
           c == Cat(<<x>>, e)
<1>1. /\ d \in Seq(A) /\ Len(d) = Len(f) - i
      /\ \A j \in 1..Len(f) - i : d[j] = f[i + j]
  <2>1. i \in 0..Len(f)
    OBVIOUS
  <2>. QED  BY <2>1, DropIs
<1>2. /\ t \in Seq(A) /\ Len(t) = Len(f) - (i + 1)
      /\ \A j \in 1..Len(f) - (i + 1) : t[j] = f[(i + 1) + j]
  <2>1. i + 1 \in 0..Len(f)
    OBVIOUS
  <2>. QED  BY <2>1, DropIs
<1>3. c \in Seq(A) /\ Len(c) = Len(e) + 1 /\ c[1] = x /\ \A j \in 1..Len(e) : c[j + 1] = e[j]
  BY DEF Cat
<1>4. Len(e) \in Nat /\ Len(f) \in Nat /\ i \in Nat
  BY LenProperties
<1> HIDE DEF d, t, c
<1>5. ASSUME Starts(c, d)
      PROVE  x = f[i + 1] /\ Starts(e, t)
  <2>1. Len(d) <= Len(c) /\ \A j \in 1..Len(d) : c[j] = d[j]
    BY <1>5 DEF Starts
  <2>2. x = f[i + 1]
    BY <1>1, <1>3, <1>4, <2>1
  <2>3. ASSUME NEW j \in 1..Len(t)
        PROVE  e[j] = t[j]
    <3>1. j + 1 \in 1..Len(d) /\ j + 1 \in 1..Len(f) - i /\ j \in 1..Len(f) - (i + 1) /\ j \in 1..Len(e)
      BY <1>1, <1>2, <1>3, <1>4, <2>1, SMTT(30)
    <3>2. i + (j + 1) = (i + 1) + j
      BY <1>4
    <3>. QED  BY <1>1, <1>2, <1>3, <2>1, <3>1, <3>2, SMTT(30)
  <2>. QED  BY <1>1, <1>2, <1>3, <1>4, <2>1, <2>2, <2>3 DEF Starts
<1>6. ASSUME x = f[i + 1], Starts(e, t)
      PROVE  Starts(c, d)
  <2>1. Len(t) <= Len(e) /\ \A j \in 1..Len(t) : e[j] = t[j]
    BY <1>6 DEF Starts
  <2>2. ASSUME NEW j \in 1..Len(d)
        PROVE  c[j] = d[j]
    <3>1. CASE j = 1
      BY <1>1, <1>3, <1>4, <1>6, <3>1
    <3>2. CASE j # 1
      <4> DEFINE m == j - 1
      <4>1. m \in 1..Len(t) /\ m \in 1..Len(e) /\ m \in 1..Len(f) - (i + 1) /\ j \in 1..Len(f) - i
            /\ m + 1 = j /\ (i + 1) + m = i + j
        BY <1>1, <1>2, <1>4, <2>1, <3>2
      <4> HIDE DEF m
      <4>2. c[m + 1] = e[m] /\ e[m] = t[m] /\ t[m] = f[(i + 1) + m] /\ d[j] = f[i + j]
        BY <1>1, <1>2, <1>3, <2>1, <4>1
      <4>. QED  BY <4>1, <4>2
    <3>. QED  BY <3>1, <3>2
  <2>. QED  BY <1>1, <1>2, <1>3, <1>4, <2>1, <2>2 DEF Starts
<1>. QED  BY <1>5, <1>6 DEF d, t, c

\* The letters before the first fake stay.
LEMMA RestoredSkips ==
  ASSUME NEW A, NEW P, Unambiguous(A, P), NEW s \in Seq(A), NEW n \in 0..Len(s), NoHit(P, s, n)
  PROVE  Restored(A, P)[s] = Cat(Take(s, n), Restored(A, P)[Drop(s, n)])
<1> DEFINE g    == Restored(A, P)
           Q(k) == g[s] = Cat(Take(s, k), g[Drop(s, k)])
           Bad  == {k \in 0..n : ~Q(k)}
<1>0. Len(s) \in Nat /\ n \in Nat
  BY LenProperties
<1>1. SUFFICES ASSUME Bad # {}
               PROVE  FALSE
  <2>1. n \in 0..n
    BY <1>0
  <2>. QED  BY <2>1
<1>2. PICK k \in Bad : \A i \in Bad : k <= i
  <2>1. Bad \in SUBSET Nat
    BY <1>0
  <2> HIDE DEF Bad
  <2>. QED  BY <1>1, <2>1, LeastNumber, Zenon
<1>3. k \in 0..n /\ ~Q(k)
  OBVIOUS
<1>4. \A t \in Seq(A) : g[t] \in Seq(A)
  BY RestoredIsString
<1>5. k # 0
  <2>1. Take(s, 0) = << >> /\ Drop(s, 0) = s
    BY DropEnds, SubSeqEmpty DEF Take
  <2>2. Cat(<< >>, g[s]) = g[s]
    BY <1>4, CatIs
  <2>. QED  BY <1>3, <2>1, <2>2
<1>6. k - 1 \in 0..n - 1 /\ k - 1 \in 0..n /\ k - 1 \in 0..Len(s) /\ Q(k - 1)
  <2>1. k - 1 \in 0..n - 1 /\ k - 1 \in 0..n /\ k - 1 \in 0..Len(s) /\ ~(k <= k - 1)
    <3> HIDE DEF Bad, Q
    <3>. QED  BY <1>0, <1>3, <1>5
  <2>. QED  BY <1>2, <2>1
<1> HIDE DEF Bad
<1> DEFINE d == Drop(s, k - 1)
           r == g[Drop(s, k)]
           a == Take(s, k - 1)
           c == <<s[k]>>
<1>7. d \in Seq(A) /\ Len(d) = Len(s) - (k - 1) /\ \A i \in 1..Len(s) - (k - 1) : d[i] = s[(k - 1) + i]
  BY <1>6, DropIs
<1>8. d # << >> /\ d[1] = s[k]
  BY <1>0, <1>3, <1>5, <1>7
<1>9. g[d] = Cat(<<d[1]>>, g[Drop(d, 1)])
  <2>1. ~Hit(P, d)
    BY <1>6 DEF NoHit
  <2>. QED  BY <1>7, <1>8, <2>1, RestoredLetter
<1>10. Drop(d, 1) = Drop(s, k)
  <2>1. k - 1 \in 0..Len(s) /\ 1 \in 0..Len(s) - (k - 1) /\ k - 1 + 1 = k
    BY <1>0, <1>3, <1>5
  <2>. QED  BY <2>1, DropDrop
<1>11. g[s] = Cat(a, Cat(c, r))
  BY <1>6, <1>8, <1>9, <1>10
<1>12. r \in Seq(A)
  <2>1. k \in 0..Len(s)
    BY <1>0, <1>3
  <2>2. Drop(s, k) \in Seq(A)
    BY <2>1, DropIs
  <2>. QED  BY <1>4, <2>2
<1>13. a \in Seq(A) /\ c \in Seq(A) /\ Take(s, k) = Cat(a, c)
  <2>1. k \in 1..Len(s) /\ k - 1 + 1 = k /\ k - 1 < Len(s)
    BY <1>0, <1>3, <1>5
  <2>. QED  BY <1>6, <2>1, FrontIs, ElementOfSeq
<1> HIDE DEF r, a, g, c
<1>14. Cat(a, Cat(c, r)) = Cat(Cat(a, c), r)
  BY <1>12, <1>13, CatThree
<1>. QED  BY <1>3, <1>11, <1>13, <1>14 DEF r

LEMMA FrontStays ==
  ASSUME NEW A, NEW P, Unambiguous(A, P), NEW o \in Seq(A), NEW x \in Seq(A),
         NoHit(P, Cat(o, x), Len(o))
  PROVE  Restored(A, P)[Cat(o, x)] = Cat(o, Restored(A, P)[x])
<1>1. /\ Cat(o, x) \in Seq(A) /\ Len(o) \in 0..Len(Cat(o, x))
      /\ Take(Cat(o, x), Len(o)) = o /\ Drop(Cat(o, x), Len(o)) = x
  BY CatIs, LenProperties
<1>2. Restored(A, P)[Cat(o, x)] =
        Cat(Take(Cat(o, x), Len(o)), Restored(A, P)[Drop(Cat(o, x), Len(o))])
  BY <1>1, RestoredSkips
<1>. QED  BY <1>1, <1>2

\* An original that has been put in stays.
LEMMA OriginalStays ==
  ASSUME NEW A, NEW P, Apart(A, P), NEW Q, Q \subseteq P, NEW p \in P, NEW x \in Seq(A)
  PROVE  Restored(A, Q)[Cat(p.original, x)] = Cat(p.original, Restored(A, Q)[x])
<1> Unambiguous(A, Q)
  BY DEF Apart, Unambiguous
<1>1. p.original \in Seq(A)
  BY DEF Apart, Unambiguous, RuleOver
<1>2. NoHit(Q, Cat(p.original, x), Len(p.original))
  BY DEF Apart, Unambiguous, Hit, NoHit
<1>3. Apart(A, Q)
  BY FewerRulesApart
<1>. QED  BY <1>1, <1>2, <1>3, FrontStays

-----------------------------------------------------------------------------
(***************************************************************************)
(* Passes after one another                                                *)
(***************************************************************************)

\* How the rest f of a fake may begin a text that has been restored: only as it
\* begins the text itself.
LEMMA RestOfFake ==
  ASSUME NEW A, NEW Q, Apart(A, Q), NEW P, P \subseteq Q, NEW q \in Q, NEW z \in Seq(A),
         NEW w \in Seq(A), NEW k \in 0..Len(q.fake),
         Starts(Cat(Restored(A, P)[w], z), Drop(q.fake, k))
  PROVE  Starts(Cat(w, z), Drop(q.fake, k))
<1> Unambiguous(A, P)
  BY DEF Apart, Unambiguous
<1> DEFINE f    == q.fake
           g    == Restored(A, P)
           F(v) == \A i \in 0..Len(f) :
                     Starts(Cat(g[v], z), Drop(f, i)) => Starts(Cat(v, z), Drop(f, i))
           Bad  == {v \in Seq(A) : ~F(v)}
<1>0. Apart(A, P) /\ f \in Seq(A)
  BY FewerRulesApart DEF Apart, Unambiguous, RuleOver
<1>1. SUFFICES ASSUME Bad # {}
               PROVE  FALSE
  BY Zenon
<1>2. PICK v \in Bad : \A t \in Seq(A) : Len(t) < Len(v) => t \notin Bad
  <2>1. Bad \in SUBSET Seq(A)
    OBVIOUS
  <2> HIDE DEF Bad
  <2>. QED  BY <1>1, <2>1, ShortestString, Zenon
<1>3. v \in Seq(A) /\ ~F(v)
  OBVIOUS
<1>4. PICK i \in 0..Len(f) : Starts(Cat(g[v], z), Drop(f, i)) /\ ~Starts(Cat(v, z), Drop(f, i))
  BY <1>3
<1>5. \A t \in Seq(A) : Len(t) < Len(v) => F(t)
  BY <1>2
<1> HIDE DEF Bad, F
<1>6. v # << >>
  BY <1>0, <1>4, RestoredSteps
<1>7. Len(f) \in Nat /\ i # Len(f)
  <2>1. CASE i = Len(f)
    <3>1. Drop(f, i) = << >>
      BY <1>0, <2>1, DropEnds
    <3>. QED  BY <1>3, <1>4, <3>1, CatIsString, LenProperties DEF Starts
  <2>. QED  BY <1>0, <2>1, LenProperties
<1>8. CASE Hit(P, v)
  <2>1. PICK p \in P : Starts(v, p.fake)
    BY <1>8 DEF Hit
  <2> DEFINE y == g[Drop(v, Len(p.fake))]
  <2>2. y \in Seq(A) /\ g[v] = Cat(p.original, y) /\ p.original \in Seq(A)
    <3>1. p.fake \in Seq(A) /\ p.original \in Seq(A)
      BY <1>0 DEF Apart, Unambiguous, RuleOver
    <3>2. Len(p.fake) \in 0..Len(v)
      BY <1>3, <2>1, <3>1, LenProperties DEF Starts
    <3>3. Drop(v, Len(p.fake)) \in Seq(A)
      BY <1>3, <3>2, DropIs
    <3>. QED  BY <1>0, <1>3, <2>1, <3>1, <3>3, RestoredFake, RestoredIsString
  <2> HIDE DEF y, g
  <2>3. Cat(g[v], z) = Cat(p.original, Cat(y, z)) /\ Cat(y, z) \in Seq(A)
    <3> DEFINE o == p.original
    <3>1. o \in Seq(A) /\ y \in Seq(A) /\ z \in Seq(A) /\ g[v] = Cat(o, y)
      BY <2>2
    <3> HIDE DEF o
    <3>2. Cat(g[v], z) = Cat(o, Cat(y, z)) /\ Cat(y, z) \in Seq(A)
      BY <3>1, CatThree, CatIsString
    <3>. QED  BY <3>2 DEF o
  <2>4. i \in 0..Len(f) - 1
    BY <1>7
  <2>5. ~Starts(Cat(p.original, Cat(y, z)), Drop(q.fake, i))
    <3>1. p \in Q
      OBVIOUS
    <3>. QED  BY <2>3, <2>4, <3>1 DEF Apart, Unambiguous
  <2>. QED  BY <1>4, <2>3, <2>5
<1>9. CASE ~Hit(P, v)
  <2> DEFINE u == Drop(v, 1)
             c == <<v[1]>>
  <2>1. /\ u \in Seq(A) /\ Len(u) < Len(v) /\ c \in Seq(A) /\ g[u] \in Seq(A)
        /\ v = Cat(c, u)
    <3>1. v[1] \in A /\ u \in Seq(A) /\ Len(u) < Len(v) /\ c \in Seq(A) /\ v = Cat(c, u)
      BY <1>3, <1>6, FirstLetter
    <3>. QED  BY <1>0, <3>1, RestoredIsString
  <2>2. g[v] = Cat(c, g[u])
    BY <1>0, <1>3, <1>6, <1>9, RestoredLetter
  <2> HIDE DEF u, g
  <2>3. Cat(g[v], z) = Cat(c, Cat(g[u], z)) /\ Cat(v, z) = Cat(c, Cat(u, z))
    <3> HIDE DEF c
    <3>. QED  BY <2>1, <2>2, CatThree
  <2> DEFINE a == Cat(g[u], z)
             b == Cat(u, z)
  <2>4. a \in Seq(A) /\ b \in Seq(A)
    BY <2>1, CatIsString
  <2>5. i + 1 \in 0..Len(f)
    BY <1>7
  <2>6. Starts(a, Drop(f, i + 1)) => Starts(b, Drop(f, i + 1))
    BY <1>5, <2>1, <2>5 DEF F
  <2> HIDE DEF a, b, f
  <2>7. /\ Starts(Cat(c, a), Drop(f, i)) => v[1] = f[i + 1] /\ Starts(a, Drop(f, i + 1))
        /\ v[1] = f[i + 1] /\ Starts(b, Drop(f, i + 1)) => Starts(Cat(c, b), Drop(f, i))
    <3>1. i \in 0..Len(f) - 1
      BY <1>7
    <3>2. v[1] \in A
      BY <1>3, <1>6, FirstLetter
    <3>. QED  BY <1>0, <2>4, <3>1, <3>2, StartsLetter
  <2>8. Starts(Cat(c, a), Drop(f, i)) /\ ~Starts(Cat(c, b), Drop(f, i))
    BY <1>4, <2>3 DEF a, b, f
  <2>. QED  BY <2>6, <2>7, <2>8
<1>. QED  BY <1>8, <1>9

\* Where a fake starts, the text is that fake and the rest.
LEMMA FakeAndRest ==
  ASSUME NEW A, NEW s \in Seq(A), NEW f \in Seq(A), Starts(s, f)
  PROVE  /\ Len(f) \in 0..Len(s) /\ Take(s, Len(f)) = f
         /\ Drop(s, Len(f)) \in Seq(A) /\ s = Cat(f, Drop(s, Len(f)))
         /\ Len(Drop(s, Len(f))) = Len(s) - Len(f)
<1> DEFINE n == Len(f)
<1>1. n \in 0..Len(s) /\ n \in Nat
  BY LenProperties DEF Starts
<1>2. Take(s, n) \in Seq(A) /\ Len(Take(s, n)) = n /\ \A i \in 1..n : Take(s, n)[i] = s[i]
  <2> HIDE DEF n
  <2>. QED  BY <1>1, TakeIs DEF Take
<1>3. \A i \in 1..n : s[i] = f[i]
  BY DEF Starts
<1>4. Take(s, n) = f
  <2> DEFINE t == Take(s, n)
  <2>1. t \in Seq(A) /\ Len(t) = n /\ Len(f) = n /\ \A i \in 1..n : t[i] = f[i]
    BY <1>2, <1>3
  <2> HIDE DEF t, n
  <2>2. t = f
    BY <2>1, SameString
  <2>. QED  BY <2>2 DEF t
<1> HIDE DEF n
<1>5. Drop(s, n) \in Seq(A) /\ Len(Drop(s, n)) = Len(s) - n /\ s = Cat(Take(s, n), Drop(s, n))
  BY <1>1, DropIs, Halves
<1>. QED  BY <1>1, <1>4, <1>5 DEF n

\* A fake of another rule goes through a pass unharmed.
LEMMA FakeStays ==
  ASSUME NEW A, NEW Q, Apart(A, Q), NEW P, P \subseteq Q, NEW q \in Q, NEW s \in Seq(A),
         Starts(s, q.fake), ~Hit(P, s)
  PROVE  Restored(A, P)[s] = Cat(q.fake, Restored(A, P)[Drop(s, Len(q.fake))])
<1> Unambiguous(A, P)
  BY DEF Apart, Unambiguous
<1>1. Apart(A, P) /\ q.fake \in Seq(A)
  BY FewerRulesApart DEF Apart, Unambiguous, RuleOver
<1>2. Len(q.fake) \in 0..Len(s) /\ Take(s, Len(q.fake)) = q.fake
  BY <1>1, FakeAndRest
<1>3. ASSUME NEW k \in 0..Len(q.fake) - 1
      PROVE  ~Hit(P, Drop(s, k))
  <2>1. CASE k = 0
    BY <2>1, DropEnds
  <2>2. CASE k # 0
    <3>1. k \in 1..Len(q.fake) - 1
      BY <2>2
    <3>. QED  BY <3>1 DEF Apart, Unambiguous, Hit
  <2>. QED  BY <2>1, <2>2
<1>4. NoHit(P, s, Len(q.fake))
  BY <1>3 DEF NoHit
<1>. QED  BY <1>1, <1>2, <1>4, RestoredSkips

\* No fake that was not there at the front appears there.
LEMMA NoNewFake ==
  ASSUME NEW A, NEW Q, Apart(A, Q), NEW P, P \subseteq Q, NEW R, R \subseteq Q,
         NEW w \in Seq(A), NEW z \in Seq(A), ~Hit(R, Cat(w, z))
  PROVE  ~Hit(R, Cat(Restored(A, P)[w], z))
<1>1. SUFFICES ASSUME NEW q \in R, Starts(Cat(Restored(A, P)[w], z), q.fake)
               PROVE  Starts(Cat(w, z), q.fake)
  BY DEF Hit
<1>2. q \in Q /\ q.fake \in Seq(A) /\ 0 \in 0..Len(q.fake)
  BY LenProperties DEF Apart, Unambiguous, RuleOver
<1>3. Drop(q.fake, 0) = q.fake
  BY <1>2, DropEnds
<1>. QED  BY <1>1, <1>2, <1>3, RestOfFake

\* A pass for one more rule, over what the others left, is a pass for all.
LEMMA PassesAdd ==
  ASSUME NEW A, NEW Q, Apart(A, Q), NEW P, P \subseteq Q, NEW q \in Q, NEW s \in Seq(A)
  PROVE  Restored(A, {q})[Restored(A, P)[s]] = Restored(A, P \cup {q})[s]
<1> Unambiguous(A, P) /\ Unambiguous(A, {q}) /\ Unambiguous(A, P \cup {q})
  BY DEF Apart, Unambiguous
<1> DEFINE g    == Restored(A, P)
           h    == Restored(A, {q})
           b    == Restored(A, P \cup {q})
           F(v) == h[g[v]] = b[v]
           Bad  == {v \in Seq(A) : ~F(v)}
<1>0. Apart(A, P) /\ Apart(A, {q}) /\ Apart(A, P \cup {q})
  BY FewerRulesApart
<1>1. SUFFICES ASSUME Bad # {}
               PROVE  FALSE
  BY Zenon
<1>2. PICK v \in Bad : \A t \in Seq(A) : Len(t) < Len(v) => t \notin Bad
  <2>1. Bad \in SUBSET Seq(A)
    OBVIOUS
  <2> HIDE DEF Bad
  <2>. QED  BY <1>1, <2>1, ShortestString, Zenon
<1>3. v \in Seq(A) /\ h[g[v]] # b[v]
  OBVIOUS
<1>4. \A t \in Seq(A) : Len(t) < Len(v) => h[g[t]] = b[t]
  BY <1>2
<1> HIDE DEF Bad, F
<1>5. \A t \in Seq(A) : g[t] \in Seq(A)
  BY <1>0, RestoredIsString
<1>6. v # << >>
  BY <1>0, <1>3, RestoredSteps
<1>7. ASSUME NEW p \in P \cup {q}, Starts(v, p.fake)
      PROVE  LET t == Drop(v, Len(p.fake))
             IN  /\ p.fake \in Seq(A) /\ p.original \in Seq(A)
                 /\ t \in Seq(A) /\ h[g[t]] = b[t]
                 /\ b[v] = Cat(p.original, b[t])
  <2>1. p.fake \in Seq(A) /\ p.original \in Seq(A) /\ p.fake # << >>
    BY DEF Apart, Unambiguous, RuleOver
  <2>2. Len(p.fake) \in 0..Len(v) /\ Drop(v, Len(p.fake)) \in Seq(A)
        /\ Len(Drop(v, Len(p.fake))) = Len(v) - Len(p.fake)
    BY <1>3, <1>7, <2>1, FakeAndRest
  <2>3. Len(p.fake) > 0 /\ Len(v) \in Nat
    BY <1>3, <2>1, EmptySeq
  <2>4. Len(Drop(v, Len(p.fake))) < Len(v)
    BY <2>2, <2>3
  <2>5. b[v] = Cat(p.original, b[Drop(v, Len(p.fake))])
    BY <1>0, <1>3, <1>7, RestoredFake
  <2>. QED  BY <1>4, <2>1, <2>2, <2>4, <2>5
<1>8. CASE Hit(P, v)
  <2>1. PICK p \in P : Starts(v, p.fake)
    BY <1>8 DEF Hit
  <2> DEFINE t == Drop(v, Len(p.fake))
  <2>2. t \in Seq(A) /\ h[g[t]] = b[t] /\ b[v] = Cat(p.original, b[t])
    BY <1>7, <2>1
  <2>3. g[v] = Cat(p.original, g[t])
    BY <1>0, <1>3, <2>1, RestoredFake
  <2>4. h[Cat(p.original, g[t])] = Cat(p.original, h[g[t]])
    <3>1. p \in P \cup {q} /\ {q} \subseteq P \cup {q} /\ g[t] \in Seq(A)
      BY <1>5, <2>2
    <3>. QED  BY <1>0, <3>1, OriginalStays
  <2>. QED  BY <1>3, <2>2, <2>3, <2>4
<1>9. CASE ~Hit(P, v) /\ Starts(v, q.fake)
  <2> DEFINE t == Drop(v, Len(q.fake))
             u == Cat(q.fake, g[t])
  <2>1. /\ q.fake \in Seq(A) /\ q.original \in Seq(A)
        /\ t \in Seq(A) /\ h[g[t]] = b[t] /\ b[v] = Cat(q.original, b[t])
    BY <1>7, <1>9
  <2>2. g[v] = u
    BY <1>3, <1>9, FakeStays
  <2>3. u \in Seq(A) /\ Starts(u, q.fake) /\ Drop(u, Len(q.fake)) = g[t]
    <3>1. g[t] \in Seq(A)
      BY <1>5, <2>1
    <3>. QED  BY <2>1, <3>1, StartsCat
  <2>4. h[u] = Cat(q.original, h[g[t]])
    <3>1. q \in {q}
      OBVIOUS
    <3> HIDE DEF u
    <3>. QED  BY <1>0, <2>3, <3>1, RestoredFake
  <2>. QED  BY <1>3, <2>1, <2>2, <2>4
<1>10. CASE ~Hit(P \cup {q}, v)
  <2> DEFINE t == Drop(v, 1)
             c == <<v[1]>>
             u == Cat(c, g[t])
  <2>1. /\ t \in Seq(A) /\ Len(t) < Len(v) /\ c \in Seq(A) /\ v[1] \in A
    BY <1>3, <1>6, FirstLetter
  <2>2. ~Hit(P, v) /\ ~Hit({q}, v)
    BY <1>10 DEF Hit
  <2>3. g[v] = u /\ b[v] = Cat(c, b[t])
    BY <1>0, <1>3, <1>6, <1>10, <2>2, RestoredLetter
  <2>4. ~Hit({q}, g[v])
    <3>1. Cat(v, << >>) = v /\ Cat(g[v], << >>) = g[v] /\ << >> \in Seq(A) /\ {q} \subseteq Q
      BY <1>3, <1>5, CatIs, EmptySeq
    <3>2. ~Hit({q}, Cat(g[v], << >>))
      BY <1>3, <2>2, <3>1, NoNewFake
    <3>. QED  BY <3>1, <3>2
  <2>5. u \in Seq(A) /\ u # << >> /\ <<u[1]>> = c /\ Drop(u, 1) = g[t]
    <3>1. g[t] \in Seq(A)
      BY <1>5, <2>1
    <3>2. c # << >> /\ Len(c) = 1 /\ c[1] = v[1]
      OBVIOUS
    <3> HIDE DEF g, t
    <3>3. u \in Seq(A) /\ u # << >> /\ u[1] = v[1]
      BY <2>1, <3>1 DEF Cat
    <3>4. Drop(u, Len(c)) = g[t]
      <4> HIDE DEF c
      <4>. QED  BY <2>1, <3>1, CatIs
    <3>. QED  BY <3>2, <3>3, <3>4
  <2>6. h[u] = Cat(c, h[g[t]])
    <3>1. h[u] = Cat(<<u[1]>>, h[Drop(u, 1)])
      <4>1. u \in Seq(A) /\ u # << >> /\ ~Hit({q}, u)
        BY <2>3, <2>4, <2>5
      <4> HIDE DEF u
      <4>. QED  BY <1>0, <4>1, RestoredLetter
    <3>. QED  BY <2>5, <3>1
  <2>7. h[g[t]] = b[t]
    BY <1>4, <2>1
  <2>. QED  BY <1>3, <2>3, <2>6, <2>7
<1>. QED  BY <1>8, <1>9, <1>10 DEF Hit

\* Text that follows may come before or after the pass over what precedes it.
LEMMA PassInParts ==
  ASSUME NEW A, NEW P, Apart(A, P), NEW w \in Seq(A), NEW z \in Seq(A)
  PROVE  Restored(A, P)[Cat(Restored(A, P)[w], z)] = Restored(A, P)[Cat(w, z)]
<1> Unambiguous(A, P)
  BY DEF Apart, Unambiguous
<1> DEFINE g    == Restored(A, P)
           F(v) == g[Cat(g[v], z)] = g[Cat(v, z)]
           Bad  == {v \in Seq(A) : ~F(v)}
<1>1. SUFFICES ASSUME Bad # {}
               PROVE  FALSE
  BY Zenon
<1>2. PICK v \in Bad : \A t \in Seq(A) : Len(t) < Len(v) => t \notin Bad
  <2>1. Bad \in SUBSET Seq(A)
    OBVIOUS
  <2> HIDE DEF Bad
  <2>. QED  BY <1>1, <2>1, ShortestString, Zenon
<1>3. v \in Seq(A) /\ g[Cat(g[v], z)] # g[Cat(v, z)]
  OBVIOUS
<1>4. \A t \in Seq(A) : Len(t) < Len(v) => g[Cat(g[t], z)] = g[Cat(t, z)]
  BY <1>2
<1> HIDE DEF Bad, F
<1>5. \A t \in Seq(A) : g[t] \in Seq(A)
  BY RestoredIsString
<1>6. v # << >>
  BY <1>3, RestoredSteps
<1>7. CASE Hit(P, v)
  <2>1. PICK p \in P : Starts(v, p.fake)
    BY <1>7 DEF Hit
  <2> DEFINE t == Drop(v, Len(p.fake))
  <2>2. p.fake \in Seq(A) /\ p.original \in Seq(A) /\ p.fake # << >>
    BY DEF Apart, Unambiguous, RuleOver
  <2>3. Len(p.fake) \in 0..Len(v) /\ t \in Seq(A) /\ Len(t) = Len(v) - Len(p.fake)
    <3>1. /\ Len(p.fake) \in 0..Len(v) /\ Drop(v, Len(p.fake)) \in Seq(A)
          /\ Len(Drop(v, Len(p.fake))) = Len(v) - Len(p.fake)
      <4> DEFINE f == p.fake
      <4>1. f \in Seq(A) /\ Starts(v, f)
        BY <2>1, <2>2
      <4> HIDE DEF f, t, g
      <4>2. Len(f) \in 0..Len(v)
        BY <1>3, <4>1, LenProperties DEF Starts
      <4>3. Drop(v, Len(f)) \in Seq(A) /\ Len(Drop(v, Len(f))) = Len(v) - Len(f)
        BY <1>3, <4>2, DropIs
      <4>. QED  BY <4>2, <4>3 DEF f
    <3>. QED  BY <3>1
  <2>4. Len(t) < Len(v)
    BY <1>3, <2>2, <2>3, EmptySeq
  <2>5. g[v] = Cat(p.original, g[t])
    BY <1>3, <2>1, RestoredFake
  <2>6. g[Cat(g[v], z)] = Cat(p.original, g[Cat(g[t], z)])
    <3> DEFINE o == p.original
               y == g[t]
    <3>1. o \in Seq(A) /\ y \in Seq(A) /\ g[v] = Cat(o, y)
      BY <1>5, <2>2, <2>3, <2>5
    <3>2. Cat(Cat(o, y), z) = Cat(o, Cat(y, z)) /\ Cat(y, z) \in Seq(A)
      <4> HIDE DEF o, y
      <4>. QED  BY <3>1, CatThree, CatIsString
    <3>3. g[Cat(p.original, Cat(y, z))] = Cat(p.original, g[Cat(y, z)])
      <4> HIDE DEF y
      <4>. QED  BY <3>2, OriginalStays
    <3>. QED  BY <3>1, <3>2, <3>3
  <2>7. g[Cat(v, z)] = Cat(p.original, g[Cat(t, z)])
    <3>1. Cat(v, z) \in Seq(A) /\ Starts(Cat(v, z), p.fake)
      BY <1>3, <2>1, <2>2, StartsMore, CatIsString
    <3>2. Drop(Cat(v, z), Len(p.fake)) = Cat(t, z)
      BY <1>3, <2>3, DropConcat
    <3>. QED  BY <3>1, <3>2, RestoredFake
  <2>. QED  BY <1>3, <1>4, <2>3, <2>4, <2>6, <2>7
<1>8. CASE ~Hit(P, v) /\ Hit(P, Cat(v, z))
  <2>1. PICK p \in P : Starts(Cat(v, z), p.fake)
    BY <1>8 DEF Hit
  <2>2. p.fake \in Seq(A) /\ Len(p.fake) \in Nat /\ Len(v) \in Nat
    BY <1>3, LenProperties DEF Apart, Unambiguous, RuleOver
  <2>3. Len(v) < Len(p.fake)
    BY <1>3, <1>8, <2>1, <2>2, StartsWithin DEF Hit
  <2>4. ASSUME NEW k \in 0..Len(v) - 1
        PROVE  ~Hit(P, Drop(v, k))
    <3>1. CASE k = 0
      BY <1>3, <1>8, <3>1, DropEnds
    <3>2. CASE k # 0
      <4>1. SUFFICES ASSUME NEW r \in P, Starts(Drop(v, k), r.fake)
                     PROVE  FALSE
        BY DEF Hit
      <4>2. k \in 1..Len(p.fake) - 1 /\ k \in 0..Len(v)
        BY <2>2, <2>3, <3>2
      <4>3. Drop(v, k) \in Seq(A) /\ r.fake \in Seq(A)
        BY <1>3, <4>2, DropIs DEF Apart, Unambiguous, RuleOver
      <4>4. Starts(Cat(Drop(v, k), z), r.fake)
        BY <4>1, <4>3, StartsMore
      <4>5. Starts(Drop(Cat(v, z), k), r.fake)
        BY <1>3, <4>2, <4>4, DropConcat
      <4>6. Cat(v, z) \in Seq(A)
        BY <1>3, CatIsString
      <4>. QED  BY <2>1, <4>2, <4>5, <4>6 DEF Apart, Unambiguous
    <3>. QED  BY <3>1, <3>2
  <2>5. g[v] = Cat(Take(v, Len(v)), g[Drop(v, Len(v))])
    <3>1. NoHit(P, v, Len(v)) /\ Len(v) \in 0..Len(v)
      BY <2>2, <2>4 DEF NoHit
    <3>. QED  BY <1>3, <3>1, RestoredSkips
  <2>6. g[v] = v
    <3>1. Take(v, Len(v)) = v /\ Drop(v, Len(v)) = << >> /\ g[<< >>] = << >>
      BY <1>3, DropEnds, SubSeqFull, RestoredSteps DEF Take
    <3>. QED  BY <1>3, <2>5, <3>1, CatIs
  <2>. QED  BY <1>3, <2>6
<1>9. CASE ~Hit(P, v) /\ ~Hit(P, Cat(v, z))
  <2> DEFINE t == Drop(v, 1)
             c == <<v[1]>>
             y == g[t]
  <2>1. /\ t \in Seq(A) /\ Len(t) < Len(v) /\ c \in Seq(A) /\ v[1] \in A /\ v = Cat(c, t)
    BY <1>3, <1>6, FirstLetter
  <2>2. y \in Seq(A) /\ g[v] = Cat(c, y)
    BY <1>3, <1>5, <1>6, <1>9, <2>1, RestoredLetter
  <2>3. ASSUME NEW e \in Seq(A), ~Hit(P, Cat(Cat(c, e), z))
        PROVE  g[Cat(Cat(c, e), z)] = Cat(c, g[Cat(e, z)])
    <3> DEFINE u == Cat(c, Cat(e, z))
    <3>1. u = Cat(Cat(c, e), z) /\ Cat(e, z) \in Seq(A)
      <4> HIDE DEF c
      <4>. QED  BY <2>1, CatThree, CatIsString
    <3>2. c # << >> /\ Len(c) = 1 /\ c[1] = v[1]
      OBVIOUS
    <3>3. u \in Seq(A) /\ u # << >> /\ <<u[1]>> = c /\ Drop(u, 1) = Cat(e, z)
      <4> DEFINE ez == Cat(e, z)
      <4>1. ez \in Seq(A)
        BY <3>1
      <4> HIDE DEF c, ez
      <4>0. c \in Seq(A) /\ c # << >>
        BY <2>1, <3>2
      <4> HIDE DEF u, y, t, g
      <4>2. /\ Cat(c, ez) \in Seq(A) /\ Cat(c, ez)[1] = c[1] /\ Drop(Cat(c, ez), Len(c)) = ez
            /\ Len(Cat(c, ez)) = Len(c) + Len(ez)
        BY <4>0, <4>1, CatIs
      <4>3. Cat(c, ez) # << >>
        BY <3>2, <4>1, <4>2, LenProperties
      <4>4. u = Cat(c, ez)
        BY Zenon DEF u, ez
      <4>5. <<u[1]>> = c
        BY <3>2, <4>2, <4>4 DEF c
      <4>. QED  BY <3>2, <4>2, <4>3, <4>4, <4>5 DEF ez
    <3>4. ~Hit(P, u)
      BY <2>3, <3>1
    <3> HIDE DEF u
    <3>5. g[u] = Cat(<<u[1]>>, g[Drop(u, 1)])
      BY <3>3, <3>4, RestoredLetter
    <3>. QED  BY <3>1, <3>3, <3>5
  <2>4. ~Hit(P, Cat(g[v], z))
    BY <1>3, <1>9, NoNewFake
  <2>5. g[Cat(g[v], z)] = Cat(c, g[Cat(y, z)])
    <3> HIDE DEF c, y
    <3>. QED  BY <2>2, <2>3, <2>4
  <2>6. g[Cat(v, z)] = Cat(c, g[Cat(t, z)])
    <3> HIDE DEF c, t, y
    <3>. QED  BY <1>9, <2>1, <2>3
  <2>. QED  BY <1>3, <1>4, <2>1, <2>5, <2>6
<1>. QED  BY <1>7, <1>8, <1>9

\* A pass leaves no fake behind.
LEMMA NoFakeLeft ==
  ASSUME NEW A, NEW P, Apart(A, P), NEW w \in Seq(A)
  PROVE  NoHit(P, Restored(A, P)[w], Len(Restored(A, P)[w]))
<1> Unambiguous(A, P)
  BY DEF Apart, Unambiguous
<1> DEFINE g    == Restored(A, P)
           F(v) == NoHit(P, g[v], Len(g[v]))
           Bad  == {v \in Seq(A) : ~F(v)}
<1>1. SUFFICES ASSUME Bad # {}
               PROVE  FALSE
  BY Zenon
<1>2. PICK v \in Bad : \A t \in Seq(A) : Len(t) < Len(v) => t \notin Bad
  <2>1. Bad \in SUBSET Seq(A)
    OBVIOUS
  <2> HIDE DEF Bad
  <2>. QED  BY <1>1, <2>1, ShortestString, Zenon
<1>3. v \in Seq(A) /\ ~F(v)
  OBVIOUS
<1>4. \A t \in Seq(A) : Len(t) < Len(v) => F(t)
  BY <1>2
<1> HIDE DEF Bad
<1>5. \A t \in Seq(A) : g[t] \in Seq(A)
  BY RestoredIsString
<1>6. v # << >>
  <2>1. SUFFICES F(<< >>)
    BY <1>3
  <2>2. g[<< >>] = << >> /\ Len(<< >>) = 0
    BY RestoredSteps
  <2>. QED  BY <2>2 DEF NoHit
<1>7. ASSUME NEW o \in Seq(A), NEW x \in Seq(A), NoHit(P, x, Len(x)),
             NoHit(P, Cat(o, x), Len(o))
      PROVE  NoHit(P, Cat(o, x), Len(Cat(o, x)))
  <2>1. SUFFICES ASSUME NEW k \in 0..Len(Cat(o, x)) - 1
                 PROVE  ~Hit(P, Drop(Cat(o, x), k))
    BY DEF NoHit
  <2>2. Len(Cat(o, x)) = Len(o) + Len(x) /\ Len(o) \in Nat /\ Len(x) \in Nat
    BY CatIs, LenProperties
  <2>3. CASE k < Len(o)
    <3>1. k \in 0..Len(o) - 1
      BY <2>2, <2>3
    <3>. QED  BY <1>7, <3>1 DEF NoHit
  <2>4. CASE ~(k < Len(o))
    <3> DEFINE j == k - Len(o)
    <3>1. j \in 0..Len(x) - 1 /\ j \in 0..Len(x) /\ Len(o) + j = k
      BY <2>2, <2>4
    <3> HIDE DEF j
    <3>2. Drop(Cat(o, x), Len(o) + j) = Drop(x, j)
      BY <3>1, DropFront
    <3>. QED  BY <1>7, <3>1, <3>2 DEF NoHit
  <2>. QED  BY <2>3, <2>4
<1>8. CASE Hit(P, v)
  <2>1. PICK p \in P : Starts(v, p.fake)
    BY <1>8 DEF Hit
  <2> DEFINE t == Drop(v, Len(p.fake))
             o == p.original
  <2>2. p.fake \in Seq(A) /\ o \in Seq(A) /\ p.fake # << >>
    BY DEF Apart, Unambiguous, RuleOver
  <2>3. Len(p.fake) \in 0..Len(v) /\ t \in Seq(A) /\ Len(t) = Len(v) - Len(p.fake)
    BY <1>3, <2>1, <2>2, FakeAndRest
  <2>4. Len(t) < Len(v)
    BY <1>3, <2>2, <2>3, EmptySeq
  <2>5. g[v] = Cat(o, g[t])
    BY <1>3, <2>1, RestoredFake
  <2>6. g[t] \in Seq(A) /\ NoHit(P, g[t], Len(g[t]))
    BY <1>4, <1>5, <2>3, <2>4
  <2>7. NoHit(P, Cat(o, g[t]), Len(o))
    BY <2>6 DEF Apart, Unambiguous, NoHit, Hit
  <2> HIDE DEF o, g, t
  <2>8. NoHit(P, Cat(o, g[t]), Len(Cat(o, g[t])))
    BY <1>7, <2>2, <2>6, <2>7
  <2>. QED  BY <1>3, <2>5, <2>8
<1>9. CASE ~Hit(P, v)
  <2> DEFINE t == Drop(v, 1)
             c == <<v[1]>>
  <2>1. /\ t \in Seq(A) /\ Len(t) < Len(v) /\ c \in Seq(A) /\ Len(c) = 1
    BY <1>3, <1>6, FirstLetter
  <2>2. g[v] = Cat(c, g[t])
    BY <1>3, <1>6, <1>9, RestoredLetter
  <2>3. g[t] \in Seq(A) /\ NoHit(P, g[t], Len(g[t]))
    BY <1>4, <1>5, <2>1
  <2>4. ~Hit(P, g[v])
    <3>1. Cat(v, << >>) = v /\ Cat(g[v], << >>) = g[v] /\ << >> \in Seq(A) /\ P \subseteq P
      BY <1>3, <1>5, CatIs, EmptySeq
    <3>2. ~Hit(P, Cat(g[v], << >>))
      BY <1>3, <1>9, <3>1, NoNewFake
    <3>. QED  BY <3>1, <3>2
  <2>5. NoHit(P, g[v], 1)
    <3>1. Drop(g[v], 0) = g[v]
      BY <1>3, <1>5, DropEnds
    <3>2. \A i \in 0..1 - 1 : i = 0
      OBVIOUS
    <3>. QED  BY <2>4, <3>1, <3>2 DEF NoHit
  <2> HIDE DEF c, g, t
  <2>6. NoHit(P, Cat(c, g[t]), Len(Cat(c, g[t])))
    BY <1>7, <2>1, <2>2, <2>3, <2>5
  <2>. QED  BY <1>3, <2>2, <2>6
<1>. QED  BY <1>8, <1>9

-----------------------------------------------------------------------------
\* A text without fakes can be given out up to a window in which a fake may begin.
LEMMA FrontIsFinal ==
  ASSUME NEW A, NEW P, Apart(A, P), NEW s \in Seq(A), NEW z \in Seq(A),
         NoHit(P, s, Len(s)), NEW n \in 0..Len(s),
         n > 0 => \A p \in P : Len(p.fake) <= Len(s) - n + 1
  PROVE  Restored(A, P)[Cat(s, z)] = Cat(Take(s, n), Restored(A, P)[Cat(Drop(s, n), z)])
<1> Unambiguous(A, P)
  BY DEF Apart, Unambiguous
<1> DEFINE o == Take(s, n)
           x == Cat(Drop(s, n), z)
<1>1. Len(s) \in Nat /\ n \in Nat
  BY LenProperties
<1>2. /\ o \in Seq(A) /\ Len(o) = n /\ Drop(s, n) \in Seq(A) /\ s = Cat(o, Drop(s, n))
  BY FrontIs, DropIs, Halves
<1>3. x \in Seq(A) /\ Cat(o, x) = Cat(s, z)
  <2> DEFINE d == Drop(s, n)
  <2>1. o \in Seq(A) /\ d \in Seq(A) /\ s = Cat(o, d)
    BY <1>2
  <2> HIDE DEF d, o
  <2>2. Cat(d, z) \in Seq(A) /\ Cat(o, Cat(d, z)) = Cat(Cat(o, d), z)
    BY <2>1, CatIsString, CatThree
  <2>. QED  BY <2>1, <2>2 DEF d
<1>4. NoHit(P, Cat(s, z), n)
  <2>1. SUFFICES ASSUME NEW k \in 0..n - 1, NEW p \in P, Starts(Drop(Cat(s, z), k), p.fake)
                 PROVE  FALSE
    BY DEF NoHit, Hit
  <2>2. k \in 0..Len(s) /\ k \in 0..Len(s) - 1 /\ n > 0
    BY <1>1
  <2>3. p.fake \in Seq(A) /\ Len(p.fake) \in Nat
    BY LenProperties DEF Apart, Unambiguous, RuleOver
  <2>4. Drop(s, k) \in Seq(A) /\ Len(Drop(s, k)) = Len(s) - k
    BY <2>2, DropIs
  <2>5. Starts(Cat(Drop(s, k), z), p.fake)
    BY <2>1, <2>2, DropConcat
  <2>6. Len(p.fake) <= Len(Drop(s, k))
    BY <1>1, <2>2, <2>3, <2>4
  <2>7. Starts(Drop(s, k), p.fake)
    BY <2>3, <2>4, <2>5, <2>6, StartsWithin
  <2>. QED  BY <2>2, <2>7 DEF NoHit, Hit
<1>5. NoHit(P, Cat(o, x), Len(o))
  BY <1>2, <1>3, <1>4
<1> HIDE DEF o, x
<1>6. Restored(A, P)[Cat(o, x)] = Cat(o, Restored(A, P)[x])
  BY <1>2, <1>3, <1>5, FrontStays
<1>. QED  BY <1>3, <1>6 DEF o, x

\* What is held back of a text without fakes has none.
LEMMA RestHasNoFake ==
  ASSUME NEW A, NEW P, NEW s \in Seq(A), NoHit(P, s, Len(s)), NEW n \in 0..Len(s)
  PROVE  NoHit(P, Drop(s, n), Len(Drop(s, n)))
<1>1. Len(s) \in Nat /\ n \in Nat /\ Len(Drop(s, n)) = Len(s) - n
  BY LenProperties, DropIs
<1>2. SUFFICES ASSUME NEW k \in 0..Len(s) - n - 1
               PROVE  ~Hit(P, Drop(Drop(s, n), k))
  BY <1>1 DEF NoHit
<1>3. k \in 0..Len(s) - n /\ n + k \in 0..Len(s) - 1
  BY <1>1
<1>4. Drop(Drop(s, n), k) = Drop(s, n + k)
  BY <1>3, DropDrop
<1>. QED  BY <1>3, <1>4 DEF NoHit

-----------------------------------------------------------------------------
(***************************************************************************)
(* Replaced and AllReplaced                                                *)
(***************************************************************************)

\* What Replaced's function returns at every place, if it is f there.
Walk(s, fake, original, f) ==
  [i \in 1..Len(s) + 1 |->
     IF i > Len(s) THEN << >>
     ELSE IF i + Len(fake) - 1 <= Len(s) /\ SubSeq(s, i, i + Len(fake) - 1) = fake
          THEN original \o f[i + Len(fake)]
     ELSE <<s[i]>> \o f[i + 1]]

LEMMA ReplacedWalks ==
  ASSUME NEW s, NEW rule, rule.fake # << >>
  PROVE  Replaced(s, rule) = (CHOOSE f : f = Walk(s, rule.fake, rule.original, f))[1]
  BY Zenon DEF Replaced, Walk

\* The fake is at place i if the rest of the text from there starts with it.
LEMMA AtIsStarts ==
  ASSUME NEW A, NEW s \in Seq(A), NEW f \in Seq(A), NEW i \in 1..Len(s)
  PROVE  (i + Len(f) - 1 <= Len(s) /\ SubSeq(s, i, i + Len(f) - 1) = f)
           <=> Starts(Drop(s, i - 1), f)
<1> DEFINE d == Drop(s, i - 1)
           n == Len(f)
           m == i + n - 1
<1>1. Len(s) \in Nat /\ i \in Nat /\ n \in Nat /\ i - 1 \in 0..Len(s)
  BY LenProperties
<1>2. /\ d \in Seq(A) /\ Len(d) = Len(s) - (i - 1)
      /\ \A j \in 1..Len(s) - (i - 1) : d[j] = s[(i - 1) + j]
  <2> DEFINE e == i - 1
  <2>1. e \in 0..Len(s)
    BY <1>1
  <2> HIDE DEF e
  <2>2. /\ Drop(s, e) \in Seq(A) /\ Len(Drop(s, e)) = Len(s) - e
        /\ \A j \in 1..Len(s) - e : Drop(s, e)[j] = s[e + j]
    BY <2>1, DropIs
  <2>. QED  BY <2>2 DEF e
<1> HIDE DEF d
<1>3. m <= Len(s) <=> n <= Len(d)
  BY <1>1, <1>2
<1>4. ASSUME m <= Len(s)
      PROVE  SubSeq(s, i, m) = f <=> \A j \in 1..n : d[j] = f[j]
  <2> DEFINE u == SubSeq(s, i, m)
  <2>1. u \in Seq(A) /\ Len(u) = n /\ \A j \in 1..n : u[j] = s[i + j - 1]
    <3>1. m \in Nat /\ i \in 1..m + 1
      BY <1>1
    <3>. QED  BY <1>1, <1>4, <3>1
  <2> HIDE DEF u, m
  <2>2. \A j \in 1..n : u[j] = d[j]
    <3>1. ASSUME NEW j \in 1..n
          PROVE  u[j] = d[j]
      <4>1. j \in 1..Len(s) - (i - 1) /\ i + j - 1 = (i - 1) + j
        BY <1>1, <1>2, <1>3, <1>4
      <4>. QED  BY <1>2, <2>1, <4>1
    <3>. QED  BY <3>1
  <2> HIDE DEF n
  <2>3. u = f <=> \A j \in 1..n : u[j] = f[j]
    BY <2>1, SameString DEF n
  <2>. QED  BY <2>2, <2>3 DEF u
<1>. QED  BY <1>3, <1>4 DEF Starts, d

\* Replaced makes one pass.
LEMMA ReplacedIsOnePass ==
  ASSUME NEW A, NEW q, Unambiguous(A, {q}), NEW s \in Seq(A)
  PROVE  Replaced(s, q) = Restored(A, {q})[s]
<1> DEFINE R       == Restored(A, {q})
           fake    == q.fake
           orig    == q.original
           N       == Len(s)
           D       == 1..N + 1
           W(f)    == Walk(s, fake, orig, f)
           body(f, i) == IF i > Len(s) THEN << >>
                         ELSE IF Starts(Drop(s, i - 1), fake) THEN Cat(orig, f[i + Len(fake)])
                         ELSE Cat(<<s[i]>>, f[i + 1])
           cand    == [i \in D |-> R[Drop(s, i - 1)]]
<1>1. fake \in Seq(A) /\ fake # << >> /\ orig \in Seq(A)
  BY DEF Unambiguous, RuleOver
<1>2. N \in Nat /\ Len(fake) \in Nat \ {0}
  BY <1>1, LenProperties, EmptySeq
<1>3. ASSUME NEW f
      PROVE  W(f) = [i \in D |-> body(f, i)]
  <2>1. ASSUME NEW i \in D, ~(i > Len(s))
        PROVE  (i + Len(fake) - 1 <= Len(s) /\ SubSeq(s, i, i + Len(fake) - 1) = fake)
                 <=> Starts(Drop(s, i - 1), fake)
    <3>1. i \in 1..Len(s)
      BY <1>2, <2>1
    <3> HIDE DEF fake
    <3>. QED  BY <1>1, <3>1, AtIsStarts
  <2>. QED  BY <2>1, Zenon DEF Walk, Cat
<1>4. ASSUME NEW i \in D
      PROVE  cand[i] = body(cand, i)
  <2> DEFINE d == Drop(s, i - 1)
  <2>1. i - 1 \in 0..N /\ i \in Nat
    BY <1>2
  <2>2. d \in Seq(A) /\ Len(d) = N - (i - 1) /\ cand[i] = R[d]
    <3> DEFINE e == i - 1
    <3>1. e \in 0..N
      BY <2>1
    <3> HIDE DEF e, R
    <3>2. Drop(s, e) \in Seq(A) /\ Len(Drop(s, e)) = N - e
      BY <3>1, DropIs
    <3>. QED  BY <3>2 DEF e
  <2>3. CASE i > N
    <3>1. d = << >>
      BY <1>2, <2>2, <2>3, EmptySeq
    <3>2. R[<< >>] = << >>
      BY RestoredSteps
    <3> HIDE DEF d, R, cand
    <3>. QED  BY <2>2, <2>3, <3>1, <3>2
  <2>4. CASE ~(i > N) /\ Starts(d, fake)
    <3>1. R[d] = Cat(orig, R[Drop(d, Len(fake))])
      <4> HIDE DEF d
      <4>. QED  BY <2>2, <2>4, RestoredFake
    <3>2. Len(fake) <= Len(d)
      BY <2>4 DEF Starts
    <3>3. Len(fake) \in 0..Len(s) - (i - 1) /\ (i - 1) + Len(fake) = (i + Len(fake)) - 1
          /\ i + Len(fake) \in D
      BY <1>2, <2>1, <2>2, <3>2
    <3>4. Drop(d, Len(fake)) = Drop(s, (i - 1) + Len(fake))
      <4> DEFINE e == i - 1
                 m == Len(fake)
      <4>1. e \in 0..Len(s) /\ m \in 0..Len(s) - e
        BY <2>1, <3>3
      <4> HIDE DEF e, m
      <4>2. Drop(Drop(s, e), m) = Drop(s, e + m)
        BY <4>1, DropDrop
      <4>. QED  BY <4>2 DEF e, m
    <3>5. cand[i + Len(fake)] = R[Drop(s, (i - 1) + Len(fake))]
      BY <3>3
    <3> HIDE DEF R, cand, D
    <3>. QED  BY <2>2, <2>4, <3>1, <3>4, <3>5
  <2>5. CASE ~(i > N) /\ ~Starts(d, fake)
    <3>0. i \in 1..N /\ 1 \in 1..N - (i - 1) /\ (i - 1) + 1 = i /\ i + 1 \in D /\ i = (i + 1) - 1
          /\ 1 \in 0..N - (i - 1)
      BY <1>2, <2>1, <2>5
    <3>1. d # << >> /\ ~Hit({q}, d)
      BY <1>2, <2>2, <2>5, <3>0, EmptySeq DEF Hit
    <3>2. R[d] = Cat(<<d[1]>>, R[Drop(d, 1)])
      <4> HIDE DEF d
      <4>. QED  BY <2>2, <3>1, RestoredLetter
    <3>3. d[1] = s[i] /\ Drop(d, 1) = Drop(s, i)
      <4> DEFINE e == i - 1
      <4>1. e \in 0..Len(s) /\ 1 \in 0..Len(s) - e /\ 1 \in 1..Len(s) - e /\ e + 1 = i
        BY <2>1, <3>0
      <4> HIDE DEF e
      <4>2. Drop(Drop(s, e), 1) = Drop(s, e + 1) /\ Drop(s, e)[1] = s[e + 1]
        BY <4>1, DropDrop, DropIs
      <4>3. Drop(Drop(s, e), 1) = Drop(s, i) /\ Drop(s, e)[1] = s[i]
        BY <4>1, <4>2
      <4>. QED  BY <4>3 DEF e
    <3>4. cand[i + 1] = R[Drop(s, (i + 1) - 1)] /\ Drop(s, (i + 1) - 1) = Drop(s, i)
      BY <3>0
    <3> HIDE DEF R, cand, D
    <3>. QED  BY <2>2, <2>5, <3>2, <3>3, <3>4
  <2> HIDE DEF cand, d, R
  <2>. QED  BY <2>3, <2>4, <2>5 DEF d
<1>5. cand = W(cand)
  <2>1. cand = [i \in D |-> cand[i]]
    OBVIOUS
  <2>2. W(cand) = [i \in D |-> body(cand, i)]
    BY <1>3
  <2> HIDE DEF cand, W
  <2>. QED  BY <1>4, <2>1, <2>2, Zenon
<1>6. ASSUME NEW f, f = W(f)
      PROVE  f = cand
  <2> DEFINE Bad == {m \in 0..N : f[N + 1 - m] # cand[N + 1 - m]}
  <2>1. f = [i \in D |-> body(f, i)] /\ \A i \in D : f[i] = body(f, i)
    <3>1. f = [i \in D |-> body(f, i)]
      BY <1>3, <1>6, Zenon
    <3>. QED  BY <3>1
  <2>2. SUFFICES ASSUME Bad # {}
                 PROVE  FALSE
    <3>1. ASSUME Bad = {}, NEW i \in D
          PROVE  f[i] = cand[i]
      <4>1. N + 1 - i \in 0..N /\ N + 1 - (N + 1 - i) = i
        BY <1>2
      <4>. QED  BY <3>1, <4>1
    <3>2. cand = [i \in D |-> cand[i]]
      OBVIOUS
    <3>3. DOMAIN f = D /\ f = [i \in D |-> f[i]]
      <4> HIDE DEF body
      <4>. QED  BY <2>1
    <3> HIDE DEF cand, Bad
    <3>. QED  BY <3>1, <3>2, <3>3, Zenon
  <2>3. PICK m \in Bad : \A k \in Bad : m <= k
    <3>1. Bad \in SUBSET Nat
      BY <1>2
    <3> HIDE DEF Bad
    <3>. QED  BY <2>2, <3>1, LeastNumber, Zenon
  <2> DEFINE i == N + 1 - m
  <2>4. m \in 0..N /\ f[i] # cand[i]
    OBVIOUS
  <2>5. i \in D /\ i \in Int
    BY <1>2, <2>4
  <2>6. ASSUME NEW j \in D, j > i
        PROVE  f[j] = cand[j]
    <3>1. N + 1 - j \in 0..N /\ N + 1 - (N + 1 - j) = j /\ ~(m <= N + 1 - j)
      BY <1>2, <2>4, <2>5, <2>6
    <3>2. N + 1 - j \notin Bad
      <4> HIDE DEF Bad
      <4>. QED  BY <2>3, <3>1
    <3>. QED  BY <3>1, <3>2
  <2>7. f[i] = body(f, i) /\ cand[i] = body(cand, i)
    BY <1>4, <2>1, <2>5
  <2>8. body(f, i) = body(cand, i)
    <3> HIDE DEF i, cand, Bad, R
    <3>1. CASE i > Len(s)
      BY <3>1
    <3>2. CASE ~(i > Len(s)) /\ Starts(Drop(s, i - 1), fake)
      <4>1. i + Len(fake) \in D /\ i + Len(fake) > i
        <5>1. Len(fake) <= Len(Drop(s, i - 1))
          BY <3>2 DEF Starts
        <5>2. Len(Drop(s, i - 1)) = Len(s) - (i - 1)
          <6> DEFINE e == i - 1
          <6>1. e \in 0..Len(s)
            BY <1>2, <2>5, <3>2
          <6> HIDE DEF e
          <6>2. Len(Drop(s, e)) = Len(s) - e
            BY <6>1, DropIs
          <6>. QED  BY <6>2 DEF e
        <5>. QED  BY <1>2, <2>5, <3>2, <5>1, <5>2
      <4>2. f[i + Len(fake)] = cand[i + Len(fake)]
        BY <2>6, <4>1
      <4>. QED  BY <3>2, <4>2
    <3>3. CASE ~(i > Len(s)) /\ ~Starts(Drop(s, i - 1), fake)
      <4>1. i + 1 \in D /\ i + 1 > i
        BY <1>2, <2>5, <3>3
      <4>2. f[i + 1] = cand[i + 1]
        BY <2>6, <4>1
      <4>. QED  BY <3>3, <4>2
    <3> HIDE DEF body
    <3>. QED  BY <3>1, <3>2, <3>3
  <2> HIDE DEF body, i, cand, Bad
  <2>. QED  BY <2>4, <2>7, <2>8
<1>7. (CHOOSE f : f = W(f)) = cand
  <2> HIDE DEF W, cand
  <2>. QED  BY <1>5, <1>6, Zenon
<1>8. Replaced(s, q) = cand[1]
  <2>1. Replaced(s, q) = (CHOOSE f : f = W(f))[1]
    BY <1>1, ReplacedWalks, Zenon
  <2> HIDE DEF W, cand
  <2>. QED  BY <1>7, <2>1
<1>9. cand[1] = R[s]
  <2>1. 1 \in D /\ 1 - 1 = 0 /\ Drop(s, 0) = s
    BY <1>2, DropEnds
  <2>2. cand[1] = R[Drop(s, 1 - 1)]
    BY <2>1
  <2> HIDE DEF R, cand
  <2>. QED  BY <2>1, <2>2
<1>. QED  BY <1>8, <1>9

LEMMA GreatestIs ==
  ASSUME NEW n \in Nat, NEW S \in SUBSET (1..n), S # {}
  PROVE  Max(S) \in S /\ \A y \in S : Max(S) >= y
<1>1. S \in SUBSET Nat /\ \A y \in S : y <= n
  OBVIOUS
<1>. QED  BY <1>1, BoundedMax

LEMMA NothingToRestore ==
  ASSUME NEW A, NEW s \in Seq(A)
  PROVE  Apart(A, {}) /\ Restored(A, {})[s] = s
<1>1. Apart(A, {}) /\ Unambiguous(A, {})
  BY DEF Apart, Unambiguous
<1>2. NoHit({}, s, Len(s)) /\ Len(s) \in 0..Len(s)
  BY LenProperties DEF NoHit, Hit
<1>3. Restored(A, {})[s] = Cat(Take(s, Len(s)), Restored(A, {})[Drop(s, Len(s))])
  BY <1>1, <1>2, RestoredSkips
<1>4. Take(s, Len(s)) = s /\ Drop(s, Len(s)) = << >> /\ Restored(A, {})[<< >>] = << >>
  BY <1>1, DropEnds, SubSeqFull, RestoredSteps DEF Take
<1>5. Cat(s, << >>) = s
  BY CatIs, EmptySeq
<1>. QED  BY <1>1, <1>3, <1>4, <1>5

\* What the fold of AllReplaced returns for every set of indices, if it is f on
\* the smaller ones.
FoldBody(s, rules, f) ==
  [S \in SUBSET DOMAIN rules |->
     IF S = {} THEN s ELSE Replaced(f[S \ {Max(S)}], rules[Max(S)])]

LEMMA AllReplacedFolds ==
  ASSUME NEW s, NEW rules
  PROVE  AllReplaced(s, rules) = (CHOOSE f : f = FoldBody(s, rules, f))[DOMAIN rules]
  BY Zenon DEF AllReplaced, FoldLeft, MapThenFoldSet, FoldBody

\* One rule after the other comes to one pass with all of them: their order does
\* not matter.
THEOREM AllReplacedIsOnePass ==
  ASSUME NEW A, NEW P, Apart(A, P), NEW rules \in Seq(P), NEW s \in Seq(A)
  PROVE  AllReplaced(s, rules) = Restored(A, ToSet(rules))[s]
<1> DEFINE n    == Len(rules)
           D    == 1..n
           R(S) == {rules[i] : i \in S}
           B(f) == FoldBody(s, rules, f)
           cand == [S \in SUBSET D |-> Restored(A, R(S))[s]]
<1>1. n \in Nat /\ DOMAIN rules = D /\ \A i \in D : rules[i] \in P
  BY LenProperties, ElementOfSeq
<1>2. ASSUME NEW S \in SUBSET D
      PROVE  R(S) \subseteq P /\ Unambiguous(A, R(S)) /\ Restored(A, R(S))[s] \in Seq(A)
  <2>1. R(S) \subseteq P
    BY <1>1
  <2> HIDE DEF R
  <2>2. Unambiguous(A, R(S))
    BY <2>1 DEF Apart, Unambiguous
  <2>. QED  BY <2>1, <2>2, RestoredIsString
<1>3. ASSUME NEW S \in SUBSET D, S # {}
      PROVE  /\ Max(S) \in S /\ \A y \in S : Max(S) >= y
             /\ Replaced(cand[S \ {Max(S)}], rules[Max(S)]) = cand[S]
  <2> DEFINE m == Max(S)
             q == rules[m]
             T == S \ {m}
  <2>1. m \in S /\ \A y \in S : m >= y
    BY <1>1, <1>3, GreatestIs
  <2>2. q \in P /\ T \in SUBSET D
    BY <1>1, <2>1
  <2>3. R(S) = R(T) \cup {q}
    BY <2>1
  <2>4. Unambiguous(A, {q}) /\ R(T) \subseteq P /\ Restored(A, R(T))[s] \in Seq(A)
    <3> HIDE DEF q, R, T
    <3>. QED  BY <1>2, <2>2 DEF Apart, Unambiguous
  <2>5. Replaced(Restored(A, R(T))[s], q) = Restored(A, {q})[Restored(A, R(T))[s]]
    <3> DEFINE x == Restored(A, R(T))[s]
    <3>1. x \in Seq(A)
      BY <2>4
    <3> HIDE DEF x, q
    <3>2. Replaced(x, q) = Restored(A, {q})[x]
      BY <2>4, <3>1, ReplacedIsOnePass
    <3>. QED  BY <3>2 DEF x
  <2>6. Restored(A, {q})[Restored(A, R(T))[s]] = Restored(A, R(T) \cup {q})[s]
    <3> HIDE DEF q, R, T
    <3>. QED  BY <2>2, <2>4, PassesAdd
  <2>7. cand[S] = Restored(A, R(S))[s] /\ cand[T] = Restored(A, R(T))[s]
    BY <2>2
  <2> HIDE DEF cand, R
  <2>. QED  BY <2>1, <2>3, <2>5, <2>6, <2>7
<1>4. ASSUME NEW f
      PROVE  B(f) = [S \in SUBSET D |-> IF S = {} THEN s
                                        ELSE Replaced(f[S \ {Max(S)}], rules[Max(S)])]
  BY <1>1, Zenon DEF FoldBody
<1>5. cand[{}] = s
  <2>1. R({}) = {} /\ {} \in SUBSET D
    OBVIOUS
  <2>2. cand[{}] = Restored(A, R({}))[s]
    BY <2>1
  <2> HIDE DEF cand, R
  <2>. QED  BY <2>1, <2>2, NothingToRestore
<1>6. cand = B(cand)
  <2>1. cand = [S \in SUBSET D |-> cand[S]]
    OBVIOUS
  <2> HIDE DEF cand, B, D
  <2>. QED  BY <1>3, <1>4, <1>5, <2>1
<1>7. ASSUME NEW f, f = B(f)
      PROVE  f = cand
  <2>1. /\ f = [S \in SUBSET D |-> f[S]]
        /\ f[{}] = s
        /\ \A S \in SUBSET D : S # {} => f[S] = Replaced(f[S \ {Max(S)}], rules[Max(S)])
    <3> DEFINE b(S) == IF S = {} THEN s ELSE Replaced(f[S \ {Max(S)}], rules[Max(S)])
    <3>1. f = [S \in SUBSET D |-> b(S)]
      BY <1>4, <1>7, Zenon
    <3>2. \A S \in SUBSET D : f[S] = b(S)
      <4> HIDE DEF b
      <4>. QED  BY <3>1
    <3>3. f = [S \in SUBSET D |-> f[S]]
      <4> HIDE DEF b
      <4>. QED  BY <3>1
    <3>. QED  BY <3>2, <3>3
  <2> DEFINE Agree(k) == \A S \in SUBSET (1..k) : S \in SUBSET D => f[S] = cand[S]
             Bad      == {k \in Nat : ~Agree(k)}
  <2>2. Bad = {}
    <3>1. SUFFICES ASSUME Bad # {}
                   PROVE  FALSE
      OBVIOUS
    <3>2. PICK k \in Bad : \A j \in Bad : k <= j
      <4>1. Bad \in SUBSET Nat
        OBVIOUS
      <4> HIDE DEF Bad
      <4>. QED  BY <3>1, <4>1, LeastNumber, Zenon
    <3>3. k \in Nat /\ ~Agree(k)
      OBVIOUS
    <3>4. PICK S \in SUBSET (1..k) : S \in SUBSET D /\ f[S] # cand[S]
      BY <3>3
    <3>5. S # {}
      BY <1>5, <2>1, <3>4
    <3>6. k - 1 \in Nat /\ ~(k <= k - 1)
      <4>1. PICK x \in S : TRUE
        BY <3>5
      <4>2. x \in 1..k /\ k \in Nat
        BY <3>3, <4>1
      <4> HIDE DEF Bad
      <4>. QED  BY <4>2
    <3>7. Agree(k - 1)
      <4>1. k - 1 \notin Bad
        <5> HIDE DEF Bad
        <5>. QED  BY <3>2, <3>6
      <4> HIDE DEF Agree
      <4>. QED  BY <3>6, <4>1 DEF Bad
    <3>8. S \ {Max(S)} \in SUBSET (1..k - 1)
      <4>1. Max(S) \in S /\ \A y \in S : Max(S) >= y
        <5> HIDE DEF D, cand
        <5>. QED  BY <1>3, <3>4, <3>5
      <4> DEFINE m == Max(S)
      <4>2. m \in S /\ \A y \in S : m >= y
        BY <4>1
      <4> HIDE DEF m
      <4>3. S \ {m} \in SUBSET (1..k - 1)
        BY <3>3, <3>4, <4>2
      <4>. QED  BY <4>3 DEF m
    <3>9. f[S \ {Max(S)}] = cand[S \ {Max(S)}]
      BY <3>4, <3>7, <3>8
    <3> HIDE DEF cand, D
    <3>. QED  BY <1>3, <2>1, <3>4, <3>5, <3>9
  <2>3. \A S \in SUBSET D : f[S] = cand[S]
    <3>1. Agree(n)
      <4> HIDE DEF Agree
      <4>. QED  BY <1>1, <2>2
    <3>. QED  BY <3>1
  <2>4. cand = [S \in SUBSET D |-> cand[S]]
    OBVIOUS
  <2> HIDE DEF cand, D
  <2>. QED  BY <2>1, <2>3, <2>4, Zenon
<1>8. (CHOOSE f : f = B(f)) = cand
  <2> HIDE DEF B, cand
  <2>. QED  BY <1>6, <1>7, Zenon
<1>9. AllReplaced(s, rules) = cand[D]
  <2>1. AllReplaced(s, rules) = (CHOOSE f : f = B(f))[DOMAIN rules]
    BY AllReplacedFolds, Zenon
  <2> HIDE DEF B, cand, D
  <2>. QED  BY <1>1, <1>8, <2>1
<1>10. R(D) = ToSet(rules)
  BY <1>1 DEF ToSet
<1>11. cand[D] = Restored(A, R(D))[s]
  OBVIOUS
<1> HIDE DEF cand, R, D
<1>. QED  BY <1>9, <1>10, <1>11

\* The sequences of a finite set hold every element of it and nothing else.
LEMMA SequencesOfSet ==
  ASSUME NEW S, IsFiniteSet(S)
  PROVE  /\ \A f \in SetToSeqs(S) : f \in Seq(S) /\ ToSet(f) = S
         /\ SetToSeq(S) \in SetToSeqs(S)
<1> DEFINE n == Cardinality(S)
           D == 1..n
<1>1. n \in Nat /\ ExistsBijection(D, S)
  BY FS_CardinalityType
<1> HIDE DEF n
<1>2. SetToSeqs(S) = {f \in [D -> S] : \A i, j \in D : i # j => f[i] # f[j]}
  BY DEF SetToSeqs, n
<1>3. IsFiniteSet(D) /\ Cardinality(D) = n
  <2>1. IsFiniteSet(1..n) /\ Cardinality(1..n) = IF 1 > n THEN 0 ELSE n - 1 + 1
    BY <1>1, FS_Interval
  <2>. QED  BY <1>1, <2>1
<1>4. ASSUME NEW f \in SetToSeqs(S)
      PROVE  f \in Seq(S) /\ ToSet(f) = S
  <2>1. f \in [D -> S] /\ \A i, j \in D : i # j => f[i] # f[j]
    BY <1>2
  <2>2. f \in Injection(D, S)
    BY <2>1 DEF Injection, IsInjective
  <2>3. f \in Surjection(D, S)
    BY <1>3, <2>2, FS_Injection DEF n
  <2>4. \A y \in S : \E i \in D : f[i] = y
    BY <2>3 DEF Surjection
  <2>5. f \in Seq(S)
    BY <1>1, <2>1, SeqDef, Zenon
  <2>. QED  BY <2>1, <2>4, <2>5 DEF ToSet
<1>5. PICK b \in Bijection(D, S) : TRUE
  BY <1>1 DEF ExistsBijection
<1>6. b \in [D -> S] /\ IsInjective(b)
  BY DEF Bijection, Injection
<1>7. SetToSeq(S) \in [D -> S] /\ IsInjective(SetToSeq(S))
  BY <1>6, Zenon DEF SetToSeq, n
<1>8. SetToSeq(S) \in SetToSeqs(S)
  BY <1>2, <1>7 DEF IsInjective
<1>. QED  BY <1>4, <1>8

\* Any rules, empty fakes and clashing ones too, turn a string into a string.
LEMMA ReplacedIsString ==
  ASSUME NEW A, NEW q \in RuleOver(A), NEW s \in Seq(A)
  PROVE  Replaced(s, q) \in Seq(A)
<1>1. CASE q.fake = << >>
  BY <1>1, Zenon DEF Replaced
<1>2. CASE q.fake # << >>
  <2>1. Unambiguous(A, {q})
    BY <1>2 DEF Unambiguous
  <2>2. Restored(A, {q})[s] \in Seq(A)
    BY <2>1, RestoredIsString
  <2>. QED  BY <2>1, <2>2, ReplacedIsOnePass
<1>. QED  BY <1>1, <1>2

LEMMA AllReplacedIsString ==
  ASSUME NEW A, NEW rules \in Seq(RuleOver(A)), NEW s \in Seq(A)
  PROVE  AllReplaced(s, rules) \in Seq(A)
<1> DEFINE n       == Len(rules)
           D       == 1..n
           V       == Seq(A)
           b(f, S) == IF S = {} THEN s ELSE Replaced(f[S \ {Max(S)}], rules[Max(S)])
           Run(k)  == \E h \in [SUBSET (1..k) -> V] : \A S \in SUBSET (1..k) : h[S] = b(h, S)
           Bad     == {k \in 0..n : ~Run(k)}
<1>1. n \in Nat /\ DOMAIN rules = D /\ \A i \in D : rules[i] \in RuleOver(A)
  BY LenProperties, ElementOfSeq
<1>2. ASSUME NEW k \in Nat, k <= n, NEW S \in SUBSET (1..k), S # {}
      PROVE  /\ Max(S) \in S /\ \A y \in S : Max(S) >= y
             /\ Max(S) \in D
  <2>1. Max(S) \in S /\ \A y \in S : Max(S) >= y
    BY <1>2, GreatestIs
  <2> DEFINE m == Max(S)
  <2>2. m \in S
    BY <2>1
  <2> HIDE DEF m
  <2>3. m \in D
    BY <1>1, <1>2, <2>2
  <2>. QED  BY <2>1, <2>3 DEF m
<1>3. Bad = {}
  <2>1. SUFFICES ASSUME Bad # {}
                 PROVE  FALSE
    OBVIOUS
  <2>2. PICK k \in Bad : \A j \in Bad : k <= j
    <3>1. Bad \in SUBSET Nat
      BY <1>1
    <3> HIDE DEF Bad
    <3>. QED  BY <2>1, <3>1, LeastNumber, Zenon
  <2>3. k \in 0..n /\ ~Run(k) /\ k \in Nat
    <3> HIDE DEF Run
    <3>1. k \in 0..n /\ ~Run(k)
      BY DEF Bad
    <3>. QED  BY <1>1, <3>1
  <2>4. k # 0
    <3>1. SUFFICES Run(0)
      BY <2>3
    <3> DEFINE h == [S \in SUBSET (1..0) |-> s]
    <3>2. \A S \in SUBSET (1..0) : S = {}
      OBVIOUS
    <3>3. h \in [SUBSET (1..0) -> V]
      OBVIOUS
    <3>4. \A S \in SUBSET (1..0) : h[S] = b(h, S)
      BY <3>2
    <3> HIDE DEF h, b
    <3>. QED  BY <3>3, <3>4
  <2>5. Run(k - 1)
    <3>1. k - 1 \in 0..n /\ ~(k <= k - 1)
      BY <1>1, <2>3, <2>4
    <3>2. k - 1 \notin Bad
      <4> HIDE DEF Bad
      <4>. QED  BY <2>2, <3>1
    <3> HIDE DEF Run
    <3>. QED  BY <3>1, <3>2 DEF Bad
  <2> DEFINE j == k - 1
  <2>6. PICK h \in [SUBSET (1..j) -> V] : \A S \in SUBSET (1..j) : h[S] = b(h, S)
    <3> HIDE DEF b
    <3>. QED  BY <2>5
  <2>7. j \in Nat /\ j <= n /\ k <= n /\ k \in Nat /\ k = j + 1
    BY <1>1, <2>3, <2>4
  <2> DEFINE h2 == [S \in SUBSET (1..k) |->
                      IF S \in SUBSET (1..j) THEN h[S]
                      ELSE Replaced(h[S \ {Max(S)}], rules[Max(S)])]
  <2> HIDE DEF Bad, Run, j
  <2>8. ASSUME NEW S \in SUBSET (1..k), S # {}
        PROVE  /\ S \ {Max(S)} \in SUBSET (1..j) /\ S \ {Max(S)} \in SUBSET (1..k)
               /\ rules[Max(S)] \in RuleOver(A) /\ h[S \ {Max(S)}] \in V
    <3>1. Max(S) \in S /\ (\A y \in S : Max(S) >= y) /\ Max(S) \in D
      BY <1>2, <2>7, <2>8
    <3> DEFINE m == Max(S)
    <3>2. m \in S /\ (\A y \in S : m >= y) /\ m \in D
      BY <3>1
    <3> HIDE DEF m, h2
    <3>3. S \ {m} \in SUBSET (1..j)
      <4>1. \A y \in S : y \in 1..k /\ m \in 1..k
        BY <3>2
      <4>. QED  BY <2>7, <3>2, <4>1
    <3>4. S \ {m} \in SUBSET (1..k)
      OBVIOUS
    <3>. QED  BY <1>1, <3>2, <3>3, <3>4 DEF m
  <2>9. \A S \in SUBSET (1..j) : S \in SUBSET (1..k)
    BY <2>7
  <2>10. \A S \in SUBSET (1..j) : h2[S] = h[S]
    BY <2>9
  <2>11. h2 \in [SUBSET (1..k) -> V]
    <3>1. ASSUME NEW S \in SUBSET (1..k)
          PROVE  h2[S] \in V
      <4>1. CASE S \in SUBSET (1..j)
        BY <2>6, <4>1
      <4>2. CASE S \notin SUBSET (1..j)
        <5>1. S # {}
          BY <4>2
        <5>2. h2[S] = Replaced(h[S \ {Max(S)}], rules[Max(S)])
          BY <4>2
        <5> DEFINE v == h[S \ {Max(S)}]
                   q == rules[Max(S)]
        <5>3. v \in Seq(A) /\ q \in RuleOver(A)
          BY <2>8, <5>1
        <5> HIDE DEF v, q, h2
        <5>4. Replaced(v, q) \in Seq(A)
          BY <5>3, ReplacedIsString
        <5>. QED  BY <5>2, <5>4 DEF v, q
      <4>. QED  BY <4>1, <4>2
    <3>2. h2 = [S \in SUBSET (1..k) |-> h2[S]]
      OBVIOUS
    <3> HIDE DEF h2
    <3>. QED  BY <3>1, <3>2
  <2>12. ASSUME NEW S \in SUBSET (1..k)
         PROVE  h2[S] = b(h2, S)
    <3>1. CASE S = {}
      <4>1. S \in SUBSET (1..j)
        BY <3>1
      <4>2. h2[S] = h[S] /\ h[S] = b(h, S)
        BY <2>6, <2>10, <4>1
      <4> HIDE DEF h2
      <4>. QED  BY <3>1, <4>2
    <3>2. CASE S # {}
      <4>1. h2[S \ {Max(S)}] = h[S \ {Max(S)}]
        BY <2>8, <2>10, <3>2
      <4>2. h2[S] = Replaced(h[S \ {Max(S)}], rules[Max(S)])
        <5>1. CASE S \in SUBSET (1..j)
          <6>1. h2[S] = h[S] /\ h[S] = b(h, S)
            BY <2>6, <2>10, <5>1
          <6> HIDE DEF h2
          <6>. QED  BY <3>2, <6>1
        <5>2. CASE S \notin SUBSET (1..j)
          BY <5>2
        <5>. QED  BY <5>1, <5>2
      <4> HIDE DEF h2
      <4>. QED  BY <3>2, <4>1, <4>2
    <3>. QED  BY <3>1, <3>2
  <2>13. Run(k)
    <3> HIDE DEF h2, b
    <3>. QED  BY <2>11, <2>12 DEF Run
  <2>. QED  BY <2>3, <2>13
<1>4. PICK h \in [SUBSET D -> V] : \A S \in SUBSET D : h[S] = b(h, S)
  <2>1. Run(n)
    <3>1. n \in 0..n
      BY <1>1
    <3> HIDE DEF Run
    <3>. QED  BY <1>3, <3>1
  <2> HIDE DEF b
  <2>. QED  BY <2>1
<1> HIDE DEF Run, Bad
<1>5. ASSUME NEW f
      PROVE  FoldBody(s, rules, f) = [S \in SUBSET D |-> b(f, S)]
  BY <1>1, Zenon DEF FoldBody
<1>6. h = FoldBody(s, rules, h)
  <2>1. h = [S \in SUBSET D |-> h[S]]
    OBVIOUS
  <2> HIDE DEF b, D
  <2>. QED  BY <1>4, <1>5, <2>1
<1>7. ASSUME NEW f, f = FoldBody(s, rules, f)
      PROVE  f[D] \in V
  <2>1. f = [S \in SUBSET D |-> b(f, S)]
    BY <1>5, <1>7, Zenon
  <2>2. \A S \in SUBSET D : f[S] = b(f, S)
    <3> HIDE DEF b, D
    <3>. QED  BY <2>1
  <2> DEFINE Agree(k) == \A S \in SUBSET (1..k) : S \in SUBSET D => f[S] = h[S]
             Bad2     == {k \in Nat : ~Agree(k)}
  <2>3. Bad2 = {}
    <3>1. SUFFICES ASSUME Bad2 # {}
                   PROVE  FALSE
      OBVIOUS
    <3>2. PICK k \in Bad2 : \A i \in Bad2 : k <= i
      <4>1. Bad2 \in SUBSET Nat
        OBVIOUS
      <4> HIDE DEF Bad2
      <4>. QED  BY <3>1, <4>1, LeastNumber, Zenon
    <3>3. k \in Nat /\ ~Agree(k)
      OBVIOUS
    <3>4. PICK S \in SUBSET (1..k) : S \in SUBSET D /\ f[S] # h[S]
      BY <3>3
    <3>5. S # {}
      <4>1. {} \in SUBSET D
        OBVIOUS
      <4>2. f[{}] = s /\ h[{}] = s
        BY <1>4, <2>2, <4>1
      <4>. QED  BY <3>4, <4>2
    <3>6. k - 1 \in Nat /\ ~(k <= k - 1)
      <4>1. PICK x \in S : TRUE
        BY <3>5
      <4>2. x \in 1..k /\ k \in Nat
        BY <3>3, <4>1
      <4> HIDE DEF Bad2
      <4>. QED  BY <4>2
    <3>7. Agree(k - 1)
      <4>1. k - 1 \notin Bad2
        <5> HIDE DEF Bad2
        <5>. QED  BY <3>2, <3>6
      <4> HIDE DEF Agree
      <4>. QED  BY <3>6, <4>1 DEF Bad2
    <3>8. S \ {Max(S)} \in SUBSET (1..k - 1) /\ S \ {Max(S)} \in SUBSET D
      <4>1. Max(S) \in S /\ \A y \in S : Max(S) >= y
        <5>1. n \in Nat /\ n <= n
          BY <1>1
        <5> HIDE DEF b
        <5>. QED  BY <1>2, <3>4, <3>5, <5>1
      <4> DEFINE m == Max(S)
      <4>2. m \in S /\ \A y \in S : m >= y
        BY <4>1
      <4> HIDE DEF m
      <4>3. S \ {m} \in SUBSET (1..k - 1)
        BY <3>3, <3>4, <4>2
      <4>. QED  BY <3>4, <4>3 DEF m
    <3>9. f[S \ {Max(S)}] = h[S \ {Max(S)}]
      BY <3>7, <3>8
    <3>10. f[S] = b(f, S) /\ h[S] = b(h, S)
      <4> HIDE DEF b
      <4>. QED  BY <1>4, <2>2, <3>4
    <3>. QED  BY <3>4, <3>5, <3>9, <3>10
  <2>4. f[D] = h[D]
    <3>1. Agree(n)
      <4> HIDE DEF Agree
      <4>. QED  BY <1>1, <2>3
    <3>. QED  BY <3>1
  <2>. QED  BY <1>4, <2>4
<1>8. AllReplaced(s, rules) = (CHOOSE f : f = FoldBody(s, rules, f))[D]
  BY <1>1, AllReplacedFolds, Zenon
<1>. QED
  <2> DEFINE g == CHOOSE f : f = FoldBody(s, rules, f)
  <2>1. g = FoldBody(s, rules, g)
    BY <1>6, Zenon
  <2> HIDE DEF g
  <2>2. g[D] \in V
    BY <1>7, <2>1
  <2>. QED  BY <1>8, <2>2 DEF g

=============================================================================
