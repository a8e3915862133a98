------------------------ MODULE RuleToFake_proofs ------------------------
(******************************************************************************)
(* The rule pipeline and the fakes, for every content of the input files and  *)
(* every match: what files a build writes however it is stopped               *)
(* (src/rule_pipeline.rs), what a gateway loads of them (detection/mod.rs),   *)
(* that the check digits of the fakes hold and that no fake shows its match   *)
(* (replacement/replacers.rs).                                                *)
(*                                                                            *)
(* The checksums and the parsers are folds, and the extraction of literal     *)
(* prefixes and the words of a regex are recursive functions: TLA+ chooses a  *)
(* function with the recursive equation if there is one.  FoldExists and      *)
(* RecursionExists show that there is, and FoldWalks, ExtractionWalks and     *)
(* WordsWalk that the chosen one walks.                                       *)
(******************************************************************************)
EXTENDS RuleToFake, Substitution_proofs, TLAPS

--------------------------------------------------------------------------------
\* Folds over sequences.

\* A non-empty set of indices has a greatest one; without it the set is smaller.
LEMMA WithoutGreatest ==
  ASSUME NEW n \in Nat, NEW S \in SUBSET (1..n), S # {}
  PROVE  /\ Max(S) \in S /\ Max(S) \in 1..n /\ \A y \in S : Max(S) >= y
         /\ S \ {Max(S)} \in SUBSET (1..n)
         /\ \A k \in Nat : S \in SUBSET (1..k) => S \ {Max(S)} \in SUBSET (1..k - 1)
<1>1. Max(S) \in S /\ \A y \in S : Max(S) >= y
  BY GreatestIs
<1> DEFINE m == Max(S)
<1>2. m \in S /\ \A y \in S : m >= y
  BY <1>1
<1> HIDE DEF m
<1>3. m \in 1..n /\ S \ {m} \in SUBSET (1..n)
  BY <1>2
<1>4. ASSUME NEW k \in Nat, S \in SUBSET (1..k) PROVE S \ {m} \in SUBSET (1..k - 1)
  BY <1>2, <1>4
<1>. QED  BY <1>1, <1>3, <1>4 DEF m

\* What a fold over 1..n has for every subset: grow takes the value so far and the
\* next index.
FoldsTo(f, S, base, grow) ==
  f[S] = IF S = {} THEN base ELSE grow[<<f[S \ {Max(S)}], Max(S)>>]

\* There is a function with the recursive equation of a fold.
LEMMA FoldExists ==
  ASSUME NEW n \in Nat, NEW V, NEW base \in V, NEW grow \in [V \X (1..n) -> V]
  PROVE  \E f \in [SUBSET (1..n) -> V] : \A S \in SUBSET (1..n) : FoldsTo(f, S, base, grow)
<1> DEFINE Run(k) == \E h \in [SUBSET (1..k) -> V] : \A S \in SUBSET (1..k) : FoldsTo(h, S, base, grow)
           Bad    == {k \in 0..n : ~Run(k)}
<1>1. Bad = {}
  <2>1. SUFFICES ASSUME Bad # {}
                 PROVE  FALSE
    OBVIOUS
  <2>2. PICK k \in Bad : \A j \in Bad : k <= j
    <3>1. Bad \in SUBSET Nat
      OBVIOUS
    <3> HIDE DEF Bad
    <3>. QED  BY <2>1, <3>1, LeastNumber, Zenon
  <2>3. k \in 0..n /\ ~Run(k) /\ k \in Nat
    <3> HIDE DEF Run
    <3>1. k \in 0..n /\ ~Run(k)
      BY DEF Bad
    <3>. QED  BY <3>1
  <2>4. k # 0
    <3>1. SUFFICES Run(0)
      BY <2>3
    <3> DEFINE h == [S \in SUBSET (1..0) |-> base]
    <3>2. \A S \in SUBSET (1..0) : S = {}
      OBVIOUS
    <3>3. h \in [SUBSET (1..0) -> V]
      OBVIOUS
    <3>4. \A S \in SUBSET (1..0) : FoldsTo(h, S, base, grow)
      BY <3>2 DEF FoldsTo
    <3> HIDE DEF h
    <3>. QED  BY <3>3, <3>4
  <2>5. Run(k - 1)
    <3>1. k - 1 \in 0..n /\ ~(k <= k - 1)
      BY <2>3, <2>4
    <3>2. k - 1 \notin Bad
      <4> HIDE DEF Bad
      <4>. QED  BY <2>2, <3>1
    <3> HIDE DEF Run
    <3>. QED  BY <3>1, <3>2 DEF Bad
  <2> DEFINE j == k - 1
  <2>6. PICK h \in [SUBSET (1..j) -> V] : \A S \in SUBSET (1..j) : FoldsTo(h, S, base, grow)
    BY <2>5
  <2>7. j \in Nat /\ j <= n /\ k <= n /\ k \in Nat /\ k = j + 1
    BY <2>3, <2>4
  <2> DEFINE h2 == [S \in SUBSET (1..k) |->
                      IF S \in SUBSET (1..j) THEN h[S]
                      ELSE grow[<<h[S \ {Max(S)}], Max(S)>>]]
  <2> HIDE DEF Bad, Run, j
  <2>8. ASSUME NEW S \in SUBSET (1..k), S # {}
        PROVE  /\ S \ {Max(S)} \in SUBSET (1..j) /\ S \ {Max(S)} \in SUBSET (1..k)
               /\ h[S \ {Max(S)}] \in V /\ grow[<<h[S \ {Max(S)}], Max(S)>>] \in V
    <3>1. S \ {Max(S)} \in SUBSET (1..k - 1) /\ Max(S) \in 1..k /\ S \ {Max(S)} \in SUBSET (1..k)
      BY <2>7, <2>8, WithoutGreatest
    <3> DEFINE m == Max(S)
               T == S \ {Max(S)}
    <3>2. T \in SUBSET (1..j) /\ m \in 1..n /\ T \in SUBSET (1..k)
      BY <2>7, <3>1 DEF j
    <3> HIDE DEF m, T, h2
    <3>3. h[T] \in V
      BY <3>2
    <3>4. grow[<<h[T], m>>] \in V
      BY <3>2, <3>3
    <3>. QED  BY <3>2, <3>3, <3>4 DEF m, T
  <2>9. \A S \in SUBSET (1..j) : S \in SUBSET (1..k)
    BY <2>7
  <2>10. \A S \in SUBSET (1..j) : h2[S] = h[S]
    BY <2>9
  <2>11. \A S \in SUBSET (1..k) : S \notin SUBSET (1..j) => h2[S] = grow[<<h[S \ {Max(S)}], Max(S)>>]
    OBVIOUS
  <2>12. h2 = [S \in SUBSET (1..k) |-> h2[S]]
    OBVIOUS
  <2> HIDE DEF h2
  <2>13. h2 \in [SUBSET (1..k) -> V]
    <3>1. ASSUME NEW S \in SUBSET (1..k)
          PROVE  h2[S] \in V
      <4>1. CASE S \in SUBSET (1..j)
        BY <2>6, <2>10, <4>1
      <4>2. CASE S \notin SUBSET (1..j)
        <5>1. S # {}
          BY <4>2
        <5>. QED  BY <2>8, <2>11, <4>2, <5>1
      <4>. QED  BY <4>1, <4>2
    <3>. QED  BY <2>12, <3>1
  <2>14. ASSUME NEW S \in SUBSET (1..k)
         PROVE  FoldsTo(h2, S, base, grow)
    <3>1. CASE S = {}
      <4>1. S \in SUBSET (1..j)
        BY <3>1
      <4>2. h2[S] = h[S] /\ FoldsTo(h, S, base, grow)
        BY <2>6, <2>10, <4>1
      <4>. QED  BY <3>1, <4>2 DEF FoldsTo
    <3>2. CASE S # {}
      <4>1. h2[S \ {Max(S)}] = h[S \ {Max(S)}]
        BY <2>8, <2>10, <3>2
      <4>2. h2[S] = grow[<<h[S \ {Max(S)}], Max(S)>>]
        <5>1. CASE S \in SUBSET (1..j)
          <6>1. h2[S] = h[S] /\ FoldsTo(h, S, base, grow)
            BY <2>6, <2>10, <5>1
          <6>. QED  BY <3>2, <6>1 DEF FoldsTo
        <5>2. CASE S \notin SUBSET (1..j)
          BY <2>11, <5>2
        <5>. QED  BY <5>1, <5>2
      <4>. QED  BY <3>2, <4>1, <4>2 DEF FoldsTo
    <3>. QED  BY <3>1, <3>2
  <2>15. Run(k)
    BY <2>13, <2>14 DEF Run
  <2>. QED  BY <2>3, <2>15
<1>2. Run(n)
  <2>1. n \in 0..n
    OBVIOUS
  <2> HIDE DEF Run
  <2>. QED  BY <1>1, <2>1
<1>. QED  BY <1>2

\* What is known of the function that a fold chooses, and what it has on the indices
\* up to k.
Folds(f, n, V, base, grow) ==
  /\ f[{}] = base
  /\ \A S \in SUBSET (1..n) : S # {} /\ f[S \ {Max(S)}] \in V =>
       f[S] = grow[<<f[S \ {Max(S)}], Max(S)>>]

WalksTo(f, n, V, base, grow) ==
  /\ \A k \in 0..n : f[1..k] \in V
  /\ f[1..0] = base
  /\ \A k \in 1..n : f[1..k] = grow[<<f[1..k - 1], k>>]

\* However the fold's function was chosen: on the indices up to k its value follows
\* from that on the indices before k.
LEMMA FoldWalks ==
  ASSUME NEW n \in Nat, NEW V, NEW base \in V, NEW grow \in [V \X (1..n) -> V],
         NEW f, Folds(f, n, V, base, grow)
  PROVE  WalksTo(f, n, V, base, grow)
<1>0. /\ f[{}] = base
      /\ \A S \in SUBSET (1..n) : S # {} /\ f[S \ {Max(S)}] \in V =>
           f[S] = grow[<<f[S \ {Max(S)}], Max(S)>>]
  BY DEF Folds
<1> DEFINE Bad == {k \in 0..n : f[1..k] \notin V}
<1>1. f[1..0] = base
  <2>1. 1..0 = {}
    OBVIOUS
  <2>. QED  BY <1>0, <2>1
<1>2. ASSUME NEW k \in 1..n, f[1..k - 1] \in V
      PROVE  f[1..k] = grow[<<f[1..k - 1], k>>]
  <2> DEFINE S == 1..k
  <2>1. S \in SUBSET (1..n) /\ S # {} /\ k \in S /\ k \in Nat /\ \A y \in S : y <= k
    OBVIOUS
  <2>2. Max(S) = k
    <3>1. Max(S) \in S /\ \A y \in S : Max(S) >= y
      BY <2>1, GreatestIs
    <3> DEFINE m == Max(S)
    <3>2. m \in S /\ m >= k
      BY <2>1, <3>1
    <3> HIDE DEF m
    <3>3. m = k
      BY <2>1, <3>2
    <3>. QED  BY <3>3 DEF m
  <2>3. S \ {k} = 1..k - 1
    OBVIOUS
  <2> HIDE DEF S
  <2>4. f[S \ {Max(S)}] \in V
    BY <1>2, <2>2, <2>3
  <2>5. f[S] = grow[<<f[S \ {Max(S)}], Max(S)>>]
    BY <1>0, <2>1, <2>4
  <2>6. f[S] = grow[<<f[1..k - 1], k>>]
    BY <2>2, <2>3, <2>5
  <2>. QED  BY <2>6 DEF S
<1>3. Bad = {}
  <2>1. SUFFICES ASSUME Bad # {}
                 PROVE  FALSE
    OBVIOUS
  <2>2. PICK k \in Bad : \A j \in Bad : k <= j
    <3>1. Bad \in SUBSET Nat
      OBVIOUS
    <3> HIDE DEF Bad
    <3>. QED  BY <2>1, <3>1, LeastNumber, Zenon
  <2>3. k \in 0..n /\ f[1..k] \notin V
    OBVIOUS
  <2>4. k # 0
    BY <1>1, <2>3
  <2>5. k \in 1..n /\ k - 1 \in 0..n /\ ~(k <= k - 1)
    BY <2>3, <2>4
  <2>6. f[1..k - 1] \in V
    <3>1. k - 1 \notin Bad
      <4> HIDE DEF Bad
      <4>. QED  BY <2>2, <2>5
    <3>. QED  BY <2>5, <3>1
  <2>7. grow[<<f[1..k - 1], k>>] \in V
    BY <2>5, <2>6
  <2>. QED  BY <1>2, <2>3, <2>5, <2>6, <2>7
<1>4. \A k \in 0..n : f[1..k] \in V
  BY <1>3
<1>5. ASSUME NEW k \in 1..n PROVE f[1..k] = grow[<<f[1..k - 1], k>>]
  <2>1. k - 1 \in 0..n
    OBVIOUS
  <2>. QED  BY <1>2, <1>4, <2>1
<1>. QED  BY <1>1, <1>4, <1>5 DEF WalksTo

--------------------------------------------------------------------------------
\* The two checksums, one element at a time.

\* The equation whose solution the sum of a sequence chooses.
SumBody(s, g) ==
  [S \in SUBSET DOMAIN s |-> IF S = {} THEN 0 ELSE g[S \ {Max(S)}] + s[Max(S)]]

\* SeqSum is the value on all indices of a chosen solution.
LEMMA SumFolds ==
  ASSUME NEW s
  PROVE  SeqSum(s) = (CHOOSE g : g = SumBody(s, g))[DOMAIN s]
  BY Zenon DEF SeqSum, FoldLeft, MapThenFoldSet, SumBody

\* How far a value moves the number before it: a letter counts as two digits.
Shift(v) == IF v >= 10 THEN 100 ELSE 10

\* The equation whose solution the ISO 7064 remainder chooses.
Mod97Body(s, g) ==
  [S \in SUBSET DOMAIN s |->
     IF S = {} THEN 0
     ELSE (g[S \ {Max(S)}] * Shift(s[Max(S)]) + s[Max(S)]) % 97]

\* Mod97 is the value on all indices of a chosen solution.
LEMMA Mod97Folds ==
  ASSUME NEW s
  PROVE  Mod97(s) = (CHOOSE g : g = Mod97Body(s, g))[DOMAIN s]
  BY Zenon DEF Mod97, FoldLeft, MapThenFoldSet, Mod97Body, Shift

\* The sum of a sequence, one element at a time.
LEMMA SumWalks ==
  ASSUME NEW s \in Seq(Nat)
  PROVE  \E f : /\ \A k \in 0..Len(s) : f[k] \in Nat
                /\ f[0] = 0
                /\ \A k \in 1..Len(s) : f[k] = f[k - 1] + s[k]
                /\ SeqSum(s) = f[Len(s)]
<1> DEFINE n    == Len(s)
           D    == 1..n
           B(g) == SumBody(s, g)
           f    == CHOOSE g : g = B(g)
           grow == [p \in Nat \X D |-> p[1] + s[p[2]]]
<1>1. n \in Nat /\ DOMAIN s = D /\ \A i \in D : s[i] \in Nat
  BY LenProperties, ElementOfSeq
<1>2. grow \in [Nat \X D -> Nat]
  BY <1>1
<1>3. \A v \in Nat, i \in D : grow[<<v, i>>] = v + s[i]
  OBVIOUS
<1>4. PICK h \in [SUBSET D -> Nat] : \A S \in SUBSET D : FoldsTo(h, S, 0, grow)
  <2> HIDE DEF grow, n
  <2>. QED  BY <1>1, <1>2, FoldExists
<1>5. ASSUME NEW S \in SUBSET D, S # {}
      PROVE  Max(S) \in D /\ S \ {Max(S)} \in SUBSET D
  <2> HIDE DEF n
  <2>. QED  BY <1>1, <1>5, WithoutGreatest
<1> HIDE DEF grow
<1>6. h = B(h)
  <2>1. h = [S \in SUBSET D |-> h[S]]
    OBVIOUS
  <2>2. ASSUME NEW S \in SUBSET D
        PROVE  h[S] = IF S = {} THEN 0 ELSE h[S \ {Max(S)}] + s[Max(S)]
    <3>1. CASE S = {}
      BY <1>4, <3>1 DEF FoldsTo
    <3>2. CASE S # {}
      <4> DEFINE m == Max(S)
                 T == S \ {Max(S)}
      <4>1. m \in D /\ T \in SUBSET D
        BY <1>5, <3>2
      <4>2. h[S] = grow[<<h[T], m>>]
        BY <1>4, <3>2 DEF FoldsTo
      <4> HIDE DEF m, T
      <4>3. h[T] \in Nat
        BY <4>1
      <4>4. h[S] = h[T] + s[m]
        BY <1>3, <4>1, <4>2, <4>3
      <4>. QED  BY <3>2, <4>4 DEF m, T
    <3>. QED  BY <3>1, <3>2
  <2>. QED  BY <1>1, <2>1, <2>2 DEF SumBody
<1>7. f = B(f)
  <2> HIDE DEF B
  <2>. QED  BY <1>6, Zenon
<1>8. SeqSum(s) = f[D]
  <2>1. SeqSum(s) = (CHOOSE g : g = SumBody(s, g))[DOMAIN s]
    BY SumFolds
  <2>. QED  BY <1>1, <2>1
<1> HIDE DEF f
<1>9. Folds(f, n, Nat, 0, grow)
  <2>1. ASSUME NEW S \in SUBSET D
        PROVE  f[S] = IF S = {} THEN 0 ELSE f[S \ {Max(S)}] + s[Max(S)]
    <3>1. f[S] = B(f)[S]
      BY <1>7, Zenon
    <3>2. B(f)[S] = IF S = {} THEN 0 ELSE f[S \ {Max(S)}] + s[Max(S)]
      BY <1>1 DEF SumBody
    <3>. QED  BY <3>1, <3>2
  <2>2. ASSUME NEW S \in SUBSET D, S # {}, f[S \ {Max(S)}] \in Nat
        PROVE  f[S] = grow[<<f[S \ {Max(S)}], Max(S)>>]
    <3> DEFINE m == Max(S)
               v == f[S \ {Max(S)}]
    <3>1. m \in D /\ v \in Nat /\ f[S] = v + s[m]
      BY <1>5, <2>1, <2>2
    <3> HIDE DEF m, v
    <3>2. f[S] = grow[<<v, m>>]
      BY <1>3, <3>1
    <3>. QED  BY <3>2 DEF m, v
  <2>3. {} \in SUBSET D
    OBVIOUS
  <2>. QED  BY <2>1, <2>2, <2>3 DEF Folds
<1>10. WalksTo(f, n, Nat, 0, grow)
  <2> HIDE DEF n, B
  <2>. QED  BY <1>1, <1>2, <1>9, FoldWalks
<1> DEFINE w == [k \in 0..n |-> f[1..k]]
<1>11. ASSUME NEW k \in 1..n PROVE w[k] = w[k - 1] + s[k]
  <2>1. k - 1 \in 0..n /\ k \in 0..n /\ k \in D
    BY <1>1
  <2>2. f[1..k - 1] \in Nat /\ f[1..k] = grow[<<f[1..k - 1], k>>]
    BY <1>10, <2>1 DEF WalksTo
  <2>3. f[1..k] = f[1..k - 1] + s[k]
    BY <1>3, <2>1, <2>2
  <2>. QED  BY <2>1, <2>3
<1>12. w[0] = 0 /\ (\A k \in 0..n : w[k] \in Nat) /\ SeqSum(s) = w[n]
  BY <1>1, <1>8, <1>10 DEF WalksTo
<1> HIDE DEF w
<1>. QED  BY <1>11, <1>12

\* A remainder stays one.
LEMMA ShiftedIn ==
  ASSUME NEW v \in 0..96, NEW a \in Nat
  PROVE  (v * Shift(a) + a) % 97 \in 0..96
<1>1. CASE a >= 10
  <2>1. Shift(a) = 100
    BY <1>1 DEF Shift
  <2>. QED  BY <2>1
<1>2. CASE ~(a >= 10)
  <2>1. Shift(a) = 10
    BY <1>2 DEF Shift
  <2>. QED  BY <2>1
<1>. QED  BY <1>1, <1>2

\* The remainder of a sequence, one value at a time from the left.
LEMMA Mod97Walks ==
  ASSUME NEW s \in Seq(Nat)
  PROVE  \E f : /\ \A k \in 0..Len(s) : f[k] \in 0..96
                /\ f[0] = 0
                /\ \A k \in 1..Len(s) : f[k] = (f[k - 1] * Shift(s[k]) + s[k]) % 97
                /\ Mod97(s) = f[Len(s)]
<1> DEFINE n    == Len(s)
           D    == 1..n
           B(g) == Mod97Body(s, g)
           f    == CHOOSE g : g = B(g)
           grow == [p \in (0..96) \X D |-> (p[1] * Shift(s[p[2]]) + s[p[2]]) % 97]
<1>1. n \in Nat /\ DOMAIN s = D /\ \A i \in D : s[i] \in Nat
  BY LenProperties, ElementOfSeq
<1>2. grow \in [(0..96) \X D -> 0..96]
  <2>1. \A v \in 0..96, i \in D : (v * Shift(s[i]) + s[i]) % 97 \in 0..96
    BY <1>1, ShiftedIn
  <2>. QED  BY <2>1
<1>3. \A v \in 0..96, i \in D : grow[<<v, i>>] = (v * Shift(s[i]) + s[i]) % 97
  OBVIOUS
<1>4. PICK h \in [SUBSET D -> 0..96] : \A S \in SUBSET D : FoldsTo(h, S, 0, grow)
  <2>1. n \in Nat /\ 0 \in 0..96
    BY <1>1
  <2> HIDE DEF grow, n
  <2>. QED  BY <2>1, <1>2, FoldExists
<1>5. ASSUME NEW S \in SUBSET D, S # {}
      PROVE  Max(S) \in D /\ S \ {Max(S)} \in SUBSET D
  <2> HIDE DEF n
  <2>. QED  BY <1>1, <1>5, WithoutGreatest
<1> HIDE DEF grow
<1>6. h = B(h)
  <2>1. h = [S \in SUBSET D |-> h[S]]
    OBVIOUS
  <2>2. ASSUME NEW S \in SUBSET D
        PROVE  h[S] = IF S = {} THEN 0 ELSE (h[S \ {Max(S)}] * Shift(s[Max(S)]) + s[Max(S)]) % 97
    <3>1. CASE S = {}
      BY <1>4, <3>1 DEF FoldsTo
    <3>2. CASE S # {}
      <4> DEFINE m == Max(S)
                 T == S \ {Max(S)}
      <4>1. m \in D /\ T \in SUBSET D
        BY <1>5, <3>2
      <4>2. h[S] = grow[<<h[T], m>>]
        BY <1>4, <3>2 DEF FoldsTo
      <4> HIDE DEF m, T
      <4>3. h[T] \in 0..96
        BY <4>1
      <4>4. h[S] = (h[T] * Shift(s[m]) + s[m]) % 97
        BY <1>3, <4>1, <4>2, <4>3
      <4>. QED  BY <3>2, <4>4 DEF m, T
    <3>. QED  BY <3>1, <3>2
  <2>. QED  BY <1>1, <2>1, <2>2 DEF Mod97Body
<1>7. f = B(f)
  <2> HIDE DEF B
  <2>. QED  BY <1>6, Zenon
<1>8. Mod97(s) = f[D]
  <2>1. Mod97(s) = (CHOOSE g : g = Mod97Body(s, g))[DOMAIN s]
    BY Mod97Folds
  <2>. QED  BY <1>1, <2>1
<1> HIDE DEF f
<1>9. Folds(f, n, 0..96, 0, grow)
  <2>1. ASSUME NEW S \in SUBSET D
        PROVE  f[S] = IF S = {} THEN 0 ELSE (f[S \ {Max(S)}] * Shift(s[Max(S)]) + s[Max(S)]) % 97
    <3>1. f[S] = B(f)[S]
      BY <1>7, Zenon
    <3>2. B(f)[S] = IF S = {} THEN 0 ELSE (f[S \ {Max(S)}] * Shift(s[Max(S)]) + s[Max(S)]) % 97
      BY <1>1 DEF Mod97Body
    <3>. QED  BY <3>1, <3>2
  <2>2. ASSUME NEW S \in SUBSET D, S # {}, f[S \ {Max(S)}] \in 0..96
        PROVE  f[S] = grow[<<f[S \ {Max(S)}], Max(S)>>]
    <3> DEFINE m == Max(S)
               v == f[S \ {Max(S)}]
    <3>1. m \in D /\ v \in 0..96 /\ f[S] = (v * Shift(s[m]) + s[m]) % 97
      BY <1>5, <2>1, <2>2
    <3> HIDE DEF m, v
    <3>2. f[S] = grow[<<v, m>>]
      BY <1>3, <3>1
    <3>. QED  BY <3>2 DEF m, v
  <2>3. {} \in SUBSET D
    OBVIOUS
  <2>. QED  BY <2>1, <2>2, <2>3 DEF Folds
<1>10. WalksTo(f, n, 0..96, 0, grow)
  <2>1. n \in Nat /\ 0 \in 0..96
    BY <1>1
  <2> HIDE DEF n, B
  <2>. QED  BY <2>1, <1>2, <1>9, FoldWalks
<1> DEFINE w == [k \in 0..n |-> f[1..k]]
<1>11. ASSUME NEW k \in 1..n PROVE w[k] = (w[k - 1] * Shift(s[k]) + s[k]) % 97
  <2>1. k - 1 \in 0..n /\ k \in 0..n /\ k \in D
    BY <1>1
  <2>2. f[1..k - 1] \in 0..96 /\ f[1..k] = grow[<<f[1..k - 1], k>>]
    BY <1>10, <2>1 DEF WalksTo
  <2>3. f[1..k] = (f[1..k - 1] * Shift(s[k]) + s[k]) % 97
    BY <1>3, <2>1, <2>2
  <2>. QED  BY <2>1, <2>3
<1>12. w[0] = 0 /\ (\A k \in 0..n : w[k] \in 0..96) /\ Mod97(s) = w[n]
  BY <1>1, <1>8, <1>10 DEF WalksTo
<1> HIDE DEF w
<1>. QED  BY <1>11, <1>12

\* One more element adds itself to the sum.
LEMMA SumAppend ==
  ASSUME NEW s \in Seq(Nat), NEW d \in Nat
  PROVE  SeqSum(s) \in Nat /\ SeqSum(Append(s, d)) = SeqSum(s) + d
<1> DEFINE n == Len(s)
           t == Append(s, d)
<1>1. n \in Nat /\ t \in Seq(Nat) /\ Len(t) = n + 1 /\ t[n + 1] = d /\ \A k \in 1..n : t[k] = s[k]
  OBVIOUS
<1>2. PICK f : /\ \A k \in 0..n : f[k] \in Nat
               /\ f[0] = 0
               /\ \A k \in 1..n : f[k] = f[k - 1] + s[k]
               /\ SeqSum(s) = f[n]
  BY SumWalks
<1> HIDE DEF t
<1>3. PICK g : /\ \A k \in 0..Len(t) : g[k] \in Nat
               /\ g[0] = 0
               /\ \A k \in 1..Len(t) : g[k] = g[k - 1] + t[k]
               /\ SeqSum(t) = g[Len(t)]
  BY <1>1, SumWalks
<1> DEFINE Bad == {k \in 0..n : g[k] # f[k]}
<1>4. Bad = {}
  <2>1. SUFFICES ASSUME Bad # {}
                 PROVE  FALSE
    OBVIOUS
  <2>2. PICK k \in Bad : \A j \in Bad : k <= j
    <3>1. Bad \in SUBSET Nat
      OBVIOUS
    <3> HIDE DEF Bad
    <3>. QED  BY <2>1, <3>1, LeastNumber, Zenon
  <2>3. k \in 0..n /\ g[k] # f[k] /\ k # 0
    BY <1>2, <1>3
  <2>4. k - 1 \in 0..n /\ ~(k <= k - 1) /\ k \in 1..n /\ k \in 1..Len(t)
    BY <1>1, <2>3
  <2>5. g[k - 1] = f[k - 1]
    BY <2>2, <2>4
  <2>. QED  BY <1>1, <1>2, <1>3, <2>3, <2>4, <2>5
<1>5. g[n] = f[n] /\ n \in 0..n
  BY <1>1, <1>4
<1>6. g[n + 1] = g[n] + t[n + 1]
  <2>1. n + 1 \in 1..Len(t) /\ (n + 1) - 1 = n
    BY <1>1
  <2>. QED  BY <1>3, <2>1
<1>. QED  BY <1>1, <1>2, <1>3, <1>5, <1>6 DEF t

\* One more value shifts the number and adds itself, modulo 97.
LEMMA Mod97Append ==
  ASSUME NEW s \in Seq(Nat), NEW d \in Nat
  PROVE  Mod97(s) \in 0..96 /\ Mod97(Append(s, d)) = (Mod97(s) * Shift(d) + d) % 97
<1> DEFINE n == Len(s)
           t == Append(s, d)
<1>1. n \in Nat /\ t \in Seq(Nat) /\ Len(t) = n + 1 /\ t[n + 1] = d /\ \A k \in 1..n : t[k] = s[k]
  OBVIOUS
<1>2. PICK f : /\ \A k \in 0..n : f[k] \in 0..96
               /\ f[0] = 0
               /\ \A k \in 1..n : f[k] = (f[k - 1] * Shift(s[k]) + s[k]) % 97
               /\ Mod97(s) = f[n]
  BY Mod97Walks
<1> HIDE DEF t
<1>3. PICK g : /\ \A k \in 0..Len(t) : g[k] \in 0..96
               /\ g[0] = 0
               /\ \A k \in 1..Len(t) : g[k] = (g[k - 1] * Shift(t[k]) + t[k]) % 97
               /\ Mod97(t) = g[Len(t)]
  BY <1>1, Mod97Walks
<1> DEFINE Bad == {k \in 0..n : g[k] # f[k]}
<1>4. Bad = {}
  <2>1. SUFFICES ASSUME Bad # {}
                 PROVE  FALSE
    OBVIOUS
  <2>2. PICK k \in Bad : \A j \in Bad : k <= j
    <3>1. Bad \in SUBSET Nat
      OBVIOUS
    <3> HIDE DEF Bad
    <3>. QED  BY <2>1, <3>1, LeastNumber, Zenon
  <2>3. k \in 0..n /\ g[k] # f[k] /\ k # 0
    BY <1>2, <1>3
  <2>4. k - 1 \in 0..n /\ ~(k <= k - 1) /\ k \in 1..n /\ k \in 1..Len(t)
    BY <1>1, <2>3
  <2>5. g[k - 1] = f[k - 1]
    BY <2>2, <2>4
  <2>. QED  BY <1>1, <1>2, <1>3, <2>3, <2>4, <2>5
<1>5. g[n] = f[n] /\ n \in 0..n
  BY <1>1, <1>4
<1>6. g[n + 1] = (g[n] * Shift(t[n + 1]) + t[n + 1]) % 97
  <2>1. n + 1 \in 1..Len(t) /\ (n + 1) - 1 = n
    BY <1>1
  <2>. QED  BY <1>3, <2>1
<1>. QED  BY <1>1, <1>2, <1>3, <1>5, <1>6 DEF t

--------------------------------------------------------------------------------
\* The generators.

\* The lengths that the two generators clamp to.
LEMMA ClampIn ==
  ASSUME NEW x \in Nat
  PROVE  Clamp(x, 13, 19) \in 13..19 /\ Clamp(x, 15, 34) \in 15..34
  BY DEF Clamp

\* A function on 1..n is a sequence of length n.
LEMMA FunctionIsString ==
  ASSUME NEW A, NEW n \in Nat, NEW s \in [1..n -> A]
  PROVE  s \in Seq(A) /\ Len(s) = n
  OBVIOUS

\* A sequence over a set is one over every larger set.
LEMMA WiderString ==
  ASSUME NEW A, NEW B, A \subseteq B, NEW s \in Seq(A)
  PROVE  s \in Seq(B)
<1>1. s \in [1..Len(s) -> B] /\ Len(s) \in Nat
  BY LenProperties, ElementOfSeq
<1>. QED  BY <1>1

\* A draw is a sequence of as many values.
LEMMA DrawIsString ==
  ASSUME NEW n \in 0..30, NEW base \in {10, 36}, NEW draw \in Rolls(n, base)
  PROVE  draw \in Seq(0..base - 1) /\ Len(draw) = n
<1>1. draw \in [1..n -> 0..base - 1]
  <2>1. Rolls(n, base) \subseteq [1..n -> 0..base - 1]
    BY FakeValuesAssumption
  <2>. QED  BY <2>1
<1>. QED  BY <1>1

\* The appended check digit makes the number pass: it moves every digit one place from
\* the end, so the digits doubled for it are those the check doubles.
LEMMA LuhnHolds ==
  ASSUME NEW digits \in Seq(0..9), digits # << >>
  PROVE  /\ luhn_valid(WithCheckDigit(digits))
         /\ Len(WithCheckDigit(digits)) = Len(digits) + 1
<1> DEFINE n   == Len(digits)
           c   == luhn_check_digit(digits)
           t   == Append(digits, c)
           W   == [i \in 1..n |-> IF (n - i) % 2 = 0 THEN Doubled(digits[i]) ELSE digits[i]]
           W2  == [i \in 1..n + 1 |-> IF (n + 1 - i) % 2 = 1 THEN Doubled(t[i]) ELSE t[i]]
           sum == SeqSum(W)
<1>1. n \in Nat \ {0} /\ \A i \in 1..n : digits[i] \in 0..9
  BY EmptySeq, LenProperties
<1>2. \A i \in 1..n : Doubled(digits[i]) \in Nat /\ digits[i] \in Nat
  BY <1>1 DEF Doubled
<1>3. W \in Seq(Nat) /\ Len(W) = n
  <2>1. \A i \in 1..n : (IF (n - i) % 2 = 0 THEN Doubled(digits[i]) ELSE digits[i]) \in Nat
    BY <1>2
  <2> HIDE DEF n
  <2>. QED  BY <1>1, <2>1
<1>4. c = (10 - (sum % 10)) % 10
  BY Zenon DEF luhn_check_digit
<1> HIDE DEF c
<1>5. sum \in Nat
  <2> HIDE DEF W
  <2>. QED  BY <1>3, SumAppend
<1>6. c \in 0..9 /\ (sum + c) % 10 = 0
  <2> HIDE DEF sum
  <2>. QED  BY <1>4, <1>5
<1>7. Len(t) = n + 1 /\ t[n + 1] = c /\ \A i \in 1..n : t[i] = digits[i]
  BY <1>6
<1> HIDE DEF t
<1>8. W2 = Append(W, c)
  <2>1. /\ Append(W, c) \in Seq(Nat) /\ Len(Append(W, c)) = n + 1
        /\ \A i \in 1..n + 1 : Append(W, c)[i] = IF i = n + 1 THEN c ELSE W[i]
    <3>1. n \in Nat /\ W \in Seq(Nat) /\ Len(W) = n /\ c \in Nat
      BY <1>1, <1>3, <1>6
    <3> HIDE DEF W, n
    <3>. QED  BY <3>1
  <2>2. ASSUME NEW i \in 1..n + 1
        PROVE  (IF (n + 1 - i) % 2 = 1 THEN Doubled(t[i]) ELSE t[i]) =
               (IF i = n + 1 THEN c ELSE W[i])
    <3>1. CASE i = n + 1
      <4>1. (n + 1 - i) % 2 = 0
        BY <1>1, <3>1
      <4>. QED  BY <1>7, <3>1, <4>1
    <3>2. CASE i # n + 1
      <4>1. i \in 1..n
        BY <1>1, <3>2
      <4>2. (n + 1 - i) % 2 = 1 <=> (n - i) % 2 = 0
        BY <1>1, <4>1
      <4>3. W[i] = IF (n - i) % 2 = 0 THEN Doubled(digits[i]) ELSE digits[i]
        BY <4>1
      <4>. QED  BY <1>7, <3>2, <4>1, <4>2, <4>3
    <3>. QED  BY <3>1, <3>2
  <2>3. \A i \in 1..n + 1 : W2[i] = Append(W, c)[i]
    BY <2>1, <2>2
  <2>4. W2 \in Seq(Nat) /\ Len(W2) = n + 1
    <3>1. n + 1 \in Nat /\ W2 = [i \in 1..n + 1 |-> W2[i]]
      BY <1>1
    <3>2. \A i \in 1..n + 1 : Append(W, c)[i] \in Nat
      <4>1. \A i \in 1..n : W[i] \in Nat
        BY <1>3, ElementOfSeq
      <4> HIDE DEF W, n
      <4>. QED  BY <1>1, <1>6, <2>1, <4>1
    <3> DEFINE k == n + 1
    <3>3. k \in Nat /\ W2 \in [1..k -> Nat]
      <4> HIDE DEF W, W2, n
      <4>. QED  BY <2>3, <3>1, <3>2
    <3> HIDE DEF W, W2, k
    <3>4. W2 \in Seq(Nat) /\ Len(W2) = k
      BY <3>3, FunctionIsString
    <3>. QED  BY <3>4 DEF k
  <2> HIDE DEF W, W2, n
  <2>. QED  BY <2>1, <2>3, <2>4, SameString
<1>9. SeqSum(W2) = sum + c
  <2>1. c \in Nat
    BY <1>6
  <2> HIDE DEF W, W2
  <2>. QED  BY <1>3, <2>1, <1>8, SumAppend
<1>10. WithCheckDigit(digits) = t
  BY DEF WithCheckDigit, c, t
<1>11. luhn_valid(t) <=> Len(t) >= 2 /\ SeqSum([i \in 1..Len(t) |-> IF (Len(t) - i) % 2 = 1 THEN Doubled(t[i]) ELSE t[i]]) % 10 = 0
  BY Zenon DEF luhn_valid
<1>12. SeqSum([i \in 1..Len(t) |-> IF (Len(t) - i) % 2 = 1 THEN Doubled(t[i]) ELSE t[i]]) = SeqSum(W2)
  BY <1>7
<1>13. n + 1 >= 2
  BY <1>1
<1>. QED  BY <1>6, <1>7, <1>9, <1>10, <1>11, <1>12, <1>13

\* Every fake card number passes the check, at a card number's length.
LEMMA CardNumbers ==
  ASSUME NEW original \in Seq(0..9), NEW visible \in BOOLEAN,
         NEW fake \in fake_cc_luhn(original, visible)
  PROVE  Len(fake) \in 13..19 /\ luhn_valid(fake)
<1> DEFINE len  == Clamp(Len(original), 13, 19)
           kept == IF Len(original) < 4 THEN original ELSE SubSeq(original, 1, 4)
           head == CASE visible -> <<4, 0, 0, 0, 0, 0>>
                     [] ~visible /\ kept = << >> -> <<4>>
                     [] OTHER -> kept
           n    == (IF visible THEN 15 ELSE len - 1) - Len(head)
<1>1. PICK body : body \in Rolls(n, 10) /\ fake = WithCheckDigit(head \o body)
  BY Zenon DEF fake_cc_luhn
<1>2. len \in 13..19 /\ Len(original) \in Nat
  <2>1. Len(original) \in Nat
    BY LenProperties
  <2>. QED  BY <2>1, ClampIn
<1>3. kept \in Seq(0..9) /\ Len(kept) <= 4
  BY <1>2
<1> HIDE DEF kept
<1>4. head \in Seq(0..9) /\ Len(head) \in 1..6 /\ (~visible => Len(head) <= 4)
  <2>1. CASE visible
    <3>1. head = <<4, 0, 0, 0, 0, 0>>
      BY <2>1, Zenon
    <3> HIDE DEF head
    <3>. QED  BY <2>1, <3>1
  <2>2. CASE ~visible /\ kept = << >>
    <3>1. head = <<4>>
      BY <2>2, Zenon
    <3> HIDE DEF head
    <3>. QED  BY <3>1
  <2>3. CASE ~visible /\ kept # << >>
    <3>1. head = kept
      BY <2>3, Zenon
    <3> HIDE DEF head
    <3>2. Len(kept) \in Nat \ {0}
      BY <1>3, <2>3, EmptySeq, LenProperties
    <3>3. Len(kept) \in 1..6
      <4> DEFINE k == Len(kept)
      <4>1. k \in Nat \ {0} /\ k <= 4
        BY <1>3, <3>2
      <4> HIDE DEF k
      <4>2. k \in 1..6
        BY <4>1
      <4>. QED  BY <4>2 DEF k
    <3>. QED  BY <1>3, <2>3, <3>1, <3>3
  <2>. QED  BY <2>1, <2>2, <2>3
<1> HIDE DEF head, len
<1>5. n \in 0..30 /\ n + Len(head) \in 12..18
  <2> DEFINE k == Len(head)
  <2>1. k \in 1..6 /\ (~visible => k <= 4)
    BY <1>4
  <2>2. n \in 0..30 /\ n + k \in 12..18
    <3>1. CASE visible
      <4>1. n = 15 - k
        BY <3>1
      <4> HIDE DEF k, n
      <4>. QED  BY <2>1, <4>1
    <3>2. CASE ~visible
      <4>1. n = (len - 1) - k
        BY <3>2
      <4> HIDE DEF k, n
      <4>. QED  BY <1>2, <2>1, <3>2, <4>1
    <3>. QED  BY <3>1, <3>2
  <2>. QED  BY <2>2 DEF k
<1> HIDE DEF n
<1>7. body \in Seq(0..9) /\ Len(body) = n
  <2>1. body \in Seq(0..10 - 1) /\ Len(body) = n
    BY <1>1, <1>5, DrawIsString
  <2>. QED  BY <2>1
<1> DEFINE digits == head \o body
<1>8. digits \in Seq(0..9) /\ Len(digits) = Len(head) + n /\ digits # << >>
  BY <1>4, <1>5, <1>7
<1> HIDE DEF digits
<1>9. luhn_valid(WithCheckDigit(digits)) /\ Len(WithCheckDigit(digits)) = Len(digits) + 1
  BY <1>8, LuhnHolds
<1>10. fake = WithCheckDigit(digits)
  BY <1>1 DEF digits
<1>11. Len(digits) \in 12..18
  BY <1>4, <1>5, <1>8
<1>12. Len(digits) + 1 \in 13..19
  <2>1. \A k \in 12..18 : k + 1 \in 13..19
    OBVIOUS
  <2>. QED  BY <1>11, <2>1, Zenon
<1>. QED  BY <1>9, <1>10, <1>12, Zenon

\* With check digits in place of two zeros the remainder is 1.
LEMMA IbanHolds ==
  ASSUME NEW country \in Seq(0..35), NEW bban \in Seq(0..35)
  PROVE  iban_valid([country |-> country, check |-> iban_check_digits(country, bban),
                     bban |-> bban])
<1> DEFINE s == bban \o country
           c == iban_check_digits(country, bban)
           r == Mod97(s)
           zeros == bban \o country \o <<0, 0>>
           checked == bban \o country \o <<c \div 10, c % 10>>
<1>1. s \in Seq(Nat)
  <2>1. bban \in Seq(Nat) /\ country \in Seq(Nat)
    <3>1. 0..35 \subseteq Nat
      OBVIOUS
    <3>. QED  BY <3>1, WiderString
  <2>. QED  BY <2>1
<1>2. r \in 0..96
  <2> HIDE DEF s
  <2>. QED  BY <1>1, Mod97Append
<1>3. ASSUME NEW a \in 0..9, NEW b \in 0..9
      PROVE  Mod97(bban \o country \o <<a, b>>) = (((r * 10 + a) % 97) * 10 + b) % 97
  <2> DEFINE u == Append(s, a)
  <2>1. bban \o country \o <<a, b>> = Append(u, b)
    <3> DEFINE x == s
    <3>1. s \o <<a, b>> = Append(Append(s, a), b)
      <4> HIDE DEF s
      <4>. QED  BY <1>1
    <3>. QED  BY <3>1
  <2>2. Shift(a) = 10 /\ Shift(b) = 10 /\ a \in Nat /\ b \in Nat
    BY DEF Shift
  <2> HIDE DEF s
  <2>3. u \in Seq(Nat) /\ Mod97(u) = (r * 10 + a) % 97
    BY <1>1, <2>2, Mod97Append
  <2> HIDE DEF u
  <2>4. Mod97(Append(u, b)) = (Mod97(u) * 10 + b) % 97
    BY <2>2, <2>3, Mod97Append
  <2>. QED  BY <2>1, <2>3, <2>4
<1> HIDE DEF s, r
<1>4. Mod97(zeros) = (((r * 10 + 0) % 97) * 10 + 0) % 97
  BY <1>3
<1>5. c = 98 - Mod97(zeros)
  BY DEF iban_check_digits
<1> HIDE DEF zeros, c
<1>6. c \in 2..98
  BY <1>2, <1>4, <1>5
<1>7. c \div 10 \in 0..9 /\ c % 10 \in 0..9 /\ c = 10 * (c \div 10) + (c % 10)
  BY <1>6
<1>8. Mod97(checked) = (((r * 10 + (c \div 10)) % 97) * 10 + (c % 10)) % 97
  BY <1>3, <1>7, ZenonT(60)
<1> HIDE DEF checked
<1> DEFINE a == c \div 10
           b == c % 10
           m == Mod97(zeros)
<1>9. Mod97(checked) = 1
  <2>1. /\ a \in 0..9 /\ b \in 0..9 /\ c = 10 * a + b /\ c = 98 - m
        /\ m = (((r * 10 + 0) % 97) * 10 + 0) % 97
        /\ Mod97(checked) = (((r * 10 + a) % 97) * 10 + b) % 97
    BY <1>4, <1>5, <1>7, <1>8
  <2> DEFINE x == Mod97(checked)
  <2>2. x = (((r * 10 + a) % 97) * 10 + b) % 97
    BY <2>1
  <2> HIDE DEF a, b, m, x
  <2>3. x = (100 * r + 10 * a + b) % 97 /\ m = (100 * r) % 97
    BY <1>2, <2>1, <2>2
  <2>4. x = ((100 * r + 98) - m) % 97
    <3>1. 100 * r + 10 * a + b = (100 * r + 98) - m
      BY <1>2, <2>1
    <3>. QED  BY <2>3, <3>1
  <2>5. x = 1
    BY <1>2, <2>3, <2>4
  <2>. QED  BY <2>5 DEF x
<1>10. iban_valid([country |-> country, check |-> c, bban |-> bban]) <=>
         c \in 2..98 /\ Mod97(bban \o country \o <<c \div 10, c % 10>>) = 1
  BY DEF iban_valid
<1>. QED  BY <1>6, <1>9, <1>10 DEF c, checked

\* Every masked IBAN passes the check, at a length an IBAN has.
LEMMA Ibans ==
  ASSUME NEW original, original.length \in Nat,
         original.country = << >> \/ original.country \in [1..2 -> 10..35],
         NEW fake \in fake_iban(original)
  PROVE  iban_valid(fake) /\ Len(fake.bban) \in 11..30
<1> DEFINE country == IF original.country = << >> THEN GB ELSE original.country
           length  == IF country \in DOMAIN IbanLength THEN IbanLength[country]
                      ELSE Clamp(original.length, 15, 34)
<1>1. PICK bban : /\ bban \in Rolls(length - 4, 36)
                  /\ fake = [country |-> country, bban |-> bban,
                             check |-> iban_check_digits(country, bban)]
  BY Zenon DEF fake_iban
<1>2. country \in Seq(0..35)
  <2>1. CASE original.country = << >>
    BY <2>1 DEF GB
  <2>2. CASE original.country \in [1..2 -> 10..35] /\ original.country # << >>
    <3> DEFINE f == original.country
    <3>1. f \in [1..2 -> 10..35] /\ 2 \in Nat
      BY <2>2
    <3> HIDE DEF f
    <3>2. f \in Seq(10..35)
      BY <3>1, FunctionIsString
    <3>3. f \in Seq(0..35)
      <4>1. 10..35 \subseteq 0..35
        OBVIOUS
      <4>. QED  BY <3>2, <4>1, WiderString
    <3>. QED  BY <2>2, <3>3 DEF f
  <2>. QED  BY <2>1, <2>2
<1>3. length \in 15..34
  <2>1. Clamp(original.length, 15, 34) \in 15..34
    BY ClampIn
  <2>. QED  BY <2>1, FakeValuesAssumption
<1> HIDE DEF country, length
<1>4. length - 4 \in 11..30 /\ length - 4 \in 0..30
  BY <1>3
<1>6. bban \in Seq(0..35) /\ Len(bban) = length - 4
  <2>1. bban \in Seq(0..36 - 1) /\ Len(bban) = length - 4
    BY <1>1, <1>4, DrawIsString
  <2>. QED  BY <2>1
<1>7. iban_valid([country |-> country, check |-> iban_check_digits(country, bban),
                  bban |-> bban])
  BY <1>2, <1>6, IbanHolds
<1>. QED  BY <1>1, <1>4, <1>6, <1>7

\* The same through the dispatch on the replacement type.
LEMMA GeneratedChecks ==
  ASSUME NEW type, NEW prefix, NEW visible \in BOOLEAN, NEW original \in Originals[type],
         NEW fake \in generate(type, original, prefix, visible)
  PROVE  /\ type = "faker_cc_luhn" => Len(fake) \in 13..19 /\ luhn_valid(fake)
         /\ type = "faker_iban" /\ ~visible =>
               iban_valid(fake) /\ Len(fake.bban) \in 11..30
<1>1. CASE type = "faker_cc_luhn"
  <2>1. original \in Seq(0..9)
    BY <1>1, OriginalsAssumption
  <2>2. fake \in fake_cc_luhn(original, visible)
    BY <1>1 DEF generate
  <2>3. Len(fake) \in 13..19 /\ luhn_valid(fake)
    BY <2>1, <2>2, CardNumbers
  <2>. QED  BY <1>1, <2>3
<1>2. CASE type = "faker_iban" /\ ~visible
  <2>1. original.length \in Nat /\ (original.country = << >> \/ original.country \in [1..2 -> 10..35])
    BY <1>2, OriginalsAssumption
  <2>2. fake \in fake_iban(original)
    BY <1>2 DEF generate
  <2>3. iban_valid(fake) /\ Len(fake.bban) \in 11..30
    BY <2>1, <2>2, Ibans
  <2>. QED  BY <1>2, <2>3
<1>. QED  BY <1>1, <1>2

\* Whatever is drawn and whatever the text was, a fake card number passes the Luhn check
\* with 13 to 19 digits and a masked IBAN passes ISO 13616: a provider or a parser that
\* checks them takes the fake for the real thing.
THEOREM CheckDigitsAlwaysHold == DeploySpec => []CheckDigitsHold
<1>1. DeployInit => CheckDigitsHold
  BY DEF DeployInit, CheckDigitsHold
<1>2. CheckDigitsHold /\ [DeployNext]_allVars => CheckDigitsHold'
  <2> SUFFICES ASSUME CheckDigitsHold, [DeployNext]_allVars
               PROVE  CheckDigitsHold'
    OBVIOUS
  <2>1. CASE redaction' = Nothing \/ UNCHANGED redaction
    BY <2>1 DEF CheckDigitsHold
  <2>2. CASE Redact
    <3>1. PICK r \in loaded, visible \in BOOLEAN :
            \E original \in Originals[r.replacement] :
              \E fake \in generate(r.replacement, original, r.prefix, visible) :
                redaction' = [type |-> r.replacement, prefix |-> r.prefix,
                              visible |-> visible, original |-> original, fake |-> fake]
      BY <2>2, Zenon DEF Redact
    <3>4. PICK original \in Originals[r.replacement] :
            \E fake \in generate(r.replacement, original, r.prefix, visible) :
              redaction' = [type |-> r.replacement, prefix |-> r.prefix,
                            visible |-> visible, original |-> original, fake |-> fake]
      BY <3>1, Zenon
    <3>5. PICK fake \in generate(r.replacement, original, r.prefix, visible) :
            redaction' = [type |-> r.replacement, prefix |-> r.prefix,
                          visible |-> visible, original |-> original, fake |-> fake]
      BY <3>4, Zenon
    <3> DEFINE type == r.replacement
               prefix == r.prefix
    <3>2. /\ type = "faker_cc_luhn" => Len(fake) \in 13..19 /\ luhn_valid(fake)
          /\ type = "faker_iban" /\ ~visible => iban_valid(fake) /\ Len(fake.bban) \in 11..30
      <4>1. original \in Originals[type] /\ fake \in generate(type, original, prefix, visible)
        OBVIOUS
      <4> HIDE DEF type, prefix
      <4>. QED  BY <4>1, GeneratedChecks
    <3>3. redaction'.type = type /\ redaction'.fake = fake /\ redaction'.visible = visible
      BY <3>5
    <3>. QED  BY <3>2, <3>3 DEF CheckDigitsHold
  <2>. QED  BY <2>1, <2>2 DEF DeployNext, Compile, StartGateway, allVars
<1>. QED  BY <1>1, <1>2, PTL DEF DeploySpec

--------------------------------------------------------------------------------
\* The parsers give rules of the schema.

\* The equation whose solution Kept chooses.
KeptBody(s, S, g) ==
  [T \in SUBSET DOMAIN s |->
     IF T = {} THEN << >>
     ELSE IF s[Max(T)] \in S THEN Append(g[T \ {Max(T)}], s[Max(T)])
     ELSE g[T \ {Max(T)}]]

\* Kept is the value on all indices of a chosen solution.
LEMMA KeptFolds ==
  ASSUME NEW s, NEW S
  PROVE  Kept(s, S) = (CHOOSE g : g = KeptBody(s, S, g))[DOMAIN s]
  BY Zenon DEF Kept, FoldLeft, MapThenFoldSet, KeptBody

\* What is kept of s, element by element.
Keeping(g, s, S, A) ==
  /\ \A k \in 0..Len(s) : g[k] \in Seq(A \cap S)
  /\ g[0] = << >>
  /\ \A k \in 1..Len(s) : g[k] = IF s[k] \in S THEN Append(g[k - 1], s[k]) ELSE g[k - 1]

\* Kept is the last of such sequences.
LEMMA KeptWalks ==
  ASSUME NEW A, NEW s \in Seq(A), NEW S
  PROVE  \E g : Keeping(g, s, S, A) /\ Kept(s, S) = g[Len(s)]
<1> DEFINE n    == Len(s)
           D    == 1..n
           V    == Seq(A \cap S)
           B(g) == KeptBody(s, S, g)
           f    == CHOOSE g : g = B(g)
           grow == [p \in V \X D |-> IF s[p[2]] \in S THEN Append(p[1], s[p[2]]) ELSE p[1]]
<1>1. n \in Nat /\ DOMAIN s = D /\ \A i \in D : s[i] \in A
  BY LenProperties, ElementOfSeq
<1>2. \A v \in V, i \in D : grow[<<v, i>>] = IF s[i] \in S THEN Append(v, s[i]) ELSE v
  OBVIOUS
<1>3. << >> \in V /\ grow \in [V \X D -> V]
  <2>1. \A v \in V, i \in D : (IF s[i] \in S THEN Append(v, s[i]) ELSE v) \in V
    BY <1>1
  <2>. QED  BY <2>1
<1> HIDE DEF grow, V
<1>4. PICK h \in [SUBSET D -> V] : \A T \in SUBSET D : FoldsTo(h, T, << >>, grow)
  <2> HIDE DEF n
  <2>. QED  BY <1>1, <1>3, FoldExists
<1>5. ASSUME NEW T \in SUBSET D, T # {}
      PROVE  Max(T) \in D /\ T \ {Max(T)} \in SUBSET D
  <2> HIDE DEF n
  <2>. QED  BY <1>1, <1>5, WithoutGreatest
<1>6. h = B(h)
  <2>1. h = [T \in SUBSET D |-> h[T]]
    OBVIOUS
  <2>2. ASSUME NEW T \in SUBSET D
        PROVE  h[T] = IF T = {} THEN << >>
                      ELSE IF s[Max(T)] \in S THEN Append(h[T \ {Max(T)}], s[Max(T)])
                      ELSE h[T \ {Max(T)}]
    <3> DEFINE m == Max(T)
               U == T \ {Max(T)}
    <3>1. T = {} => h[T] = << >>
      BY <1>4 DEF FoldsTo
    <3>2. T # {} => m \in D /\ h[U] \in V /\ h[T] = grow[<<h[U], m>>]
      BY <1>4, <1>5 DEF FoldsTo
    <3> HIDE DEF m, U
    <3>3. T # {} => h[T] = IF s[m] \in S THEN Append(h[U], s[m]) ELSE h[U]
      BY <1>2, <3>2
    <3>. QED  BY <3>1, <3>3 DEF m, U
  <2>. QED  BY <1>1, <2>1, <2>2 DEF KeptBody
<1>7. f = B(f)
  <2> HIDE DEF B
  <2>. QED  BY <1>6, Zenon
<1>8. Kept(s, S) = f[D]
  BY <1>1, KeptFolds
<1> HIDE DEF f
<1>9. Folds(f, n, V, << >>, grow)
  <2>1. ASSUME NEW T \in SUBSET D
        PROVE  f[T] = IF T = {} THEN << >>
                      ELSE IF s[Max(T)] \in S THEN Append(f[T \ {Max(T)}], s[Max(T)])
                      ELSE f[T \ {Max(T)}]
    <3>1. f[T] = B(f)[T]
      BY <1>7, Zenon
    <3>. QED  BY <1>1, <3>1 DEF KeptBody
  <2>2. ASSUME NEW T \in SUBSET D, T # {}, f[T \ {Max(T)}] \in V
        PROVE  f[T] = grow[<<f[T \ {Max(T)}], Max(T)>>]
    <3> DEFINE m == Max(T)
               v == f[T \ {Max(T)}]
    <3>1. m \in D /\ v \in V /\ f[T] = IF s[m] \in S THEN Append(v, s[m]) ELSE v
      BY <1>5, <2>1, <2>2
    <3> HIDE DEF m, v
    <3>2. f[T] = grow[<<v, m>>]
      BY <1>2, <3>1
    <3>. QED  BY <3>2 DEF m, v
  <2>3. {} \in SUBSET D
    OBVIOUS
  <2>. QED  BY <2>1, <2>2, <2>3 DEF Folds
<1>10. WalksTo(f, n, V, << >>, grow)
  <2> HIDE DEF n, B
  <2>. QED  BY <1>1, <1>3, <1>9, FoldWalks
<1> DEFINE g == [k \in 0..n |-> f[1..k]]
<1>11. \A k \in 0..n : g[k] = f[1..k]
  OBVIOUS
<1> HIDE DEF g
<1>12. \A k \in 0..n : g[k] \in V
  BY <1>10, <1>11 DEF WalksTo
<1>13. g[0] = << >> /\ g[n] = f[D]
  <2>1. 0 \in 0..n /\ n \in 0..n
    BY <1>1
  <2>. QED  BY <1>10, <1>11, <2>1 DEF WalksTo
<1>14. ASSUME NEW k \in 1..n
       PROVE  g[k] = IF s[k] \in S THEN Append(g[k - 1], s[k]) ELSE g[k - 1]
  <2> DEFINE j == k - 1
  <2>1. j \in 0..n /\ k \in 0..n /\ k \in D
    BY <1>1
  <2>2. f[1..k] = grow[<<f[1..j], k>>] /\ f[1..j] \in V
    BY <1>10, <2>1 DEF WalksTo
  <2>3. g[j] = f[1..j] /\ g[k] = f[1..k]
    BY <1>11, <2>1
  <2> HIDE DEF j
  <2>4. grow[<<f[1..j], k>>] = IF s[k] \in S THEN Append(f[1..j], s[k]) ELSE f[1..j]
    BY <1>2, <2>1, <2>2
  <2>. QED  BY <2>2, <2>3, <2>4 DEF j
<1>. QED  BY <1>8, <1>12, <1>13, <1>14 DEF Keeping, V

\* What is kept of a sequence is one of elements that are in both sets.
LEMMA KeptIsString ==
  ASSUME NEW A, NEW s \in Seq(A), NEW S
  PROVE  Kept(s, S) \in Seq(A \cap S)
<1>1. PICK g : Keeping(g, s, S, A) /\ Kept(s, S) = g[Len(s)]
  BY KeptWalks
<1>2. Len(s) \in 0..Len(s)
  BY LenProperties
<1>. QED  BY <1>1, <1>2 DEF Keeping

\* And it has all such elements.
LEMMA KeptLosesNone ==
  ASSUME NEW A, NEW s \in Seq(A), NEW S
  PROVE  ToSet(Kept(s, S)) = ToSet(s) \cap S
<1> DEFINE n == Len(s)
<1>1. PICK g : Keeping(g, s, S, A) /\ Kept(s, S) = g[Len(s)]
  BY KeptWalks
<1>2. n \in Nat /\ DOMAIN s = 1..n
  BY LenProperties
<1>3. /\ \A k \in 0..n : g[k] \in Seq(A \cap S)
      /\ g[0] = << >>
      /\ \A k \in 1..n : g[k] = IF s[k] \in S THEN Append(g[k - 1], s[k]) ELSE g[k - 1]
  BY <1>1 DEF Keeping
<1> HIDE DEF n
<1> DEFINE Upto(k) == ToSet(g[k]) = {s[i] : i \in 1..k} \cap S
           Bad     == {k \in 0..n : ~Upto(k)}
<1>4. Bad = {}
  <2>1. SUFFICES ASSUME Bad # {} PROVE FALSE
    OBVIOUS
  <2>2. PICK k \in Bad : \A j \in Bad : k <= j
    <3>1. Bad \in SUBSET Nat
      OBVIOUS
    <3> HIDE DEF Bad
    <3>. QED  BY <2>1, <3>1, LeastNumber, Zenon
  <2> DEFINE h == k - 1
  <2>3. k \in 0..n /\ ~Upto(k)
    <3> HIDE DEF Upto
    <3>. QED  OBVIOUS
  <2>4. k # 0
    <3>1. Upto(0)
      <4>1. ToSet(<< >>) = {} /\ 1..0 = {}
        BY DEF ToSet
      <4>. QED  BY <1>3, <4>1
    <3> HIDE DEF Upto
    <3>. QED  BY <2>3, <3>1
  <2>5. k \in 1..n /\ h \in 0..n /\ 1..k = 1..h \cup {k} /\ k - 1 = h /\ ~(k <= h)
    BY <1>2, <2>3, <2>4
  <2> HIDE DEF h
  <2>6. Upto(h)
    <3> HIDE DEF Upto
    <3>1. h \notin Bad
      <4> HIDE DEF Bad
      <4>. QED  BY <2>2, <2>5
    <3>. QED  BY <2>5, <3>1
  <2>7. ToSet(g[k]) = IF s[k] \in S THEN ToSet(g[h]) \cup {s[k]} ELSE ToSet(g[h])
    <3> DEFINE B == A \cap S
               a == g[h]
               x == s[k]
    <3>1. a \in Seq(B) /\ g[k] = IF x \in S THEN Append(a, x) ELSE a
      BY <1>3, <2>5
    <3> HIDE DEF B, a, x
    <3>2. /\ Len(a) \in Nat /\ DOMAIN a = 1..Len(a)
          /\ DOMAIN Append(a, x) = 1..Len(a) + 1
          /\ \A j \in 1..Len(a) : Append(a, x)[j] = a[j]
          /\ Append(a, x)[Len(a) + 1] = x
      BY <3>1
    <3>3. ToSet(Append(a, x)) = ToSet(a) \cup {x}
      BY <3>2 DEF ToSet
    <3>. QED  BY <3>1, <3>3 DEF a, x
  <2>8. Upto(k)
    BY <2>5, <2>6, <2>7
  <2> HIDE DEF Upto
  <2>. QED  BY <2>3, <2>8
<1>5. Upto(n)
  <2>1. n \in 0..n
    BY <1>2
  <2> HIDE DEF Upto
  <2>. QED  BY <1>4, <2>1
<1>. QED  BY <1>1, <1>2, <1>5 DEF n, ToSet

\* What a line may continue: a list, a block or nothing.
FieldNames == ListKeys \cup {"None", "Skip", "PatternBlock"}

\* The state of that parser.
NpState(W) == [field : FieldNames, current : {Nothing} \cup NpRule(W), rules : Seq(NpRule(W))]

\* A rule without a pattern yet has the empty one.
LEMMA EmptyIsRegex == << >> \in Regexes
  BY DEF Regexes

\* What is kept when a rule ends is a sequence of rules.
LEMMA FlushedIsString ==
  ASSUME NEW W, NEW st \in NpState(W)
  PROVE  Flushed(st) \in Seq(NpRule(W))
<1> DEFINE R == NpRule(W)
<1>1. st.rules \in Seq(R) /\ st.current \in {Nothing} \cup R
  BY DEF NpState
<1>2. Flushed(st) = IF st.current # Nothing /\ st.current.id # Nothing /\ st.current.pattern # << >>
                    THEN Append(st.rules, st.current) ELSE st.rules
  BY Zenon DEF Flushed
<1> HIDE DEF R
<1>3. st.current # Nothing => Append(st.rules, st.current) \in Seq(R)
  BY <1>1
<1>. QED  BY <1>1, <1>2, <1>3 DEF R

\* A line that starts a rule.
LEMMA ItemIsState ==
  ASSUME NEW W, Nothing \in W, NEW st \in NpState(W), NEW v \in W
  PROVE  [field |-> "None", rules |-> Flushed(st),
          current |-> [EmptyRule EXCEPT !.name = v]] \in NpState(W)
<1> DEFINE d == [EmptyRule EXCEPT !.name = v]
           R == NpRule(W)
<1>1. d \in R
  BY EmptyIsRegex DEF EmptyRule, NpRule
<1>2. Flushed(st) \in Seq(R)
  BY FlushedIsString
<1>3. "None" \in FieldNames
  BY DEF FieldNames
<1> HIDE DEF d, R
<1>4. [field |-> "None", rules |-> Flushed(st), current |-> d] \in
        [field : FieldNames, current : {Nothing} \cup R, rules : Seq(R)]
  BY <1>1, <1>2, <1>3
<1>. QED  BY <1>4 DEF NpState, d, R

\* A line inside a rule.
LEMMA KeyLineIsState ==
  ASSUME NEW W, NEW st \in NpState(W), st.current # Nothing, NEW ln, ln.val \in W,
         ln.key = "pattern" /\ ln.val # Block => ln.val \in Regexes
  PROVE  NpKeyLine(st, ln) \in NpState(W)
<1> DEFINE c == st.current
<1>1. /\ st = [field |-> st.field, current |-> c, rules |-> st.rules]
      /\ c \in NpRule(W) /\ st.rules \in Seq(NpRule(W)) /\ st.field \in FieldNames
  BY DEF NpState
<1>2. ASSUME NEW f \in FieldNames PROVE [st EXCEPT !.field = f] \in NpState(W)
  BY DEF NpState
<1>0. /\ "None" \in FieldNames /\ "Skip" \in FieldNames /\ "PatternBlock" \in FieldNames
      /\ \A k \in ListKeys : k \in FieldNames
  BY DEF FieldNames
<1>3. ASSUME NEW f \in FieldNames, NEW d \in NpRule(W)
      PROVE [st EXCEPT !.current = d, !.field = f] \in NpState(W)
  BY DEF NpState
<1>4. ASSUME NEW d \in NpRule(W)
      PROVE [st EXCEPT !.current = d] \in NpState(W)
  BY DEF NpState
<1>5. CASE ln.key \in {"id", "name"}
  <2>1. NpKeyLine(st, ln) = [st EXCEPT !.current[ln.key] = ln.val, !.field = "None"]
    <3>1. ln.key = "id" =>
            NpKeyLine(st, ln) = [st EXCEPT !.current[ln.key] = ln.val, !.field = "None"]
      BY Zenon DEF NpKeyLine, ListKeys
    <3>2. ln.key = "name" =>
            NpKeyLine(st, ln) = [st EXCEPT !.current[ln.key] = ln.val, !.field = "None"]
      BY Zenon DEF NpKeyLine, ListKeys
    <3>. QED  BY <1>5, <3>1, <3>2
  <2> DEFINE d == [c EXCEPT ![ln.key] = ln.val]
  <2>2. d \in NpRule(W)
    BY <1>1, <1>5 DEF NpRule
  <2>3. [st EXCEPT !.current[ln.key] = ln.val, !.field = "None"] =
        [st EXCEPT !.current = d, !.field = "None"]
    OBVIOUS
  <2> HIDE DEF d
  <2>4. [st EXCEPT !.current = d, !.field = "None"] \in NpState(W)
    BY <1>0, <1>3, <2>2, Zenon
  <2>. QED  BY <2>1, <2>3, <2>4, Zenon
<1>6. CASE ln.key = "pattern" /\ ln.val = Block
  <2>1. NpKeyLine(st, ln) = [st EXCEPT !.current.pattern = << >>, !.field = "PatternBlock"]
    BY <1>6, Zenon DEF NpKeyLine, ListKeys
  <2> DEFINE d == [c EXCEPT !.pattern = << >>]
  <2>2. d \in NpRule(W)
    BY <1>1, EmptyIsRegex DEF NpRule
  <2>3. [st EXCEPT !.current.pattern = << >>, !.field = "PatternBlock"] =
        [st EXCEPT !.current = d, !.field = "PatternBlock"]
    OBVIOUS
  <2> HIDE DEF d
  <2>4. [st EXCEPT !.current = d, !.field = "PatternBlock"] \in NpState(W)
    BY <1>0, <1>3, <2>2, Zenon
  <2>. QED  BY <2>1, <2>3, <2>4, Zenon
<1>7. CASE ln.key = "pattern" /\ ln.val # Block
  <2>1. NpKeyLine(st, ln) = [st EXCEPT !.current.pattern = ln.val, !.field = "None"]
    BY <1>7, Zenon DEF NpKeyLine, ListKeys
  <2> DEFINE d == [c EXCEPT !.pattern = ln.val]
  <2>2. d \in NpRule(W)
    BY <1>1, <1>7 DEF NpRule
  <2>3. [st EXCEPT !.current.pattern = ln.val, !.field = "None"] =
        [st EXCEPT !.current = d, !.field = "None"]
    OBVIOUS
  <2> HIDE DEF d
  <2>4. [st EXCEPT !.current = d, !.field = "None"] \in NpState(W)
    BY <1>0, <1>3, <2>2, Zenon
  <2>. QED  BY <2>1, <2>3, <2>4, Zenon
<1>8. CASE ln.key \in ListKeys
  <2>1. NpKeyLine(st, ln) = [st EXCEPT !.field = ln.key]
    <3>1. ln.key = "categories" => NpKeyLine(st, ln) = [st EXCEPT !.field = ln.key]
      BY Zenon DEF NpKeyLine, ListKeys
    <3>2. ln.key = "examples" => NpKeyLine(st, ln) = [st EXCEPT !.field = ln.key]
      BY Zenon DEF NpKeyLine, ListKeys
    <3>3. ln.key = "negative_examples" => NpKeyLine(st, ln) = [st EXCEPT !.field = ln.key]
      BY Zenon DEF NpKeyLine, ListKeys
    <3>. QED  BY <1>8, <3>1, <3>2, <3>3 DEF ListKeys
  <2>2. ln.key \in FieldNames
    BY <1>0, <1>8, Zenon
  <2>3. [st EXCEPT !.field = ln.key] \in NpState(W)
    BY <1>2, <2>2, Zenon
  <2>. QED  BY <2>1, <2>3
<1>9. CASE ln.key = "references"
  <2>1. NpKeyLine(st, ln) = [st EXCEPT !.field = "Skip"]
    BY <1>9, Zenon DEF NpKeyLine, ListKeys
  <2>. QED  BY <1>0, <1>2, <2>1
<1>10. CASE ln.key = "element"
  <2>1. NpKeyLine(st, ln) = IF st.field \in ListKeys /\ ln.val # Block
                            THEN [st EXCEPT !.current[st.field] = @ \cup {ln.val}]
                            ELSE st
    BY <1>10, Zenon DEF NpKeyLine, ListKeys
  <2>2. CASE st.field \in ListKeys
    <3> DEFINE k == st.field
    <3>1. [c EXCEPT ![k] = @ \cup {ln.val}] \in NpRule(W)
      BY <1>1, <2>2 DEF NpRule, ListKeys
    <3>2. [st EXCEPT !.current[st.field] = @ \cup {ln.val}] =
          [st EXCEPT !.current = [c EXCEPT ![k] = @ \cup {ln.val}]]
      OBVIOUS
    <3>. QED  BY <1>4, <2>1, <3>1, <3>2
  <2>. QED  BY <2>1, <2>2
<1>11. CASE ln.key = "colon"
  <2>1. NpKeyLine(st, ln) = IF st.field \in ListKeys \cup {"Skip"}
                            THEN [st EXCEPT !.field = "None"] ELSE st
    BY <1>11, Zenon DEF NpKeyLine, ListKeys
  <2>. QED  BY <1>0, <1>2, <2>1
<1>12. CASE ln.key \notin {"id", "name", "pattern", "references", "element", "colon"} \cup ListKeys
  <2>1. NpKeyLine(st, ln) = st
    BY <1>12, Zenon DEF NpKeyLine
  <2>. QED  BY <2>1
<1>. QED  BY <1>5, <1>6, <1>7, <1>8, <1>9, <1>10, <1>11, <1>12

\* One line of a Nosey Parker file.
LEMMA NpLineIsState ==
  ASSUME NEW W, Nothing \in W, NEW st \in NpState(W), NEW ln, ln.val \in W,
         (ln.key = "pattern" /\ ln.val # Block) \/ (ln.deep /\ ln.key # "item") =>
            ln.val \in Regexes
  PROVE  NpLine(st, ln) \in NpState(W)
<1> DEFINE c == st.current
<1>1. CASE ln.key = "item"
  <2>1. NpLine(st, ln) = [field |-> "None", rules |-> Flushed(st),
                          current |-> [EmptyRule EXCEPT !.name = ln.val]]
    BY <1>1, Zenon DEF NpLine
  <2>. QED  BY <2>1, ItemIsState
<1>2. CASE ln.key # "item" /\ st.current = Nothing
  BY <1>2 DEF NpLine
<1>3. CASE ln.key # "item" /\ st.current # Nothing /\ st.field = "PatternBlock" /\ ln.deep
  <2>1. NpLine(st, ln) = [st EXCEPT !.current.pattern = @ \o ln.val]
    BY <1>3, Zenon DEF NpLine
  <2>2. ln.val \in Regexes /\ c \in NpRule(W)
    BY <1>3 DEF NpState
  <2>3. c.pattern \o ln.val \in Regexes
    BY <2>2 DEF NpRule, Regexes
  <2>4. [c EXCEPT !.pattern = @ \o ln.val] \in NpRule(W)
    BY <2>2, <2>3 DEF NpRule
  <2>5. [st EXCEPT !.current.pattern = @ \o ln.val] =
        [st EXCEPT !.current = [c EXCEPT !.pattern = @ \o ln.val]]
    OBVIOUS
  <2>. QED  BY <2>1, <2>4, <2>5 DEF NpState
<1>4. CASE ln.key # "item" /\ st.current # Nothing /\ st.field = "PatternBlock" /\ ~ln.deep
  <2> DEFINE t == [st EXCEPT !.field = "None"]
  <2>1. NpLine(st, ln) = NpKeyLine(t, ln)
    BY <1>4, Zenon DEF NpLine
  <2>2. t \in NpState(W) /\ t.current = st.current
    BY DEF NpState, FieldNames
  <2> HIDE DEF t
  <2>. QED  BY <1>4, <2>1, <2>2, KeyLineIsState
<1>5. CASE ln.key # "item" /\ st.current # Nothing /\ st.field # "PatternBlock"
  <2>1. NpLine(st, ln) = NpKeyLine(st, ln)
    BY <1>5, Zenon DEF NpLine
  <2>. QED  BY <1>5, <2>1, KeyLineIsState
<1>. QED  BY <1>1, <1>2, <1>3, <1>4, <1>5

\* The empty sequence is one over every set.
LEMMA EmptyIsString == \A S : << >> \in Seq(S)
  OBVIOUS

\* The equation whose solution the fold over the lines chooses.
NpBody(s, g) ==
  [T \in SUBSET DOMAIN s |->
     IF T = {} THEN NpStart ELSE NpLine(g[T \ {Max(T)}], s[Max(T)])]

\* That fold is the value on all indices of a chosen solution.
LEMMA NpStateOfFolds ==
  ASSUME NEW s
  PROVE  FoldLeft(NpLine, NpStart, s) = (CHOOSE g : g = NpBody(s, g))[DOMAIN s]
  BY Zenon DEF FoldLeft, MapThenFoldSet, NpBody

\* The parser's states while it reads the lines s.
NpReads(g, s, W) ==
  /\ \A k \in 0..Len(s) : g[k] \in NpState(W)
  /\ g[0] = NpStart
  /\ \A k \in 1..Len(s) : g[k] = NpLine(g[k - 1], s[k])

\* The fold over the lines is the last of such states.
LEMMA NpStateReads ==
  ASSUME NEW W, Nothing \in W, NEW s, IsNpFile(s), \A i \in DOMAIN s : s[i].val \in W
  PROVE  \E g : NpReads(g, s, W) /\ FoldLeft(NpLine, NpStart, s) = g[Len(s)]
<1> DEFINE n    == Len(s)
           D    == 1..n
           V    == NpState(W)
           B(g) == NpBody(s, g)
           f    == CHOOSE g : g = B(g)
           grow == [p \in V \X D |-> NpLine(p[1], s[p[2]])]
<1>1. n \in Nat /\ DOMAIN s = D
  BY DEF IsNpFile, IsSeq
<1>2. \A v \in V, i \in D : grow[<<v, i>>] = NpLine(v, s[i])
  OBVIOUS
<1>3. NpStart \in V /\ grow \in [V \X D -> V]
  <2>1. NpStart \in V
    BY EmptyIsString DEF NpState, NpStart, FieldNames
  <2>2. \A v \in V, i \in D : NpLine(v, s[i]) \in V
    BY <1>1, NpLineIsState DEF IsNpFile
  <2> HIDE DEF V
  <2>. QED  BY <2>1, <2>2
<1> HIDE DEF grow, V
<1>4. PICK h \in [SUBSET D -> V] : \A T \in SUBSET D : FoldsTo(h, T, NpStart, grow)
  <2> HIDE DEF n
  <2>. QED  BY <1>1, <1>3, FoldExists
<1>5. ASSUME NEW T \in SUBSET D, T # {}
      PROVE  Max(T) \in D /\ T \ {Max(T)} \in SUBSET D
  <2> HIDE DEF n
  <2>. QED  BY <1>1, <1>5, WithoutGreatest
<1>6. h = B(h)
  <2>1. h = [T \in SUBSET D |-> h[T]]
    OBVIOUS
  <2>2. ASSUME NEW T \in SUBSET D
        PROVE  h[T] = IF T = {} THEN NpStart
                      ELSE NpLine(h[T \ {Max(T)}], s[Max(T)])
    <3> DEFINE m == Max(T)
               U == T \ {Max(T)}
    <3>1. T = {} => h[T] = NpStart
      BY <1>4 DEF FoldsTo
    <3>2. T # {} => m \in D /\ h[U] \in V /\ h[T] = grow[<<h[U], m>>]
      BY <1>4, <1>5 DEF FoldsTo
    <3> HIDE DEF m, U
    <3>3. T # {} => h[T] = NpLine(h[U], s[m])
      BY <1>2, <3>2
    <3>. QED  BY <3>1, <3>3 DEF m, U
  <2>. QED  BY <1>1, <2>1, <2>2 DEF NpBody
<1>7. f = B(f)
  <2> HIDE DEF B
  <2>. QED  BY <1>6, Zenon
<1>8. FoldLeft(NpLine, NpStart, s) = f[D]
  BY <1>1, NpStateOfFolds
<1> HIDE DEF f
<1>9. Folds(f, n, V, NpStart, grow)
  <2>1. ASSUME NEW T \in SUBSET D
        PROVE  f[T] = IF T = {} THEN NpStart
                      ELSE NpLine(f[T \ {Max(T)}], s[Max(T)])
    <3>1. f[T] = B(f)[T]
      BY <1>7, Zenon
    <3>. QED  BY <1>1, <3>1 DEF NpBody
  <2>2. ASSUME NEW T \in SUBSET D, T # {}, f[T \ {Max(T)}] \in V
        PROVE  f[T] = grow[<<f[T \ {Max(T)}], Max(T)>>]
    <3> DEFINE m == Max(T)
               v == f[T \ {Max(T)}]
    <3>1. m \in D /\ v \in V /\ f[T] = NpLine(v, s[m])
      BY <1>5, <2>1, <2>2
    <3> HIDE DEF m, v
    <3>2. f[T] = grow[<<v, m>>]
      BY <1>2, <3>1
    <3>. QED  BY <3>2 DEF m, v
  <2>3. {} \in SUBSET D
    OBVIOUS
  <2>. QED  BY <2>1, <2>2, <2>3 DEF Folds
<1>10. WalksTo(f, n, V, NpStart, grow)
  <2> HIDE DEF n, B
  <2>. QED  BY <1>1, <1>3, <1>9, FoldWalks
<1> DEFINE g == [k \in 0..n |-> f[1..k]]
<1>11. \A k \in 0..n : g[k] = f[1..k]
  OBVIOUS
<1> HIDE DEF g
<1>12. \A k \in 0..n : g[k] \in NpState(W)
  BY <1>10, <1>11 DEF WalksTo, V
<1>13. g[0] = NpStart /\ g[n] = f[D]
  <2>1. 0 \in 0..n /\ n \in 0..n
    BY <1>1
  <2>. QED  BY <1>10, <1>11, <2>1 DEF WalksTo
<1>14. ASSUME NEW k \in 1..n PROVE g[k] = NpLine(g[k - 1], s[k])
  <2> DEFINE j == k - 1
  <2>1. j \in 0..n /\ k \in 0..n /\ k \in D
    BY <1>1
  <2>2. f[1..k] = grow[<<f[1..j], k>>] /\ f[1..j] \in V
    BY <1>10, <2>1 DEF WalksTo
  <2>3. g[j] = f[1..j] /\ g[k] = f[1..k]
    BY <1>11, <2>1
  <2> HIDE DEF j
  <2>4. grow[<<f[1..j], k>>] = NpLine(f[1..j], s[k])
    BY <1>2, <2>1, <2>2
  <2>. QED  BY <2>2, <2>3, <2>4 DEF j
<1>. QED  BY <1>8, <1>12, <1>13, <1>14 DEF NpReads

\* The parser's state after any Nosey Parker file.
LEMMA NpStateOf ==
  ASSUME NEW W, Nothing \in W, NEW s, IsNpFile(s), \A i \in DOMAIN s : s[i].val \in W
  PROVE  FoldLeft(NpLine, NpStart, s) \in NpState(W)
<1>1. PICK g : NpReads(g, s, W) /\ FoldLeft(NpLine, NpStart, s) = g[Len(s)]
  BY NpStateReads
<1>2. Len(s) \in 0..Len(s)
  BY DEF IsNpFile, IsSeq
<1>. QED  BY <1>1, <1>2 DEF NpReads

\* What a Nosey Parker file parses to is a sequence of rules.
LEMMA ParsedIsString ==
  ASSUME NEW W, Nothing \in W, NEW s, IsNpFile(s), \A i \in DOMAIN s : s[i].val \in W
  PROVE  parse_np_file(s) \in Seq(NpRule(W))
  BY NpStateOf, FlushedIsString DEF parse_np_file

\* The equation whose solution the fold over the files chooses.
ConcatBody(s, g) ==
  [T \in SUBSET DOMAIN s |->
     IF T = {} THEN << >> ELSE g[T \ {Max(T)}] \o parse_np_file(s[Max(T)])]

\* That fold is the value on all indices of a chosen solution.
LEMMA NpRulesOfFolds ==
  ASSUME NEW s
  PROVE  FoldLeft(LAMBDA all, file : all \o parse_np_file(file), << >>, s) =
            (CHOOSE g : g = ConcatBody(s, g))[DOMAIN s]
  BY Zenon DEF FoldLeft, MapThenFoldSet, ConcatBody

\* The rules of the files s, file by file.
Collects(g, s, W) ==
  /\ \A k \in 0..Len(s) : g[k] \in Seq(NpRule(W))
  /\ g[0] = << >>
  /\ \A k \in 1..Len(s) : g[k] = g[k - 1] \o parse_np_file(s[k])

\* The fold over the files is the last of such sequences.
LEMMA NpRulesCollect ==
  ASSUME NEW W, Nothing \in W, NEW s, IsSeq(s),
         \A k \in DOMAIN s : IsNpFile(s[k]) /\ \A i \in DOMAIN s[k] : s[k][i].val \in W
  PROVE  \E g : /\ Collects(g, s, W)
                /\ FoldLeft(LAMBDA all, file : all \o parse_np_file(file), << >>, s) = g[Len(s)]
<1> DEFINE n    == Len(s)
           D    == 1..n
           V    == Seq(NpRule(W))
           B(g) == ConcatBody(s, g)
           f    == CHOOSE g : g = B(g)
           grow == [p \in V \X D |-> p[1] \o parse_np_file(s[p[2]])]
<1>1. n \in Nat /\ DOMAIN s = D
  BY DEF IsSeq
<1>2. \A v \in V, i \in D : grow[<<v, i>>] = v \o parse_np_file(s[i])
  OBVIOUS
<1>3. << >> \in V /\ grow \in [V \X D -> V]
  <2> DEFINE R == NpRule(W)
  <2>1. \A i \in D : parse_np_file(s[i]) \in Seq(R)
    BY <1>1, ParsedIsString
  <2> HIDE DEF R
  <2>2. \A v \in Seq(R), i \in D : v \o parse_np_file(s[i]) \in Seq(R)
    BY <2>1
  <2>3. << >> \in Seq(R)
    OBVIOUS
  <2>4. V = Seq(R)
    BY DEF R
  <2> HIDE DEF V
  <2>. QED  BY <2>2, <2>3, <2>4
<1> HIDE DEF grow, V
<1>4. PICK h \in [SUBSET D -> V] : \A T \in SUBSET D : FoldsTo(h, T, << >>, grow)
  <2> HIDE DEF n
  <2>. QED  BY <1>1, <1>3, FoldExists
<1>5. ASSUME NEW T \in SUBSET D, T # {}
      PROVE  Max(T) \in D /\ T \ {Max(T)} \in SUBSET D
  <2> HIDE DEF n
  <2>. QED  BY <1>1, <1>5, WithoutGreatest
<1>6. h = B(h)
  <2>1. h = [T \in SUBSET D |-> h[T]]
    OBVIOUS
  <2>2. ASSUME NEW T \in SUBSET D
        PROVE  h[T] = IF T = {} THEN << >>
                      ELSE h[T \ {Max(T)}] \o parse_np_file(s[Max(T)])
    <3> DEFINE m == Max(T)
               U == T \ {Max(T)}
    <3>1. T = {} => h[T] = << >>
      BY <1>4 DEF FoldsTo
    <3>2. T # {} => m \in D /\ h[U] \in V /\ h[T] = grow[<<h[U], m>>]
      BY <1>4, <1>5 DEF FoldsTo
    <3> HIDE DEF m, U
    <3>3. T # {} => h[T] = h[U] \o parse_np_file(s[m])
      BY <1>2, <3>2
    <3>. QED  BY <3>1, <3>3 DEF m, U
  <2>. QED  BY <1>1, <2>1, <2>2 DEF ConcatBody
<1>7. f = B(f)
  <2> HIDE DEF B
  <2>. QED  BY <1>6, Zenon
<1>8. FoldLeft(LAMBDA all, file : all \o parse_np_file(file), << >>, s) = f[D]
  BY <1>1, NpRulesOfFolds
<1> HIDE DEF f
<1>9. Folds(f, n, V, << >>, grow)
  <2>1. ASSUME NEW T \in SUBSET D
        PROVE  f[T] = IF T = {} THEN << >>
                      ELSE f[T \ {Max(T)}] \o parse_np_file(s[Max(T)])
    <3>1. f[T] = B(f)[T]
      BY <1>7, Zenon
    <3>. QED  BY <1>1, <3>1 DEF ConcatBody
  <2>2. ASSUME NEW T \in SUBSET D, T # {}, f[T \ {Max(T)}] \in V
        PROVE  f[T] = grow[<<f[T \ {Max(T)}], Max(T)>>]
    <3> DEFINE m == Max(T)
               v == f[T \ {Max(T)}]
    <3>1. m \in D /\ v \in V /\ f[T] = v \o parse_np_file(s[m])
      BY <1>5, <2>1, <2>2
    <3> HIDE DEF m, v
    <3>2. f[T] = grow[<<v, m>>]
      BY <1>2, <3>1
    <3>. QED  BY <3>2 DEF m, v
  <2>3. {} \in SUBSET D
    OBVIOUS
  <2>. QED  BY <2>1, <2>2, <2>3 DEF Folds
<1>10. WalksTo(f, n, V, << >>, grow)
  <2> HIDE DEF n, B
  <2>. QED  BY <1>1, <1>3, <1>9, FoldWalks
<1> DEFINE g == [k \in 0..n |-> f[1..k]]
<1>11. \A k \in 0..n : g[k] = f[1..k]
  OBVIOUS
<1> HIDE DEF g
<1>12. \A k \in 0..n : g[k] \in V
  BY <1>10, <1>11 DEF WalksTo
<1>13. g[0] = << >> /\ g[n] = f[D]
  <2>1. 0 \in 0..n /\ n \in 0..n
    BY <1>1
  <2>. QED  BY <1>10, <1>11, <2>1 DEF WalksTo
<1>14. ASSUME NEW k \in 1..n PROVE g[k] = g[k - 1] \o parse_np_file(s[k])
  <2> DEFINE j == k - 1
  <2>1. j \in 0..n /\ k \in 0..n /\ k \in D
    BY <1>1
  <2>2. f[1..k] = grow[<<f[1..j], k>>] /\ f[1..j] \in V
    BY <1>10, <2>1 DEF WalksTo
  <2>3. g[j] = f[1..j] /\ g[k] = f[1..k]
    BY <1>11, <2>1
  <2> HIDE DEF j
  <2>4. grow[<<f[1..j], k>>] = f[1..j] \o parse_np_file(s[k])
    BY <1>2, <2>1, <2>2
  <2>. QED  BY <2>2, <2>3, <2>4 DEF j
<1>. QED  BY <1>8, <1>12, <1>13, <1>14 DEF Collects, V

\* The rules of any number of such files.
LEMMA NpRulesOf ==
  ASSUME NEW W, Nothing \in W, NEW s, IsSeq(s),
         \A k \in DOMAIN s : IsNpFile(s[k]) /\ \A i \in DOMAIN s[k] : s[k][i].val \in W
  PROVE  FoldLeft(LAMBDA all, file : all \o parse_np_file(file), << >>, s) \in Seq(NpRule(W))
<1>1. PICK g : /\ Collects(g, s, W)
               /\ FoldLeft(LAMBDA all, file : all \o parse_np_file(file), << >>, s) = g[Len(s)]
  BY NpRulesCollect
<1>2. Len(s) \in 0..Len(s)
  BY DEF IsSeq
<1>. QED  BY <1>1, <1>2 DEF Collects

\* A pattern of the patterns-db parser, when W are the values of the lines.
SpdbPattern(W) == [name : W, regex : Regexes, confidence : W]

\* The state of that parser.
SpdbState(W) == [name : {Nothing} \cup W, regex : {Nothing} \cup Regexes,
                 confidence : {Nothing} \cup W, patterns : Seq(SpdbPattern(W))]

\* What is kept when a pattern ends is a sequence of patterns.
LEMMA SpdbFlushedIsString ==
  ASSUME NEW W, NEW st \in SpdbState(W)
  PROVE  SpdbFlushed(st) \in Seq(SpdbPattern(W))
<1> DEFINE R == SpdbPattern(W)
           d == [name |-> st.name, regex |-> st.regex, confidence |-> st.confidence]
<1>1. st.patterns \in Seq(R)
  BY DEF SpdbState
<1>2. SpdbFlushed(st) = IF st.name # Nothing /\ st.regex # Nothing /\ st.confidence # Nothing
                        THEN Append(st.patterns, d) ELSE st.patterns
  BY Zenon DEF SpdbFlushed
<1>3. st.name # Nothing /\ st.regex # Nothing /\ st.confidence # Nothing => d \in R
  BY DEF SpdbState, SpdbPattern
<1> HIDE DEF R, d
<1>4. d \in R => Append(st.patterns, d) \in Seq(R)
  BY <1>1
<1>. QED  BY <1>1, <1>2, <1>3, <1>4 DEF R

\* One line of a patterns-db file.
LEMMA SpdbLineIsState ==
  ASSUME NEW W, NEW st \in SpdbState(W), NEW ln, ln.val \in W,
         ln.key = "regex" => ln.val \in Regexes
  PROVE  SpdbLine(st, ln) \in SpdbState(W)
<1>1. CASE ln.key = "name"
  <2> DEFINE R == SpdbPattern(W)
             p == SpdbFlushed(st)
             d == [SpdbStart EXCEPT !.name = ln.val, !.patterns = p]
  <2>1. SpdbLine(st, ln) = d
    BY <1>1, Zenon DEF SpdbLine
  <2>2. p \in Seq(R)
    BY SpdbFlushedIsString
  <2> HIDE DEF R, p
  <2>3. d \in [name : {Nothing} \cup W, regex : {Nothing} \cup Regexes,
               confidence : {Nothing} \cup W, patterns : Seq(R)]
    BY <2>2 DEF SpdbStart
  <2>. QED  BY <2>1, <2>3 DEF SpdbState, R
<1>2. CASE ln.key = "regex"
  <2>1. SpdbLine(st, ln) = [st EXCEPT ![ln.key] = ln.val]
    BY <1>2, Zenon DEF SpdbLine
  <2>. QED  BY <1>2, <2>1 DEF SpdbState
<1>3. CASE ln.key = "confidence"
  <2>1. SpdbLine(st, ln) = [st EXCEPT ![ln.key] = ln.val]
    BY <1>3, Zenon DEF SpdbLine
  <2>. QED  BY <1>3, <2>1 DEF SpdbState
<1>4. CASE ln.key \notin {"name", "regex", "confidence"}
  <2>1. SpdbLine(st, ln) = st
    BY <1>4, Zenon DEF SpdbLine
  <2>. QED  BY <2>1
<1>. QED  BY <1>1, <1>2, <1>3, <1>4

\* The equation whose solution the fold over the lines chooses.
SpdbBody(s, g) ==
  [T \in SUBSET DOMAIN s |->
     IF T = {} THEN SpdbStart ELSE SpdbLine(g[T \ {Max(T)}], s[Max(T)])]

\* That fold is the value on all indices of a chosen solution.
LEMMA SpdbStateOfFolds ==
  ASSUME NEW s
  PROVE  FoldLeft(SpdbLine, SpdbStart, s) = (CHOOSE g : g = SpdbBody(s, g))[DOMAIN s]
  BY Zenon DEF FoldLeft, MapThenFoldSet, SpdbBody

\* The parser's state after any patterns-db file.
LEMMA SpdbStateOf ==
  ASSUME NEW W, NEW s, IsSpdbFile(s), \A i \in DOMAIN s : s[i].val \in W
  PROVE  FoldLeft(SpdbLine, SpdbStart, s) \in SpdbState(W)
<1> DEFINE n    == Len(s)
           D    == 1..n
           V    == SpdbState(W)
           B(g) == SpdbBody(s, g)
           f    == CHOOSE g : g = B(g)
           grow == [p \in V \X D |-> SpdbLine(p[1], s[p[2]])]
<1>1. n \in Nat /\ DOMAIN s = D
  BY DEF IsSpdbFile, IsSeq
<1>2. \A v \in V, i \in D : grow[<<v, i>>] = SpdbLine(v, s[i])
  OBVIOUS
<1>3. SpdbStart \in V /\ grow \in [V \X D -> V]
  <2>1. SpdbStart \in V
    BY EmptyIsString DEF SpdbState, SpdbStart
  <2>2. \A v \in V, i \in D : SpdbLine(v, s[i]) \in V
    BY <1>1, SpdbLineIsState DEF IsSpdbFile
  <2> HIDE DEF V
  <2>. QED  BY <2>1, <2>2
<1> HIDE DEF grow, V
<1>4. PICK h \in [SUBSET D -> V] : \A T \in SUBSET D : FoldsTo(h, T, SpdbStart, grow)
  <2> HIDE DEF n
  <2>. QED  BY <1>1, <1>3, FoldExists
<1>5. ASSUME NEW T \in SUBSET D, T # {}
      PROVE  Max(T) \in D /\ T \ {Max(T)} \in SUBSET D
  <2> HIDE DEF n
  <2>. QED  BY <1>1, <1>5, WithoutGreatest
<1>6. h = B(h)
  <2>1. h = [T \in SUBSET D |-> h[T]]
    OBVIOUS
  <2>2. ASSUME NEW T \in SUBSET D
        PROVE  h[T] = IF T = {} THEN SpdbStart
                      ELSE SpdbLine(h[T \ {Max(T)}], s[Max(T)])
    <3> DEFINE m == Max(T)
               U == T \ {Max(T)}
    <3>1. T = {} => h[T] = SpdbStart
      BY <1>4 DEF FoldsTo
    <3>2. T # {} => m \in D /\ h[U] \in V /\ h[T] = grow[<<h[U], m>>]
      BY <1>4, <1>5 DEF FoldsTo
    <3> HIDE DEF m, U
    <3>3. T # {} => h[T] = SpdbLine(h[U], s[m])
      BY <1>2, <3>2
    <3>. QED  BY <3>1, <3>3 DEF m, U
  <2>. QED  BY <1>1, <2>1, <2>2 DEF SpdbBody
<1>7. f = B(f)
  <2> HIDE DEF B
  <2>. QED  BY <1>6, Zenon
<1>8. FoldLeft(SpdbLine, SpdbStart, s) = f[D]
  BY <1>1, SpdbStateOfFolds
<1> HIDE DEF f
<1>9. Folds(f, n, V, SpdbStart, grow)
  <2>1. ASSUME NEW T \in SUBSET D
        PROVE  f[T] = IF T = {} THEN SpdbStart
                      ELSE SpdbLine(f[T \ {Max(T)}], s[Max(T)])
    <3>1. f[T] = B(f)[T]
      BY <1>7, Zenon
    <3>. QED  BY <1>1, <3>1 DEF SpdbBody
  <2>2. ASSUME NEW T \in SUBSET D, T # {}, f[T \ {Max(T)}] \in V
        PROVE  f[T] = grow[<<f[T \ {Max(T)}], Max(T)>>]
    <3> DEFINE m == Max(T)
               v == f[T \ {Max(T)}]
    <3>1. m \in D /\ v \in V /\ f[T] = SpdbLine(v, s[m])
      BY <1>5, <2>1, <2>2
    <3> HIDE DEF m, v
    <3>2. f[T] = grow[<<v, m>>]
      BY <1>2, <3>1
    <3>. QED  BY <3>2 DEF m, v
  <2>3. {} \in SUBSET D
    OBVIOUS
  <2>. QED  BY <2>1, <2>2, <2>3 DEF Folds
<1>10. WalksTo(f, n, V, SpdbStart, grow)
  <2> HIDE DEF n, B
  <2>. QED  BY <1>1, <1>3, <1>9, FoldWalks
<1>11. f[1..n] \in V
  <2>1. n \in 0..n
    BY <1>1
  <2>. QED  BY <1>10, <2>1 DEF WalksTo
<1>. QED  BY <1>8, <1>11 DEF V

\* What a patterns-db file parses to is a sequence of patterns.
LEMMA SpdbParsedIsString ==
  ASSUME NEW W, NEW s, IsSpdbFile(s), \A i \in DOMAIN s : s[i].val \in W,
         parse_spdb_file(s) # Nothing
  PROVE  parse_spdb_file(s) \in Seq(SpdbPattern(W))
<1> DEFINE p == SpdbFlushed(FoldLeft(SpdbLine, SpdbStart, s))
<1>1. p \in Seq(SpdbPattern(W))
  BY SpdbStateOf, SpdbFlushedIsString
<1>2. parse_spdb_file(s) = IF p = << >> THEN Nothing ELSE p
  BY Zenon DEF parse_spdb_file
<1>. QED  BY <1>1, <1>2

\* A sequence that is defined element by element.
LEMMA MappedIsSeq ==
  ASSUME NEW A, NEW s \in Seq(A), NEW t, t = [i \in DOMAIN s |-> t[i]]
  PROVE  IsSeq(t) /\ DOMAIN t = DOMAIN s /\ Len(t) = Len(s) /\ t \in Seq(ToSet(t))
<1>1. Len(s) \in Nat /\ DOMAIN s = 1..Len(s)
  BY LenProperties
<1>2. t = [i \in 1..Len(s) |-> t[i]]
  BY <1>1
<1>3. Len(t) = Len(s) /\ DOMAIN t = 1..Len(s)
  BY <1>1, <1>2
<1>4. t \in [1..Len(s) -> ToSet(t)]
  BY <1>2, <1>3 DEF ToSet
<1> DEFINE B == ToSet(t)
           k == Len(s)
<1>5. t \in Seq(B)
  <2>1. k \in Nat /\ t \in [1..k -> B]
    BY <1>1, <1>4
  <2> HIDE DEF B, k
  <2>. QED  BY <2>1, FunctionIsString
<1>. QED  BY <1>1, <1>2, <1>3, <1>5 DEF IsSeq

\* A sequence is one over the set of its elements.
LEMMA SeqIsString ==
  ASSUME NEW s, IsSeq(s)
  PROVE  s \in Seq(ToSet(s)) /\ DOMAIN s = 1..Len(s) /\ Len(s) \in Nat
<1>1. Len(s) \in Nat /\ s = [i \in 1..Len(s) |-> s[i]]
  BY DEF IsSeq
<1>2. DOMAIN s = 1..Len(s) /\ s \in [1..Len(s) -> ToSet(s)]
  BY <1>1 DEF ToSet
<1> DEFINE B == ToSet(s)
           k == Len(s)
<1>3. s \in Seq(B)
  <2>1. k \in Nat /\ s \in [1..k -> B]
    BY <1>1, <1>2
  <2> HIDE DEF B, k
  <2>. QED  BY <2>1, FunctionIsString
<1>. QED  BY <1>1, <1>2, <1>3

\* What every source offers: rules of the schema, without an exclusion.
OfRules(s) == IsSeq(s) /\ \A i \in DOMAIN s : IsRule(s[i]) /\ s[i].exclude = Nothing

\* NormalizedRule of a vendor pattern is a rule of the schema.
LEMMA NormalizedIsRule ==
  ASSUME NEW id, NEW source, NEW row, NEW confidence, NEW regex \in Regexes,
         NEW keywords, NEW checksum
  PROVE  /\ IsRule(Normalized(id, source, row, confidence, regex, keywords, checksum))
         /\ Normalized(id, source, row, confidence, regex, keywords, checksum).exclude = Nothing
  BY EmptyIsString DEF Normalized, IsRule, RuleFields

\* What gitleaks offers is rules of the schema.
LEMMA GitleaksOfRules ==
  ASSUME NEW src, IsGitleaksFile(src.gitleaks)
  PROVE  OfRules(GitleaksRules(src))
<1> DEFINE A    == ToSet(src.gitleaks)
           S    == {r \in A : Included(src, <<r.id>>) /\ r.regex # Nothing}
           kept == Kept(src.gitleaks, S)
           t    == GitleaksRules(src)
<1>1. src.gitleaks \in Seq(A)
  BY SeqIsString DEF IsGitleaksFile
<1>2. kept \in Seq(A \cap S)
  <2> HIDE DEF A, S
  <2>. QED  BY <1>1, KeptIsString
<1>3. \A r \in A \cap S : r.regex \in Regexes
  BY DEF IsGitleaksFile, ToSet
<1>4. t = [i \in DOMAIN kept |->
             Normalized(<<"gl", kept[i].id>>, "gitleaks", gl_subcategory(kept[i].id),
                        infer_confidence_gitleaks(kept[i].regex), kept[i].regex,
                        kept[i].keywords, Nothing)]
  BY Zenon DEF GitleaksRules
<1> HIDE DEF kept, t, A, S
<1>5. t = [i \in DOMAIN kept |-> t[i]]
  BY <1>4
<1>6. IsSeq(t) /\ DOMAIN t = DOMAIN kept
  BY <1>2, <1>5, MappedIsSeq
<1>7. ASSUME NEW i \in DOMAIN t PROVE IsRule(t[i]) /\ t[i].exclude = Nothing
  <2>1. kept[i] \in A \cap S
    BY <1>2, <1>6, LenProperties, ElementOfSeq
  <2>2. kept[i].regex \in Regexes
    BY <1>3, <2>1
  <2>. QED  BY <1>4, <1>6, <2>2, NormalizedIsRule
<1>. QED  BY <1>6, <1>7 DEF OfRules, t

\* What the patterns-db offers is rules of the schema.
LEMMA SpdbOfRules ==
  ASSUME NEW src, IsSpdbFile(src.spdb), parse_spdb_file(src.spdb) # Nothing
  PROVE  OfRules(SpdbRules(src))
<1> DEFINE W    == {src.spdb[i].val : i \in DOMAIN src.spdb}
           A    == SpdbPattern(W)
           pats == parse_spdb_file(src.spdb)
           S    == {p \in ToSet(pats) : /\ p.name \in DOMAIN SpdbAllowList
                                        /\ Included(src, <<p.name>>)}
           kept == Kept(pats, S)
           t    == SpdbRules(src)
           Nth(i) == Cardinality({j \in 1..i : slugify(kept[j].name) = slugify(kept[i].name)})
           Id(i)  == <<"spdb", slugify(kept[i].name)>> \o
                        (IF Nth(i) = 1 THEN << >> ELSE <<ToString(Nth(i))>>)
<1>1. pats \in Seq(A)
  <2>1. \A i \in DOMAIN src.spdb : src.spdb[i].val \in W
    OBVIOUS
  <2> HIDE DEF W
  <2>. QED  BY <2>1, SpdbParsedIsString
<1>2. kept \in Seq(A \cap S)
  <2> HIDE DEF A, S, pats
  <2>. QED  BY <1>1, KeptIsString
<1>3. \A p \in A : p.regex \in Regexes
  BY DEF SpdbPattern
<1>4. t = [i \in DOMAIN kept |->
             LET sub == spdb_subcategory(kept[i].name) IN
             Normalized(Id(i), "secrets-patterns-db", <<"pii", sub>>, kept[i].confidence,
                        kept[i].regex, {}, IF sub = "cc" THEN "luhn" ELSE Nothing)]
  BY Zenon DEF SpdbRules
<1> HIDE DEF kept, t, A, S, Id
<1>5. t = [i \in DOMAIN kept |-> t[i]]
  BY <1>4
<1>6. IsSeq(t) /\ DOMAIN t = DOMAIN kept
  BY <1>2, <1>5, MappedIsSeq
<1>7. ASSUME NEW i \in DOMAIN t PROVE IsRule(t[i]) /\ t[i].exclude = Nothing
  <2>1. kept[i] \in A \cap S
    BY <1>2, <1>6, LenProperties, ElementOfSeq
  <2>2. kept[i].regex \in Regexes
    BY <1>3, <2>1
  <2> DEFINE sub == spdb_subcategory(kept[i].name)
  <2>3. t[i] = Normalized(Id(i), "secrets-patterns-db", <<"pii", sub>>, kept[i].confidence,
                          kept[i].regex, {}, IF sub = "cc" THEN "luhn" ELSE Nothing)
    BY <1>4, <1>6
  <2>. QED  BY <2>2, <2>3, NormalizedIsRule
<1>. QED  BY <1>6, <1>7 DEF OfRules, t

\* The Nosey Parker directory as its format has it.
NpFilesOK(src) == IsSeq(src.np) /\ \A f \in DOMAIN src.np : IsNpFile(src.np[f])

\* The rules that are left of the Nosey Parker files.
LEMMA NpIncludedIsString ==
  ASSUME NEW src, NpFilesOK(src)
  PROVE  \E W : NpIncluded(src) \in Seq(NpRule(W))
<1> DEFINE W     == {Nothing} \cup
                    UNION {{src.np[f][i].val : i \in DOMAIN src.np[f]} : f \in DOMAIN src.np}
           A     == NpRule(W)
           rules == FoldLeft(LAMBDA all, file : all \o parse_np_file(file), << >>, src.np)
           S     == {r \in ToSet(rules) : Included(src, r.id)}
<1>1. rules \in Seq(A)
  <2>1. Nothing \in W /\ \A f \in DOMAIN src.np : IsNpFile(src.np[f]) /\
            \A i \in DOMAIN src.np[f] : src.np[f][i].val \in W
    BY DEF NpFilesOK
  <2> HIDE DEF W
  <2>. QED  BY <2>1, NpRulesOf DEF NpFilesOK
<1>2. NpIncluded(src) = Kept(rules, S)
  BY Zenon DEF NpIncluded
<1>3. Kept(rules, S) \in Seq(A \cap S)
  <2> HIDE DEF A, S, rules
  <2>. QED  BY <1>1, KeptIsString
<1>4. Kept(rules, S) \in Seq(A)
  <2> DEFINE k == Kept(rules, S)
             B == A \cap S
  <2>1. k \in Seq(B) /\ B \subseteq A
    BY <1>3
  <2> HIDE DEF k, A, B
  <2>2. k \in Seq(A)
    BY <2>1, WiderString
  <2>. QED  BY <2>2 DEF k
<1> HIDE DEF rules, S, W
<1>. QED  BY <1>2, <1>4

\* What Nosey Parker offers is rules of the schema, one per kept rule and with its id.
LEMMA NpOfRules ==
  ASSUME NEW src, NpFilesOK(src)
  PROVE  /\ OfRules(NpRules(src))
         /\ DOMAIN NpRules(src) = DOMAIN NpIncluded(src)
         /\ \A i \in DOMAIN NpRules(src) : NpRules(src)[i].id = NpIncluded(src)[i].id
<1> DEFINE kept == NpIncluded(src)
           t    == NpRules(src)
<1>1. PICK W : kept \in Seq(NpRule(W))
  BY NpIncludedIsString
<1> DEFINE A == NpRule(W)
<1>2. kept \in Seq(A)
  BY <1>1
<1>3. \A p \in A : p.pattern \in Regexes
  BY DEF NpRule
<1>4. t = [i \in DOMAIN kept |->
             Normalized(kept[i].id, "nosey-parker", np_subcategory(kept[i].id),
                        infer_confidence_np(kept[i].categories), kept[i].pattern, {}, Nothing)]
  BY Zenon DEF NpRules
<1> HIDE DEF kept, t, A
<1>5. t = [i \in DOMAIN kept |-> t[i]]
  BY <1>4
<1>6. IsSeq(t) /\ DOMAIN t = DOMAIN kept
  BY <1>2, <1>5, MappedIsSeq
<1>7. ASSUME NEW i \in DOMAIN t
      PROVE IsRule(t[i]) /\ t[i].exclude = Nothing /\ t[i].id = kept[i].id
  <2>1. kept[i] \in A
    BY <1>2, <1>6, LenProperties, ElementOfSeq
  <2>2. kept[i].pattern \in Regexes
    BY <1>3, <2>1
  <2> DEFINE r == Normalized(kept[i].id, "nosey-parker", np_subcategory(kept[i].id),
                             infer_confidence_np(kept[i].categories), kept[i].pattern, {}, Nothing)
  <2>3. t[i] = r
    BY <1>4, <1>6
  <2>4. r.id = kept[i].id
    BY DEF Normalized
  <2>. QED  BY <2>2, <2>3, <2>4, NormalizedIsRule
<1>. QED  BY <1>6, <1>7 DEF OfRules, t, kept

--------------------------------------------------------------------------------
\* What the line parser of Nosey Parker files reads, compared with what is written there.

\* The equation whose solution the fold over the lines of a block chooses.
BlockBody(s, g) ==
  [T \in SUBSET DOMAIN s |->
     IF T = {} THEN << >> ELSE g[T \ {Max(T)}] \o s[Max(T)].val]

\* That fold is the value on all indices of a chosen solution.
LEMMA BlockFolds ==
  ASSUME NEW s
  PROVE  FoldLeft(LAMBDA p, ln : p \o ln.val, << >>, s) =
            (CHOOSE g : g = BlockBody(s, g))[DOMAIN s]
  BY Zenon DEF FoldLeft, MapThenFoldSet, BlockBody

\* The pattern that the lines s of a block spell, line by line.
Joins(g, s) ==
  /\ \A k \in 0..Len(s) : g[k] \in Regexes
  /\ g[0] = << >>
  /\ \A k \in 1..Len(s) : g[k] = g[k - 1] \o s[k].val

\* The fold over those lines is the last of such patterns.
LEMMA BlockJoins ==
  ASSUME NEW s, IsSeq(s), \A k \in DOMAIN s : s[k].val \in Regexes
  PROVE  \E g : /\ Joins(g, s)
                /\ FoldLeft(LAMBDA p, ln : p \o ln.val, << >>, s) = g[Len(s)]
<1> DEFINE n    == Len(s)
           D    == 1..n
           V    == Regexes
           B(g) == BlockBody(s, g)
           f    == CHOOSE g : g = B(g)
           grow == [p \in V \X D |-> p[1] \o s[p[2]].val]
<1>1. n \in Nat /\ DOMAIN s = D
  BY DEF IsSeq
<1>2. \A v \in V, i \in D : grow[<<v, i>>] = v \o s[i].val
  OBVIOUS
<1>3. << >> \in V /\ grow \in [V \X D -> V]
  <2>1. \A v \in Regexes, i \in D : v \o s[i].val \in Regexes
    BY <1>1 DEF Regexes
  <2>2. << >> \in Regexes
    BY EmptyIsRegex
  <2>. QED  BY <2>1, <2>2
<1> HIDE DEF grow, V
<1>4. PICK h \in [SUBSET D -> V] : \A T \in SUBSET D : FoldsTo(h, T, << >>, grow)
  <2> HIDE DEF n
  <2>. QED  BY <1>1, <1>3, FoldExists
<1>5. ASSUME NEW T \in SUBSET D, T # {}
      PROVE  Max(T) \in D /\ T \ {Max(T)} \in SUBSET D
  <2> HIDE DEF n
  <2>. QED  BY <1>1, <1>5, WithoutGreatest
<1>6. h = B(h)
  <2>1. h = [T \in SUBSET D |-> h[T]]
    OBVIOUS
  <2>2. ASSUME NEW T \in SUBSET D
        PROVE  h[T] = IF T = {} THEN << >>
                      ELSE h[T \ {Max(T)}] \o s[Max(T)].val
    <3> DEFINE m == Max(T)
               U == T \ {Max(T)}
    <3>1. T = {} => h[T] = << >>
      BY <1>4 DEF FoldsTo
    <3>2. T # {} => m \in D /\ h[U] \in V /\ h[T] = grow[<<h[U], m>>]
      BY <1>4, <1>5 DEF FoldsTo
    <3> HIDE DEF m, U
    <3>3. T # {} => h[T] = h[U] \o s[m].val
      BY <1>2, <3>2
    <3>. QED  BY <3>1, <3>3 DEF m, U
  <2>. QED  BY <1>1, <2>1, <2>2 DEF BlockBody
<1>7. f = B(f)
  <2> HIDE DEF B
  <2>. QED  BY <1>6, Zenon
<1>8. FoldLeft(LAMBDA p, ln : p \o ln.val, << >>, s) = f[D]
  BY <1>1, BlockFolds
<1> HIDE DEF f
<1>9. Folds(f, n, V, << >>, grow)
  <2>1. ASSUME NEW T \in SUBSET D
        PROVE  f[T] = IF T = {} THEN << >>
                      ELSE f[T \ {Max(T)}] \o s[Max(T)].val
    <3>1. f[T] = B(f)[T]
      BY <1>7, Zenon
    <3>. QED  BY <1>1, <3>1 DEF BlockBody
  <2>2. ASSUME NEW T \in SUBSET D, T # {}, f[T \ {Max(T)}] \in V
        PROVE  f[T] = grow[<<f[T \ {Max(T)}], Max(T)>>]
    <3> DEFINE m == Max(T)
               v == f[T \ {Max(T)}]
    <3>1. m \in D /\ v \in V /\ f[T] = v \o s[m].val
      BY <1>5, <2>1, <2>2
    <3> HIDE DEF m, v
    <3>2. f[T] = grow[<<v, m>>]
      BY <1>2, <3>1
    <3>. QED  BY <3>2 DEF m, v
  <2>3. {} \in SUBSET D
    OBVIOUS
  <2>. QED  BY <2>1, <2>2, <2>3 DEF Folds
<1>10. WalksTo(f, n, V, << >>, grow)
  <2> HIDE DEF n, B
  <2>. QED  BY <1>1, <1>3, <1>9, FoldWalks
<1> DEFINE g == [k \in 0..n |-> f[1..k]]
<1>11. \A k \in 0..n : g[k] = f[1..k]
  OBVIOUS
<1> HIDE DEF g
<1>12. \A k \in 0..n : g[k] \in V
  BY <1>10, <1>11 DEF WalksTo
<1>13. g[0] = << >> /\ g[n] = f[D]
  <2>1. 0 \in 0..n /\ n \in 0..n
    BY <1>1
  <2>. QED  BY <1>10, <1>11, <2>1 DEF WalksTo
<1>14. ASSUME NEW k \in 1..n PROVE g[k] = g[k - 1] \o s[k].val
  <2> DEFINE j == k - 1
  <2>1. j \in 0..n /\ k \in 0..n /\ k \in D
    BY <1>1
  <2>2. f[1..k] = grow[<<f[1..j], k>>] /\ f[1..j] \in V
    BY <1>10, <2>1 DEF WalksTo
  <2>3. g[j] = f[1..j] /\ g[k] = f[1..k]
    BY <1>11, <2>1
  <2> HIDE DEF j
  <2>4. grow[<<f[1..j], k>>] = f[1..j] \o s[k].val
    BY <1>2, <2>1, <2>2
  <2>. QED  BY <2>2, <2>3, <2>4 DEF j
<1>. QED  BY <1>8, <1>12, <1>13, <1>14 DEF Joins, V

\* The block below a line is a run of lines.
LEMMA BodyIsRun ==
  ASSUME NEW s, NEW n \in Nat, Len(s) = n, NEW b \in 1..n
  PROVE  \E e \in b..n : /\ Body(s, b) = b + 1..e
                         /\ Cardinality(Body(s, b)) = e - b
                         /\ \A j \in b + 1..e : s[j].deep
                         /\ e < n => ~s[e + 1].deep
<1> DEFINE Out == {j \in b + 1..n + 1 : j = n + 1 \/ ~s[j].deep}
<1>1. PICK m \in Out : \A j \in Out : m <= j
  <2>1. n + 1 \in Out /\ Out \in SUBSET Nat
    OBVIOUS
  <2> HIDE DEF Out
  <2>. QED  BY <2>1, LeastNumber, Zenon
<1> DEFINE e == m - 1
<1>2. e \in b..n /\ (e < n => ~s[e + 1].deep) /\ e \in Nat /\ b \in Nat /\ m = e + 1
  BY <1>1
<1>3. ASSUME NEW j \in b + 1..e PROVE s[j].deep
  BY <1>1, <1>3
<1>4. Body(s, b) = b + 1..e
  <2> HIDE DEF e, Out
  <2>1. ASSUME NEW j \in b + 1..e PROVE j \in Body(s, b)
    BY <1>2, <1>3 DEF Body
  <2>2. ASSUME NEW j \in Body(s, b) PROVE j \in b + 1..e
    <3>1. j \in b + 1..n /\ \A k \in b + 1..j : s[k].deep
      BY DEF Body
    <3>2. SUFFICES ASSUME j > e PROVE FALSE
      BY <1>2, <3>1
    <3>3. e + 1 \in b + 1..j /\ e < n
      BY <1>2, <3>1, <3>2
    <3>. QED  BY <1>2, <3>1, <3>3
  <2>. QED  BY <2>1, <2>2
<1> HIDE DEF e, Out
<1>5. Cardinality(b + 1..e) = e - b
  <2>1. Cardinality(b + 1..e) = IF b + 1 > e THEN 0 ELSE e - (b + 1) + 1
    BY <1>2, FS_Interval
  <2>. QED  BY <1>2, <2>1
<1>. QED  BY <1>2, <1>3, <1>4, <1>5

\* Line e is the last of the block below line b, and q has the pattern after each of
\* its lines.
IsBlock(s, b, e, q) ==
  /\ e \in b..Len(s)
  /\ e < Len(s) => ~s[e + 1].deep
  /\ e + 1 \notin Body(s, b)
  /\ \A j \in b + 1..e : j \in Body(s, b)
  /\ q[b] = << >>
  /\ \A j \in b + 1..e : q[j] = q[j - 1] \o s[j].val
  /\ PatternAt(s, b) = q[e]

\* Every line that opens a block has one.
LEMMA BlockExists ==
  ASSUME NEW s, IsNpFile(s), NEW b \in 1..Len(s), s[b].val = Block,
         \A j \in Body(s, b) : s[j].key # "item"
  PROVE  \E e, q : IsBlock(s, b, e, q)
<1> DEFINE n == Len(s)
<1>1. n \in Nat /\ DOMAIN s = 1..n /\ s \in Seq(ToSet(s))
  BY SeqIsString DEF IsNpFile
<1>2. PICK e \in b..n : /\ Body(s, b) = b + 1..e
                        /\ Cardinality(Body(s, b)) = e - b
                        /\ \A j \in b + 1..e : s[j].deep
                        /\ e < n => ~s[e + 1].deep
  <2> HIDE DEF n
  <2>1. Len(s) = n /\ b \in 1..n
    BY DEF n
  <2>. QED  BY <1>1, <2>1, BodyIsRun
<1> DEFINE t == SubSeq(s, b + 1, e)
           m == e - b
<1>3. m \in Nat /\ b \in Nat /\ b \in 1..n /\ b + 1 >= 1 /\ e <= n /\ e \in Nat /\ m = e - b
  BY <1>1, <1>2
<1>4. Len(t) = m /\ DOMAIN t = 1..m
  BY <1>1, <1>3
<1>5. \A i \in 1..m : t[i] = s[b + i]
  BY <1>1, <1>3
<1>12. t \in Seq(ToSet(s))
  BY <1>1, <1>3
<1> HIDE DEF t, n, m
<1>6. IsSeq(t)
  <2>1. t = [i \in 1..m |-> t[i]]
    <3> DEFINE A == ToSet(s)
    <3>1. t \in Seq(A)
      BY <1>12
    <3> HIDE DEF A
    <3>2. t \in [1..Len(t) -> A]
      BY <3>1, LenProperties
    <3>. QED  BY <1>4, <3>2
  <2>. QED  BY <1>3, <1>4, <2>1 DEF IsSeq
<1>7. \A i \in DOMAIN t : t[i].val \in Regexes
  <2>1. ASSUME NEW i \in 1..m PROVE s[b + i].val \in Regexes
    <3>1. b + i \in b + 1..e /\ b + i \in 1..n
      <4>1. i \in Nat /\ 1 <= i /\ i <= m
        BY <1>3
      <4>2. i <= e - b
        BY <1>3, <4>1
      <4>. QED  BY <1>1, <1>3, <4>1, <4>2
    <3>2. s[b + i].deep /\ s[b + i].key # "item"
      BY <1>2, <3>1
    <3>. QED  BY <1>1, <3>1, <3>2 DEF IsNpFile
  <2>. QED  BY <1>4, <1>5, <2>1
<1>8. PICK g : Joins(g, t) /\ FoldLeft(LAMBDA p, ln : p \o ln.val, << >>, t) = g[Len(t)]
  BY <1>6, <1>7, BlockJoins
<1> DEFINE q == [j \in b..e |-> g[j - b]]
<1>9. q[b] = << >> /\ q[e] = g[m]
  <2>1. b - b = 0 /\ b \in b..e /\ e \in b..e
    BY <1>2, <1>3
  <2>2. q[b] = g[0] /\ q[e] = g[m]
    BY <1>3, <2>1
  <2>. QED  BY <1>8, <2>2 DEF Joins
<1>10. ASSUME NEW j \in b + 1..e PROVE q[j] = q[j - 1] \o s[j].val
  <2> DEFINE i == j - b
  <2>1. i \in 1..m /\ j - 1 \in b..e /\ j \in b..e /\ i - 1 = (j - 1) - b /\ b + i = j
    BY <1>3
  <2>2. q[j] = g[i] /\ q[j - 1] = g[i - 1]
    BY <2>1
  <2> HIDE DEF i, q
  <2>3. g[i] = g[i - 1] \o t[i].val /\ t[i] = s[b + i]
    BY <1>4, <1>5, <1>8, <2>1 DEF Joins
  <2>. QED  BY <2>1, <2>2, <2>3
<1>11. PatternAt(s, b) = q[e]
  <2>1. b + Cardinality(Body(s, b)) = e
    BY <1>2, <1>3
  <2>2. PatternAt(s, b) = FoldLeft(LAMBDA p, ln : p \o ln.val, << >>, t)
    <3> DEFINE c == b + Cardinality(Body(s, b))
    <3>1. PatternAt(s, b) = FoldLeft(LAMBDA p, ln : p \o ln.val, << >>, SubSeq(s, b + 1, c))
      BY Zenon DEF PatternAt
    <3>2. c = e
      BY <2>1
    <3> HIDE DEF c
    <3>. QED  BY <3>1, <3>2, Zenon DEF t
  <2>. QED  BY <1>4, <1>8, <1>9, <2>2
<1> HIDE DEF q
<1>13. /\ e \in b..Len(s) /\ (e < Len(s) => ~s[e + 1].deep) /\ e + 1 \notin Body(s, b)
       /\ \A j \in b + 1..e : j \in Body(s, b)
  BY <1>2, <1>3 DEF n
<1>. QED  BY <1>9, <1>10, <1>11, <1>13 DEF IsBlock

\* After line k the pattern that line b gives reads p, and the field is the pattern's
\* block if and only if the block below b may go on.
Shows(s, b, k, p, field) ==
  /\ s[b].val # Block => field # "PatternBlock" /\ p = s[b].val
  /\ s[b].val = Block =>
       \E e, q : /\ IsBlock(s, b, e, q)
                 /\ k <= e => field = "PatternBlock" /\ p = q[k]
                 /\ k > e  => field # "PatternBlock" /\ p = q[e]

\* A pattern when its own line was read.
LEMMA ShowsFirst ==
  ASSUME NEW s, IsNpFile(s), NEW b \in 1..Len(s),
         s[b].val = Block => \A j \in Body(s, b) : s[j].key # "item",
         NEW field, field = "PatternBlock" <=> s[b].val = Block
  PROVE  Shows(s, b, b, IF s[b].val = Block THEN << >> ELSE s[b].val, field)
<1>1. CASE s[b].val # Block
  BY <1>1 DEF Shows
<1>2. CASE s[b].val = Block
  <2>1. PICK e, q : IsBlock(s, b, e, q)
    BY <1>2, BlockExists
  <2>2. e \in b..Len(s) /\ q[b] = << >>
    BY <2>1 DEF IsBlock
  <2>3. b <= e /\ ~(b > e)
    BY <2>2
  <2>. QED  BY <1>2, <2>1, <2>2, <2>3 DEF Shows
<1>. QED  BY <1>1, <1>2

\* A line of an open block adds to its pattern.
LEMMA ShowsMore ==
  ASSUME NEW s, NEW n \in Nat, Len(s) = n, NEW k \in Nat, NEW b \in 1..k, k < n, NEW p, NEW field,
         Shows(s, b, k, p, field), field = "PatternBlock", s[k + 1].deep
  PROVE  /\ Shows(s, b, k + 1, p \o s[k + 1].val, field)
         /\ s[b].val = Block /\ k + 1 \in Body(s, b)
<1>1. s[b].val = Block
  BY DEF Shows
<1>2. PICK e, q : /\ IsBlock(s, b, e, q)
                  /\ k <= e => field = "PatternBlock" /\ p = q[k]
                  /\ k > e  => field # "PatternBlock" /\ p = q[e]
  BY <1>1 DEF Shows
<1>3. /\ e \in b..n /\ (e < n => ~s[e + 1].deep)
      /\ \A j \in b + 1..e : q[j] = q[j - 1] \o s[j].val /\ j \in Body(s, b)
  BY <1>2 DEF IsBlock
<1>4. k <= e /\ p = q[k]
  BY <1>2, <1>3
<1>5. k # e
  BY <1>3
<1> DEFINE j == k + 1
<1>6. j <= e /\ ~(j > e) /\ j \in b + 1..e /\ j - 1 = k
  BY <1>3, <1>4, <1>5
<1> HIDE DEF j
<1>7. q[j] = p \o s[j].val
  BY <1>3, <1>4, <1>6
<1>8. Shows(s, b, j, p \o s[j].val, field)
  BY <1>1, <1>2, <1>6, <1>7 DEF Shows
<1>. QED  BY <1>1, <1>3, <1>6, <1>8 DEF j

\* Any other line leaves it as it is.
LEMMA ShowsSame ==
  ASSUME NEW s, NEW n \in Nat, Len(s) = n, NEW k \in Nat, NEW b \in 1..k, k < n, NEW p, NEW field,
         Shows(s, b, k, p, field), field = "PatternBlock" => ~s[k + 1].deep,
         NEW field2, field2 # "PatternBlock"
  PROVE  Shows(s, b, k + 1, p, field2)
<1>1. CASE s[b].val # Block
  BY <1>1 DEF Shows
<1>2. CASE s[b].val = Block
  <2>2. PICK e, q : /\ IsBlock(s, b, e, q)
                    /\ k <= e => field = "PatternBlock" /\ p = q[k]
                    /\ k > e  => field # "PatternBlock" /\ p = q[e]
    BY <1>2 DEF Shows
  <2>3. e \in b..n /\ \A j \in b + 1..e : j \in Body(s, b)
    BY <2>2 DEF IsBlock
  <2> DEFINE j == k + 1
  <2>4. j > e
    <3>1. SUFFICES ASSUME ~(j > e) PROVE FALSE
      OBVIOUS
    <3>2. k <= e /\ j \in b + 1..e /\ j \in b + 1..j
      BY <2>3, <3>1
    <3>3. j \in Body(s, b)
      <4> HIDE DEF j
      <4>. QED  BY <2>3, <3>2
    <3> HIDE DEF j
    <3>4. s[j].deep
      BY <3>2, <3>3 DEF Body
    <3>. QED  BY <2>2, <3>2, <3>4 DEF j
  <2>5. p = q[e]
    <3>1. CASE k > e
      BY <2>2, <3>1
    <3>2. CASE ~(k > e)
      <4>1. k <= e /\ k = e
        BY <2>3, <2>4, <3>2
      <4>. QED  BY <2>2, <4>1
    <3>. QED  BY <3>1, <3>2
  <2>6. ~(j <= e)
    BY <2>3, <2>4
  <2> HIDE DEF j
  <2>7. Shows(s, b, j, p, field2)
    BY <1>2, <2>2, <2>4, <2>5, <2>6 DEF Shows
  <2>. QED  BY <2>7 DEF j
<1>. QED  BY <1>1, <1>2

\* At the end of the file, or before a line that starts a rule, the pattern is whole.
LEMMA ShowsAll ==
  ASSUME NEW s, NEW n \in Nat, Len(s) = n, NEW k \in Nat, NEW b \in 1..k, k <= n, NEW p, NEW field,
         Shows(s, b, k, p, field),
         k = n \/ k + 1 \notin Body(s, b)
  PROVE  p = PatternAt(s, b)
<1>1. CASE s[b].val # Block
  <2>1. PatternAt(s, b) = s[b].val
    BY <1>1, Zenon DEF PatternAt
  <2>. QED  BY <1>1, <2>1 DEF Shows
<1>2. CASE s[b].val = Block
  <2>2. PICK e, q : /\ IsBlock(s, b, e, q)
                    /\ k <= e => field = "PatternBlock" /\ p = q[k]
                    /\ k > e  => field # "PatternBlock" /\ p = q[e]
    BY <1>2 DEF Shows
  <2>3. e \in b..n /\ (\A j \in b + 1..e : j \in Body(s, b)) /\ PatternAt(s, b) = q[e]
    BY <2>2 DEF IsBlock
  <2>4. k >= e
    <3>1. SUFFICES ASSUME k < e PROVE FALSE
      BY <2>3
    <3>2. k + 1 \in b + 1..e /\ k # n
      BY <2>3, <3>1
    <3>. QED  BY <2>3, <3>2
  <2>5. p = q[e]
    <3>1. CASE k > e
      BY <2>2, <3>1
    <3>2. CASE ~(k > e)
      <4>1. k <= e /\ k = e
        BY <2>3, <2>4, <3>2
      <4>. QED  BY <2>2, <4>1
    <3>. QED  BY <3>1, <3>2
  <2>. QED  BY <2>3, <2>5
<1>. QED  BY <1>1, <1>2

\* What a line inside a rule does to the id and the pattern of the rule.
Tells(st, ln, u) ==
  /\ u.rules = st.rules
  /\ u.current.id = IF ln.key = "id" THEN ln.val ELSE st.current.id
  /\ u.current.pattern = IF ln.key # "pattern" THEN st.current.pattern
                         ELSE IF ln.val = Block THEN << >> ELSE ln.val
  /\ u.field = "PatternBlock" <=> ln.key = "pattern" /\ ln.val = Block

\* A line inside a rule does that, if no block is open.
LEMMA KeyLineTells ==
  ASSUME NEW W, NEW st \in NpState(W), st.current # Nothing, st.field # "PatternBlock",
         NEW ln, ln.val \in W, ln.key # "item",
         ln.key = "pattern" /\ ln.val # Block => ln.val \in Regexes
  PROVE  Tells(st, ln, NpKeyLine(st, ln)) /\ NpKeyLine(st, ln).current \in NpRule(W)
<1> DEFINE c == st.current
           R == NpRule(W)
           v == ln.val
<1>1. /\ st = [field |-> st.field, current |-> c, rules |-> st.rules]
      /\ c \in R
  BY DEF NpState
<1>2. c = [id |-> c.id, name |-> c.name, pattern |-> c.pattern, categories |-> c.categories,
           examples |-> c.examples, negative_examples |-> c.negative_examples]
  BY <1>1 DEF NpRule
<1>0. /\ [c EXCEPT !.id = v] \in R /\ [c EXCEPT !.name = v] \in R
      /\ [c EXCEPT !.pattern = << >>] \in R
      /\ ln.key = "pattern" /\ v # Block => [c EXCEPT !.pattern = v] \in R
      /\ \A k \in ListKeys : [c EXCEPT ![k] = @ \cup {v}] \in R
  BY <1>1, EmptyIsRegex DEF NpRule, ListKeys
<1> HIDE DEF R
<1>3. CASE ln.key \in {"id", "name"}
  <2>1. NpKeyLine(st, ln) = [st EXCEPT !.current[ln.key] = ln.val, !.field = "None"]
    <3>1. ln.key = "id" =>
            NpKeyLine(st, ln) = [st EXCEPT !.current[ln.key] = ln.val, !.field = "None"]
      BY Zenon DEF NpKeyLine, ListKeys
    <3>2. ln.key = "name" =>
            NpKeyLine(st, ln) = [st EXCEPT !.current[ln.key] = ln.val, !.field = "None"]
      BY Zenon DEF NpKeyLine, ListKeys
    <3>. QED  BY <1>3, <3>1, <3>2
  <2>2. ln.key = "id" => NpKeyLine(st, ln).current = [c EXCEPT !.id = v]
    BY <1>1, <2>1
  <2>3. ln.key = "name" => NpKeyLine(st, ln).current = [c EXCEPT !.name = v]
    BY <1>1, <2>1
  <2>4. NpKeyLine(st, ln).current \in R
    BY <1>0, <1>3, <2>2, <2>3
  <2>. QED  BY <1>1, <1>2, <1>3, <2>1, <2>4 DEF Tells, R
<1>4. CASE ln.key = "pattern" /\ ln.val = Block
  <2>1. NpKeyLine(st, ln) = [st EXCEPT !.current.pattern = << >>, !.field = "PatternBlock"]
    BY <1>4, Zenon DEF NpKeyLine, ListKeys
  <2>2. NpKeyLine(st, ln).current = [c EXCEPT !.pattern = << >>]
    BY <1>1, <2>1
  <2>3. NpKeyLine(st, ln).current \in R
    BY <1>0, <2>2
  <2>. QED  BY <1>1, <1>2, <1>4, <2>1, <2>3 DEF Tells, R
<1>5. CASE ln.key = "pattern" /\ ln.val # Block
  <2>1. NpKeyLine(st, ln) = [st EXCEPT !.current.pattern = ln.val, !.field = "None"]
    BY <1>5, Zenon DEF NpKeyLine, ListKeys
  <2>2. NpKeyLine(st, ln).current = [c EXCEPT !.pattern = v]
    BY <1>1, <2>1
  <2>3. NpKeyLine(st, ln).current \in R
    BY <1>0, <1>5, <2>2
  <2>. QED  BY <1>1, <1>2, <1>5, <2>1, <2>3 DEF Tells, R
<1>6. CASE ln.key \in ListKeys
  <2>1. NpKeyLine(st, ln) = [st EXCEPT !.field = ln.key]
    <3>1. ln.key = "categories" => NpKeyLine(st, ln) = [st EXCEPT !.field = ln.key]
      BY Zenon DEF NpKeyLine, ListKeys
    <3>2. ln.key = "examples" => NpKeyLine(st, ln) = [st EXCEPT !.field = ln.key]
      BY Zenon DEF NpKeyLine, ListKeys
    <3>3. ln.key = "negative_examples" => NpKeyLine(st, ln) = [st EXCEPT !.field = ln.key]
      BY Zenon DEF NpKeyLine, ListKeys
    <3>. QED  BY <1>6, <3>1, <3>2, <3>3 DEF ListKeys
  <2>2. ln.key \notin {"id", "pattern", "PatternBlock"}
    BY <1>6 DEF ListKeys
  <2>. QED  BY <1>1, <2>1, <2>2 DEF Tells, R
<1>7. CASE ln.key = "references"
  <2>1. NpKeyLine(st, ln) = [st EXCEPT !.field = "Skip"]
    BY <1>7, Zenon DEF NpKeyLine, ListKeys
  <2>. QED  BY <1>1, <1>7, <2>1 DEF Tells, R
<1>8. CASE ln.key = "element"
  <2>1. NpKeyLine(st, ln) = IF st.field \in ListKeys /\ ln.val # Block
                            THEN [st EXCEPT !.current[st.field] = @ \cup {ln.val}]
                            ELSE st
    BY <1>8, Zenon DEF NpKeyLine, ListKeys
  <2>2. CASE st.field \in ListKeys /\ ln.val # Block
    <3> DEFINE k == st.field
               d == [c EXCEPT ![k] = @ \cup {v}]
               u == [st EXCEPT !.current = d]
    <3>1. k \notin {"id", "pattern", "PatternBlock"}
      BY <2>2 DEF ListKeys
    <3>2. NpKeyLine(st, ln) = u
      BY <2>1, <2>2
    <3>3. u.rules = st.rules /\ u.field = k /\ u.current = d
      BY <1>1
    <3>4. d \in R
      BY <1>0, <2>2
    <3> HIDE DEF u
    <3>5. u.current.id = c.id /\ u.current.pattern = c.pattern
      BY <1>2, <3>1, <3>3
    <3> HIDE DEF d
    <3>. QED  BY <1>8, <3>1, <3>2, <3>3, <3>4, <3>5 DEF Tells, R
  <2>3. CASE ~(st.field \in ListKeys /\ ln.val # Block)
    BY <1>1, <1>8, <2>1, <2>3 DEF Tells, R
  <2>. QED  BY <2>2, <2>3
<1>9. CASE ln.key = "colon"
  <2>1. NpKeyLine(st, ln) = IF st.field \in ListKeys \cup {"Skip"}
                            THEN [st EXCEPT !.field = "None"] ELSE st
    BY <1>9, Zenon DEF NpKeyLine, ListKeys
  <2>. QED  BY <1>1, <1>9, <2>1 DEF Tells, R
<1>10. CASE ln.key \notin {"id", "name", "pattern", "references", "element", "colon"} \cup ListKeys
  <2>1. NpKeyLine(st, ln) = st
    BY <1>10, Zenon DEF NpKeyLine
  <2>. QED  BY <1>1, <1>10, <2>1 DEF Tells, R
<1>. QED  BY <1>3, <1>4, <1>5, <1>6, <1>7, <1>8, <1>9, <1>10

\* The lines up to the next one that looks like the start of a rule.
Span(s, i) == {e \in i + 1..Len(s) : \A j \in i + 1..e : s[j].key # "item"}

\* What the parser relies on: between two lines that look like starts of rules there is
\* one id and one pattern at most, and none in a block.
Readable(s) ==
  /\ IsNpFile(s)
  /\ \A i \in 1..Len(s) : s[i].key = "item" =>
        \A c, d \in Span(s, i) :
            s[c].key = s[d].key /\ s[c].key \in {"id", "pattern"} => c = d
  /\ \A b \in 1..Len(s) : s[b].key = "pattern" /\ s[b].val = Block =>
        \A e \in Body(s, b) : s[e].key \notin {"item", "id", "pattern"}

\* Line i is the last up to line k that looks like the start of a rule.
LastStart(s, i, k) ==
  i \in 1..k /\ s[i].key = "item" /\ \A j \in i + 1..k : s[j].key # "item"

\* The parser has of a rule what its lines up to k say.
InRule(s, i, k, st) ==
  /\ st.current # Nothing
  /\ \A c \in i + 1..k : s[c].key = "id" => st.current.id = s[c].val
  /\ (\A c \in i + 1..k : s[c].key # "id") => st.current.id = Nothing
  /\ \A c \in i + 1..k : s[c].key = "pattern" =>
        Shows(s, c, k, st.current.pattern, st.field)
  /\ (\A c \in i + 1..k : s[c].key # "pattern") =>
        st.current.pattern = << >> /\ st.field # "PatternBlock"

\* Any line but the start of another rule.
LEMMA LineInRule ==
  ASSUME NEW s, Readable(s), NEW n \in Nat, Len(s) = n, NEW k \in Nat, k < n,
         NEW i, LastStart(s, i, k), s[k + 1].key # "item",
         NEW W, \A j \in DOMAIN s : s[j].val \in W, Nothing \notin NpRule(W),
         NEW st \in NpState(W), InRule(s, i, k, st)
  PROVE  /\ InRule(s, i, k + 1, NpLine(st, s[k + 1]))
         /\ NpLine(st, s[k + 1]).rules = st.rules
<1> DEFINE m  == k + 1
           ln == s[k + 1]
           u  == NpLine(st, s[k + 1])
           c0 == st.current
<1>1. /\ m \in 1..n /\ m \in Nat /\ m = k + 1 /\ ln = s[m] /\ i \in 1..k /\ i \in Nat /\ i \in 1..n
      /\ i + 1..m = (i + 1..k) \cup {m} /\ DOMAIN s = 1..n
  BY DEF LastStart, Readable, IsNpFile, IsSeq
<1>2. \A j \in i + 1..m : s[j].key # "item"
  BY <1>1 DEF LastStart
<1>3. \A c \in i + 1..m : c \in Span(s, i)
  <2> HIDE DEF m
  <2>. QED  BY <1>1, <1>2 DEF Span
<1>4. \A c, d \in i + 1..m : s[c].key = s[d].key /\ s[c].key \in {"id", "pattern"} => c = d
  <2>1. s[i].key = "item"
    BY DEF LastStart
  <2> HIDE DEF m
  <2>. QED  BY <1>1, <1>3, <2>1 DEF Readable
<1>5. ln.val \in W /\ (ln.key = "pattern" /\ ln.val # Block => ln.val \in Regexes)
  BY <1>1 DEF Readable, IsNpFile
<1>6. /\ st = [field |-> st.field, current |-> c0, rules |-> st.rules]
      /\ c0 \in NpRule(W) /\ c0 # Nothing
  BY DEF NpState, InRule
<1> HIDE DEF m, ln
<1>7. CASE st.field = "PatternBlock" /\ ln.deep
  <2>1. u = [st EXCEPT !.current.pattern = @ \o ln.val]
    BY <1>1, <1>2, <1>6, <1>7, Zenon DEF NpLine, ln, m
  <2>2. u.field = st.field /\ u.rules = st.rules
        /\ u.current = [c0 EXCEPT !.pattern = @ \o ln.val]
    BY <1>6, <2>1
  <2> HIDE DEF u
  <2>3. PICK b \in i + 1..k : s[b].key = "pattern"
    BY <1>7 DEF InRule
  <2>4. ASSUME NEW c \in i + 1..k, s[c].key = "pattern"
        PROVE  /\ Shows(s, c, m, c0.pattern \o ln.val, st.field)
               /\ s[c].val = Block /\ m \in Body(s, c)
    <3>1. Shows(s, c, k, c0.pattern, st.field)
      BY <2>4 DEF InRule
    <3>2. c \in 1..k /\ s[m].deep
      BY <1>1, <1>7
    <3>. QED  BY <1>1, <1>7, <3>1, <3>2, ShowsMore DEF m
  <2>5. ln.key \notin {"item", "id", "pattern"}
    <3>1. b \in 1..n /\ s[b].val = Block /\ m \in Body(s, b)
      BY <1>1, <2>3, <2>4
    <3>. QED  BY <1>1, <2>3, <3>1 DEF Readable
  <2>6. c0.pattern \o ln.val \in Regexes
    <3>1. c0.pattern \in Regexes
      BY <1>6 DEF NpRule
    <3>2. ln.val \in Regexes
      BY <1>1, <1>7, <2>5 DEF Readable, IsNpFile
    <3>. QED  BY <3>1, <3>2 DEF Regexes
  <2>7. /\ u.current \in NpRule(W) /\ u.current.id = c0.id
        /\ u.current.pattern = c0.pattern \o ln.val
    BY <1>6, <2>2, <2>6 DEF NpRule
  <2>8. /\ \A c \in i + 1..m : s[c].key = "id" => u.current.id = s[c].val
        /\ (\A c \in i + 1..m : s[c].key # "id") => u.current.id = Nothing
    BY <1>1, <2>5, <2>7 DEF InRule
  <2>9. \A c \in i + 1..m : s[c].key = "pattern" => Shows(s, c, m, u.current.pattern, u.field)
    BY <1>1, <2>2, <2>4, <2>5, <2>7
  <2>10. ~(\A c \in i + 1..m : s[c].key # "pattern")
    BY <1>1, <2>3
  <2>11. InRule(s, i, m, u)
    BY <2>7, <2>8, <2>9, <2>10 DEF InRule
  <2>. QED  BY <2>2, <2>11 DEF m, u
<1>8. CASE ~(st.field = "PatternBlock" /\ ln.deep)
  <2> DEFINE t == IF st.field = "PatternBlock" THEN [st EXCEPT !.field = "None"] ELSE st
  <2>1. u = NpKeyLine(t, ln)
    <3>1. ln.key # "item"
      BY <1>1 DEF ln
    <3>2. CASE st.field = "PatternBlock"
      <4>1. u = NpKeyLine([st EXCEPT !.field = "None"], ln)
        BY <1>6, <1>8, <3>1, <3>2, Zenon DEF NpLine, ln
      <4>. QED  BY <3>2, <4>1
    <3>3. CASE st.field # "PatternBlock"
      <4>1. u = NpKeyLine(st, ln)
        BY <1>6, <3>1, <3>3, Zenon DEF NpLine, ln
      <4>. QED  BY <3>3, <4>1
    <3>. QED  BY <3>2, <3>3
  <2>2. /\ t \in NpState(W) /\ t.current = c0 /\ t.rules = st.rules /\ t.field # "PatternBlock"
    BY <1>6 DEF NpState, FieldNames
  <2> HIDE DEF t, u
  <2>3. Tells(t, ln, u) /\ u.current \in NpRule(W)
    <3>1. ln.key # "item"
      BY <1>1 DEF ln
    <3>. QED  BY <1>5, <1>6, <2>1, <2>2, <3>1, KeyLineTells
  <2>4. /\ u.rules = st.rules
        /\ u.current.id = IF ln.key = "id" THEN ln.val ELSE c0.id
        /\ u.current.pattern = IF ln.key # "pattern" THEN c0.pattern
                               ELSE IF ln.val = Block THEN << >> ELSE ln.val
        /\ u.field = "PatternBlock" <=> ln.key = "pattern" /\ ln.val = Block
    BY <2>2, <2>3 DEF Tells
  <2>5. \A c \in i + 1..m : s[c].key = "id" => u.current.id = s[c].val
    <3>1. CASE ln.key = "id"
      <4>1. ASSUME NEW c \in i + 1..m, s[c].key = "id" PROVE c = m
        BY <1>1, <1>4, <3>1, <4>1
      <4>. QED  BY <1>1, <2>4, <3>1, <4>1
    <3>2. CASE ln.key # "id"
      BY <1>1, <2>4, <3>2 DEF InRule
    <3>. QED  BY <3>1, <3>2
  <2>6. (\A c \in i + 1..m : s[c].key # "id") => u.current.id = Nothing
    BY <1>1, <2>4 DEF InRule
  <2>7. \A c \in i + 1..m : s[c].key = "pattern" => Shows(s, c, m, u.current.pattern, u.field)
    <3>1. CASE ln.key = "pattern"
      <4>1. ASSUME NEW c \in i + 1..m, s[c].key = "pattern" PROVE c = m
        BY <1>1, <1>4, <3>1, <4>1
      <4>2. u.current.pattern = IF s[m].val = Block THEN << >> ELSE s[m].val
        BY <1>1, <2>4, <3>1
      <4>3. u.field = "PatternBlock" <=> s[m].val = Block
        BY <1>1, <2>4, <3>1
      <4>4. s[m].val = Block => \A j \in Body(s, m) : s[j].key # "item"
        BY <1>1, <3>1 DEF Readable
      <4>5. Shows(s, m, m, u.current.pattern, u.field)
        <5>1. IsNpFile(s) /\ m \in 1..Len(s)
          BY <1>1 DEF Readable
        <5> DEFINE f == u.field
        <5>2. f = "PatternBlock" <=> s[m].val = Block
          BY <4>3
        <5> HIDE DEF f
        <5>3. Shows(s, m, m, IF s[m].val = Block THEN << >> ELSE s[m].val, f)
          BY <4>4, <5>1, <5>2, ShowsFirst
        <5>. QED  BY <4>2, <5>3 DEF f
      <4>. QED  BY <4>1, <4>5
    <3>2. CASE ln.key # "pattern"
      <4>1. u.current.pattern = c0.pattern /\ u.field # "PatternBlock"
        BY <2>4, <3>2
      <4>2. ASSUME NEW c \in i + 1..k, s[c].key = "pattern"
            PROVE  Shows(s, c, m, c0.pattern, u.field)
        <5>1. Shows(s, c, k, c0.pattern, st.field)
          BY <4>2 DEF InRule
        <5>2. c \in 1..k /\ (st.field = "PatternBlock" => ~s[k + 1].deep)
          BY <1>1, <1>8 DEF m
        <5> DEFINE f == u.field
                   f0 == st.field
                   p == c0.pattern
        <5>3. f # "PatternBlock" /\ Shows(s, c, k, p, f0) /\ (f0 = "PatternBlock" => ~s[k + 1].deep)
          BY <4>1, <5>1, <5>2
        <5> HIDE DEF f, f0, p
        <5>4. Shows(s, c, k + 1, p, f)
          BY <5>2, <5>3, ShowsSame
        <5>. QED  BY <5>4 DEF f, p, m
      <4>. QED  BY <1>1, <3>2, <4>1, <4>2
    <3>. QED  BY <3>1, <3>2
  <2>8. (\A c \in i + 1..m : s[c].key # "pattern") =>
            u.current.pattern = << >> /\ u.field # "PatternBlock"
    BY <1>1, <2>4 DEF InRule
  <2>9. u.current # Nothing
    BY <2>3
  <2>10. InRule(s, i, m, u)
    BY <2>5, <2>6, <2>7, <2>8, <2>9 DEF InRule
  <2>. QED  BY <2>4, <2>10 DEF m, u
<1>. QED  BY <1>7, <1>8

\* A line that looks like the start of a rule starts one.
LEMMA ItemInRule ==
  ASSUME NEW s, NEW k \in Nat, s[k + 1].key = "item", NEW st,
         NEW W, Nothing \in W, s[k + 1].val \in W, Nothing \notin NpRule(W)
  PROVE  /\ InRule(s, k + 1, k + 1, NpLine(st, s[k + 1]))
         /\ NpLine(st, s[k + 1]).rules = Flushed(st)
<1> DEFINE m == k + 1
           v == s[k + 1].val
           u == NpLine(st, s[k + 1])
           d == [EmptyRule EXCEPT !.name = v]
<1>1. u = [field |-> "None", rules |-> Flushed(st), current |-> d]
  BY Zenon DEF NpLine
<1>2. d \in NpRule(W) /\ d.id = Nothing /\ d.pattern = << >>
  BY EmptyIsRegex DEF EmptyRule, NpRule
<1> HIDE DEF d, u
<1>3. u.current # Nothing /\ u.current.id = Nothing /\ u.current.pattern = << >>
      /\ u.field # "PatternBlock" /\ u.rules = Flushed(st)
  BY <1>1, <1>2
<1>4. m + 1..m = {}
  OBVIOUS
<1> HIDE DEF m
<1>5. InRule(s, m, m, u)
  BY <1>3, <1>4 DEF InRule
<1>. QED  BY <1>3, <1>5 DEF m, u

\* The ids and patterns of a sequence of rules.
Pairs(rules) == {[id |-> r.id, pattern |-> r.pattern] : r \in ToSet(rules)}

\* Of the rule that line i seems to start, w is the id and the pattern.
Gives(s, i, w) ==
  \E c, d \in Span(s, i) :
    /\ s[c].key = "id" /\ s[d].key = "pattern"
    /\ w = [id |-> s[c].val, pattern |-> PatternAt(s, d)]
    /\ w.id # Nothing /\ w.pattern # << >>

\* The rule that the parser has collected is kept if it has an id and a pattern.
Keeps(st, w) ==
  /\ st.current.id # Nothing /\ st.current.pattern # << >>
  /\ w = [id |-> st.current.id, pattern |-> st.current.pattern]

\* Where a rule ends, what the parser has of it is what its lines say.
LEMMA RuleEnds ==
  ASSUME NEW s, Readable(s), NEW n \in Nat, Len(s) = n, NEW k \in Nat, k <= n,
         NEW i, LastStart(s, i, k), k = n \/ s[k + 1].key = "item",
         NEW st, InRule(s, i, k, st), NEW w
  PROVE  Gives(s, i, w) <=> Keeps(st, w)
<1> DEFINE c0 == st.current
<1>1. i \in 1..k /\ i \in Nat /\ i \in 1..n /\ \A j \in i + 1..k : s[j].key # "item"
  BY DEF LastStart
<1>2. Span(s, i) = i + 1..k
  <2>1. ASSUME NEW e \in i + 1..k PROVE e \in Span(s, i)
    BY <1>1 DEF Span
  <2>2. ASSUME NEW e \in Span(s, i) PROVE e \in i + 1..k
    <3>1. e \in i + 1..n /\ \A j \in i + 1..e : s[j].key # "item"
      BY DEF Span
    <3>2. SUFFICES ASSUME e > k PROVE FALSE
      BY <1>1, <3>1
    <3>3. k + 1 \in i + 1..e /\ k # n
      BY <1>1, <3>1, <3>2
    <3>. QED  BY <3>1, <3>3
  <2>. QED  BY <2>1, <2>2
<1>3. ASSUME NEW d \in i + 1..k, s[d].key = "pattern"
      PROVE  c0.pattern = PatternAt(s, d)
  <2>1. Shows(s, d, k, c0.pattern, st.field) /\ d \in 1..k /\ d \in 1..n
    BY <1>1, <1>3 DEF InRule
  <2>2. k = n \/ s[d].val # Block \/ k + 1 \notin Body(s, d)
    BY <1>3, <2>1 DEF Readable
  <2>3. CASE s[d].val # Block
    <3>1. PatternAt(s, d) = s[d].val
      BY <2>3, Zenon DEF PatternAt
    <3>. QED  BY <2>1, <2>3, <3>1 DEF Shows
  <2>4. CASE s[d].val = Block
    <3> DEFINE p == c0.pattern
               f == st.field
    <3>1. Shows(s, d, k, p, f) /\ (k = n \/ k + 1 \notin Body(s, d))
      BY <2>1, <2>2, <2>4
    <3> HIDE DEF p, f
    <3>2. p = PatternAt(s, d)
      BY <2>1, <3>1, ShowsAll
    <3>. QED  BY <3>2 DEF p
  <2>. QED  BY <2>3, <2>4
<1>4. ASSUME Gives(s, i, w) PROVE Keeps(st, w)
  <2>1. PICK c \in Span(s, i), d \in Span(s, i) :
          /\ s[c].key = "id" /\ s[d].key = "pattern"
          /\ w = [id |-> s[c].val, pattern |-> PatternAt(s, d)]
          /\ w.id # Nothing /\ w.pattern # << >>
    BY <1>4 DEF Gives
  <2>2. c0.id = s[c].val /\ c0.pattern = PatternAt(s, d)
    BY <1>2, <1>3, <2>1 DEF InRule
  <2>. QED  BY <2>1, <2>2 DEF Keeps
<1>5. ASSUME Keeps(st, w) PROVE Gives(s, i, w)
  <2>1. c0.id # Nothing /\ c0.pattern # << >> /\ w = [id |-> c0.id, pattern |-> c0.pattern]
    BY <1>5 DEF Keeps
  <2>2. PICK c \in i + 1..k : s[c].key = "id"
    BY <2>1 DEF InRule
  <2>3. PICK d \in i + 1..k : s[d].key = "pattern"
    BY <2>1 DEF InRule
  <2>4. c0.id = s[c].val /\ c0.pattern = PatternAt(s, d)
    BY <1>3, <2>2, <2>3 DEF InRule
  <2>5. c \in Span(s, i) /\ d \in Span(s, i)
    BY <1>2, <2>2, <2>3
  <2>6. w.id # Nothing /\ w.pattern # << >>
    BY <2>1
  <2>. QED  BY <2>1, <2>2, <2>3, <2>4, <2>5, <2>6 DEF Gives
<1>. QED  BY <1>4, <1>5

\* A rule that ends is added to the others, or dropped.
LEMMA FlushedPairs ==
  ASSUME NEW W, NEW st \in NpState(W), st.current # Nothing, NEW w
  PROVE  w \in Pairs(Flushed(st)) <=> w \in Pairs(st.rules) \/ Keeps(st, w)
<1> DEFINE R == NpRule(W)
           rules == st.rules
           c0 == st.current
<1>1. rules \in Seq(R) /\ c0 \in R
  BY DEF NpState
<1>2. Flushed(st) = IF c0.id # Nothing /\ c0.pattern # << >>
                    THEN Append(rules, c0) ELSE rules
  BY Zenon DEF Flushed
<1> HIDE DEF R, rules, c0
<1>3. ToSet(Append(rules, c0)) = ToSet(rules) \cup {c0}
  <2>1. /\ Len(rules) \in Nat /\ DOMAIN rules = 1..Len(rules)
        /\ DOMAIN Append(rules, c0) = 1..Len(rules) + 1
        /\ \A j \in 1..Len(rules) : Append(rules, c0)[j] = rules[j]
        /\ Append(rules, c0)[Len(rules) + 1] = c0
    BY <1>1
  <2>. QED  BY <2>1 DEF ToSet
<1>4. CASE c0.id # Nothing /\ c0.pattern # << >>
  <2>1. Pairs(Flushed(st)) = Pairs(rules) \cup {[id |-> c0.id, pattern |-> c0.pattern]}
    BY <1>2, <1>3, <1>4 DEF Pairs
  <2>. QED  BY <1>4, <2>1 DEF Keeps, c0, rules
<1>5. CASE ~(c0.id # Nothing /\ c0.pattern # << >>)
  <2>1. Flushed(st) = rules
    BY <1>2, <1>5
  <2>. QED  BY <1>5, <2>1 DEF Keeps, c0, rules
<1>. QED  BY <1>4, <1>5

\* After line k the parser has what the lines before the last start of a rule give, and
\* what those after it say of its rule.
ReadTo(s, g, k) ==
  /\ (\A j \in 1..k : s[j].key # "item") => g[k].current = Nothing /\ g[k].rules = << >>
  /\ \A i \in 1..k : LastStart(s, i, k) =>
       /\ InRule(s, i, k, g[k])
       /\ \A w : w \in Pairs(g[k].rules) <=>
                   \E j \in 1..i - 1 : s[j].key = "item" /\ Gives(s, j, w)

\* Up to any line there is a last start of a rule, if there is one.
LEMMA LastExists ==
  ASSUME NEW s, NEW k \in Nat, NEW j \in 1..k, s[j].key = "item"
  PROVE  \E i \in 1..k : LastStart(s, i, k)
<1> DEFINE After == {l \in 0..k : \A m \in l + 1..k : s[m].key # "item"}
<1>1. PICK i \in After : \A m \in After : i <= m
  <2>1. k \in After /\ After \in SUBSET Nat
    OBVIOUS
  <2> HIDE DEF After
  <2>. QED  BY <2>1, LeastNumber, Zenon
<1>2. i \in 0..k /\ \A m \in i + 1..k : s[m].key # "item"
  OBVIOUS
<1>3. i >= j
  BY <1>2
<1>4. s[i].key = "item"
  <2>1. SUFFICES ASSUME s[i].key # "item" PROVE FALSE
    OBVIOUS
  <2> DEFINE h == i - 1
  <2>2. h \in 0..k /\ h + 1 = i /\ h < i
    BY <1>2, <1>3
  <2>3. \A m \in h + 1..k : s[m].key # "item"
    BY <1>2, <2>1, <2>2
  <2>4. h \in After
    BY <2>2, <2>3
  <2> HIDE DEF After, h
  <2>5. i <= h
    BY <1>1, <2>4
  <2>. QED  BY <1>2, <2>2, <2>5
<1>5. i \in 1..k
  BY <1>2, <1>3
<1>. QED  BY <1>2, <1>4, <1>5 DEF LastStart

\* There is one last start at most.
LEMMA LastUnique ==
  ASSUME NEW s, NEW k \in Nat, NEW i, LastStart(s, i, k), NEW j, LastStart(s, j, k)
  PROVE  i = j
<1>1. i \in 1..k /\ j \in 1..k /\ s[i].key = "item" /\ s[j].key = "item"
      /\ (\A m \in i + 1..k : s[m].key # "item") /\ \A m \in j + 1..k : s[m].key # "item"
  BY DEF LastStart
<1>2. ~(i < j)
  BY <1>1
<1>3. ~(j < i)
  BY <1>1
<1>. QED  BY <1>1, <1>2, <1>3

\* One line.
LEMMA ReadStep ==
  ASSUME NEW s, Readable(s), NEW n \in Nat, Len(s) = n,
         NEW W, \A j \in DOMAIN s : s[j].val \in W, Nothing \in W, Nothing \notin NpRule(W),
         NEW g, NpReads(g, s, W), NEW k \in Nat, k < n, ReadTo(s, g, k)
  PROVE  ReadTo(s, g, k + 1)
<1> DEFINE m == k + 1
<1>1. /\ m \in 1..n /\ m \in Nat /\ m = k + 1 /\ m - 1 = k /\ k \in 0..n /\ DOMAIN s = 1..n
      /\ 1..m = 1..k \cup {m}
  BY DEF Readable, IsNpFile, IsSeq
<1>2. g[m] = NpLine(g[k], s[k + 1]) /\ g[k] \in NpState(W)
  <2>1. g[m] = NpLine(g[m - 1], s[m])
    <3> HIDE DEF m
    <3>. QED  BY <1>1 DEF NpReads
  <2>. QED  BY <1>1, <2>1 DEF NpReads
<1>3. ASSUME NEW i \in 1..k, LastStart(s, i, k)
      PROVE  /\ InRule(s, i, k, g[k])
             /\ \A w : w \in Pairs(g[k].rules) <=>
                         \E j \in 1..i - 1 : s[j].key = "item" /\ Gives(s, j, w)
  BY <1>3 DEF ReadTo
<1>4. CASE s[m].key = "item"
  <2>1. InRule(s, m, m, g[m]) /\ g[m].rules = Flushed(g[k])
    BY <1>1, <1>2, <1>4, ItemInRule
  <2>2. ASSUME NEW i \in 1..m, LastStart(s, i, m) PROVE i = m
    BY <1>1, <1>4, <2>2 DEF LastStart
  <2>3. ASSUME NEW w
        PROVE  w \in Pairs(g[m].rules) <=>
                 \E j \in 1..m - 1 : s[j].key = "item" /\ Gives(s, j, w)
    <3>1. CASE \A j \in 1..k : s[j].key # "item"
      <4>1. g[k].current = Nothing /\ g[k].rules = << >>
        BY <3>1 DEF ReadTo
      <4>2. Flushed(g[k]) = << >>
        BY <4>1, Zenon DEF Flushed
      <4>3. Pairs(<< >>) = {}
        BY DEF Pairs, ToSet
      <4>. QED  BY <1>1, <2>1, <3>1, <4>2, <4>3
    <3>2. CASE \E j \in 1..k : s[j].key = "item"
      <4>1. PICK i \in 1..k : LastStart(s, i, k)
        BY <3>2, LastExists
      <4> DEFINE st == g[k]
      <4>2. InRule(s, i, k, st) /\ st \in NpState(W) /\ st.current # Nothing
        BY <1>2, <1>3, <4>1 DEF InRule
      <4>3. w \in Pairs(st.rules) <=> \E j \in 1..i - 1 : s[j].key = "item" /\ Gives(s, j, w)
        BY <1>3, <4>1
      <4>4. s[k + 1].key = "item" /\ k <= n
        BY <1>1, <1>4
      <4> HIDE DEF st
      <4>5. Gives(s, i, w) <=> Keeps(st, w)
        BY <4>1, <4>2, <4>4, RuleEnds
      <4>6. w \in Pairs(Flushed(st)) <=> w \in Pairs(st.rules) \/ Keeps(st, w)
        BY <4>2, FlushedPairs
      <4>7. \A j \in 1..k : s[j].key = "item" => j \in 1..i - 1 \/ j = i
        BY <4>1 DEF LastStart
      <4>8. s[i].key = "item" /\ 1..i - 1 \subseteq 1..k /\ i \in 1..k
        BY <4>1 DEF LastStart
      <4>9. w \in Pairs(Flushed(st)) <=> \E j \in 1..k : s[j].key = "item" /\ Gives(s, j, w)
        BY <4>3, <4>5, <4>6, <4>7, <4>8
      <4>. QED  BY <1>1, <2>1, <4>9 DEF st
    <3>. QED  BY <3>1, <3>2
  <2>4. ~(\A j \in 1..m : s[j].key # "item")
    BY <1>1, <1>4
  <2> HIDE DEF m
  <2>5. ReadTo(s, g, m)
    BY <2>1, <2>2, <2>3, <2>4 DEF ReadTo
  <2>. QED  BY <2>5 DEF m
<1>5. CASE s[m].key # "item"
  <2>1. CASE \A j \in 1..k : s[j].key # "item"
    <3>1. g[k].current = Nothing /\ g[k].rules = << >>
      BY <2>1 DEF ReadTo
    <3>2. g[m] = g[k]
      BY <1>2, <1>5, <3>1, Zenon DEF NpLine
    <3>3. \A i \in 1..m : ~LastStart(s, i, m)
      BY <1>1, <1>5, <2>1 DEF LastStart
    <3> HIDE DEF m
    <3>4. ReadTo(s, g, m)
      BY <3>1, <3>2, <3>3 DEF ReadTo
    <3>. QED  BY <3>4 DEF m
  <2>2. CASE \E j \in 1..k : s[j].key = "item"
    <3>1. PICK i \in 1..k : LastStart(s, i, k)
      BY <2>2, LastExists
    <3> DEFINE st == g[k]
    <3>2. InRule(s, i, k, st) /\ st \in NpState(W) /\ s[k + 1].key # "item"
      BY <1>2, <1>3, <1>5, <3>1
    <3> HIDE DEF st
    <3>3. InRule(s, i, k + 1, NpLine(st, s[k + 1])) /\ NpLine(st, s[k + 1]).rules = st.rules
      BY <3>1, <3>2, LineInRule
    <3>4. InRule(s, i, m, g[m]) /\ g[m].rules = g[k].rules
      BY <1>2, <3>3 DEF st
    <3>5. ASSUME NEW j \in 1..m, LastStart(s, j, m) PROVE j = i
      <4>1. LastStart(s, i, m)
        BY <1>1, <1>5, <3>1 DEF LastStart
      <4> HIDE DEF m
      <4>. QED  BY <1>1, <3>5, <4>1, LastUnique
    <3>6. ~(\A j \in 1..m : s[j].key # "item")
      BY <1>1, <2>2
    <3>7. \A w : w \in Pairs(g[m].rules) <=>
                   \E j \in 1..i - 1 : s[j].key = "item" /\ Gives(s, j, w)
      BY <1>3, <3>1, <3>4
    <3> HIDE DEF m
    <3>8. ReadTo(s, g, m)
      BY <3>4, <3>5, <3>6, <3>7 DEF ReadTo
    <3>. QED  BY <3>8 DEF m
  <2>. QED  BY <2>1, <2>2
<1>. QED  BY <1>4, <1>5

\* What the parser makes of a file: the ids and patterns between the lines that look like
\* starts of rules.
LEMMA FileReads ==
  ASSUME NEW s, Readable(s), NEW w
  PROVE  w \in Pairs(parse_np_file(s)) <=>
           \E j \in 1..Len(s) : s[j].key = "item" /\ Gives(s, j, w)
<1> DEFINE n == Len(s)
           W == NpValues(s)
<1>1. IsNpFile(s) /\ n \in Nat /\ DOMAIN s = 1..n
  BY DEF Readable, IsNpFile, IsSeq
<1>2. (\A j \in DOMAIN s : s[j].val \in W) /\ Nothing \in W /\ Nothing \notin NpRule(W)
  <2>1. \A j \in 1..n : s[j].val \in W
    <3>1. ASSUME NEW j \in 1..n PROVE s[j].val \in W
      <4>1. j \in 0..n /\ j # 0 /\ s[j].val = IF j = 0 THEN Nothing ELSE s[j].val
        BY <1>1
      <4>. QED  BY <4>1 DEF NpValues
    <3>. QED  BY <3>1
  <2>2. Nothing \in W
    <3> DEFINE z == 0
    <3>1. z \in 0..n /\ Nothing = IF z = 0 THEN Nothing ELSE s[z].val
      BY <1>1
    <3> HIDE DEF z
    <3>. QED  BY <3>1 DEF NpValues
  <2>. QED  BY <1>1, <2>1, <2>2 DEF IsNpFile
<1> HIDE DEF W
<1>3. PICK g : NpReads(g, s, W) /\ FoldLeft(NpLine, NpStart, s) = g[Len(s)]
  BY <1>1, <1>2, NpStateReads
<1> HIDE DEF n
<1>4. Len(s) = n
  BY DEF n
<1>5. ReadTo(s, g, 0)
  <2>1. g[0] = NpStart
    BY <1>3 DEF NpReads
  <2>2. NpStart.current = Nothing /\ NpStart.rules = << >>
    BY DEF NpStart
  <2>3. 1..0 = {}
    OBVIOUS
  <2>. QED  BY <2>1, <2>2, <2>3 DEF ReadTo
<1>6. ReadTo(s, g, n)
  <2> DEFINE Bad == {k \in 0..n : ~ReadTo(s, g, k)}
  <2>1. SUFFICES ASSUME Bad # {} PROVE FALSE
    BY <1>1
  <2>2. PICK k \in Bad : \A j \in Bad : k <= j
    <3>1. Bad \in SUBSET Nat
      OBVIOUS
    <3> HIDE DEF Bad
    <3>. QED  BY <2>1, <3>1, LeastNumber, Zenon
  <2> DEFINE h == k - 1
  <2>3. k \in 0..n /\ ~ReadTo(s, g, k)
    OBVIOUS
  <2>4. h \in Nat /\ h < n /\ h + 1 = k /\ h < k /\ h \in 0..n
    BY <1>1, <1>5, <2>3
  <2>5. ReadTo(s, g, h)
    <3>1. h \notin Bad
      <4> HIDE DEF Bad, h
      <4>. QED  BY <1>1, <2>2, <2>3, <2>4
    <3> HIDE DEF h
    <3>. QED  BY <2>4, <3>1
  <2> HIDE DEF Bad, h
  <2>6. ReadTo(s, g, h + 1)
    BY <1>1, <1>2, <1>3, <1>4, <2>4, <2>5, ReadStep
  <2>. QED  BY <2>3, <2>4, <2>6
<1> DEFINE st == g[n]
<1>7. parse_np_file(s) = Flushed(st) /\ st \in NpState(W)
  <2>1. parse_np_file(s) = Flushed(FoldLeft(NpLine, NpStart, s))
    BY Zenon DEF parse_np_file
  <2>2. n \in 0..n
    BY <1>1
  <2>. QED  BY <1>3, <1>4, <2>1, <2>2 DEF NpReads
<1>8. CASE \A j \in 1..n : s[j].key # "item"
  <2>1. st.current = Nothing /\ st.rules = << >>
    BY <1>6, <1>8 DEF ReadTo
  <2>2. Flushed(st) = << >>
    BY <2>1, Zenon DEF Flushed
  <2>3. Pairs(<< >>) = {}
    BY DEF Pairs, ToSet
  <2>. QED  BY <1>4, <1>7, <1>8, <2>2, <2>3
<1>9. CASE \E j \in 1..n : s[j].key = "item"
  <2>1. PICK i \in 1..n : LastStart(s, i, n)
    BY <1>1, <1>9, LastExists
  <2>2. /\ InRule(s, i, n, st)
        /\ w \in Pairs(st.rules) <=> \E j \in 1..i - 1 : s[j].key = "item" /\ Gives(s, j, w)
    BY <1>6, <2>1 DEF ReadTo
  <2> HIDE DEF st
  <2>3. n <= n
    BY <1>1
  <2>4. Gives(s, i, w) <=> Keeps(st, w)
    BY <1>1, <1>4, <2>1, <2>2, <2>3, RuleEnds
  <2>5. st.current # Nothing
    BY <2>2 DEF InRule
  <2>6. w \in Pairs(Flushed(st)) <=> w \in Pairs(st.rules) \/ Keeps(st, w)
    BY <1>7, <2>5, FlushedPairs
  <2>7. \A j \in 1..n : s[j].key = "item" => j \in 1..i - 1 \/ j = i
    BY <2>1 DEF LastStart
  <2>8. s[i].key = "item" /\ 1..i - 1 \subseteq 1..n
    <3>1. s[i].key = "item" /\ i \in 1..n
      BY <2>1 DEF LastStart
    <3>. QED  BY <1>1, <3>1
  <2>. QED  BY <1>4, <1>7, <2>1, <2>2, <2>4, <2>6, <2>7, <2>8
<1>. QED  BY <1>8, <1>9

\* In a plain file the lines up to the next thing that looks like a start of a rule have
\* all ids and patterns that a reader of YAML finds in the rule, and no others.
LEMMA PlainSpan ==
  ASSUME NEW s, IsNpFile(s), Plain(s), NEW i \in 1..Len(s), s[i].key = "item",
         NEW c, c \in 1..Len(s) => s[c].key \in {"id", "pattern"}
  PROVE  c \in Span(s, i) <=> i \in ItemLines(s) /\ c \in OwnLines(s, i)
<1> DEFINE n == Len(s)
<1>1. n \in Nat /\ DOMAIN s = 1..n
  BY DEF IsNpFile, IsSeq
<1>2. \A t \in 1..n : s[t].text =>
        /\ s[t].key \notin {"id", "pattern"}
        /\ s[t].key = "item" =>
             \A k \in t + 1..n : s[k].key \in {"id", "pattern"} =>
                 \E j \in ItemLines(s) : t < j /\ j < k
  BY <1>1 DEF Plain
<1>3. ItemLines(s) = {j \in 1..n : s[j].key = "item" /\ ~s[j].text}
  BY DEF ItemLines
<1> HIDE DEF n
<1>4. n = Len(s)
  BY DEF n
<1>5. ASSUME c \in Span(s, i) PROVE i \in ItemLines(s) /\ c \in OwnLines(s, i)
  <2>1. c \in i + 1..n /\ c \in 1..n /\ \A j \in i + 1..c : s[j].key # "item"
    BY <1>1, <1>4, <1>5 DEF Span
  <2>2. s[c].key \in {"id", "pattern"} /\ ~s[c].text
    BY <1>2, <1>4, <2>1
  <2>3. i \in ItemLines(s)
    <3>1. SUFFICES ASSUME s[i].text PROVE FALSE
      BY <1>3, <1>4
    <3>2. PICK j \in ItemLines(s) : i < j /\ j < c
      BY <1>2, <1>4, <2>1, <2>2, <3>1
    <3>3. j \in i + 1..c /\ s[j].key = "item"
      BY <1>1, <1>3, <1>4, <2>1, <3>2
    <3>. QED  BY <2>1, <3>3
  <2>4. \A j \in ItemLines(s) : ~(i < j /\ j <= c)
    <3>1. SUFFICES ASSUME NEW j \in ItemLines(s), i < j, j <= c PROVE FALSE
      OBVIOUS
    <3>2. j \in i + 1..c /\ s[j].key = "item"
      BY <1>1, <1>3, <1>4, <2>1, <3>1
    <3>. QED  BY <2>1, <3>2
  <2>. QED  BY <1>4, <2>1, <2>2, <2>3, <2>4 DEF OwnLines
<1>6. ASSUME i \in ItemLines(s), c \in OwnLines(s, i) PROVE c \in Span(s, i)
  <2>1. c \in i + 1..n /\ c \in 1..n /\ \A j \in ItemLines(s) : ~(i < j /\ j <= c)
    BY <1>1, <1>4, <1>6 DEF OwnLines
  <2>2. s[c].key \in {"id", "pattern"}
    BY <1>4, <2>1
  <2>3. ASSUME NEW j \in i + 1..c, s[j].key = "item" PROVE FALSE
    <3>1. j \in 1..n /\ i < j /\ j <= c /\ j # c /\ c \in j + 1..n
      BY <1>1, <1>4, <2>1, <2>2, <2>3
    <3>2. s[j].text
      BY <1>3, <2>1, <2>3, <3>1
    <3>3. PICK h \in ItemLines(s) : j < h /\ h < c
      BY <1>2, <2>2, <2>3, <3>1, <3>2
    <3>4. h \in Nat /\ i < h /\ h <= c
      BY <1>1, <1>3, <1>4, <2>1, <3>1, <3>3
    <3>. QED  BY <2>1, <3>4
  <2>. QED  BY <1>4, <2>1, <2>3 DEF Span
<1>. QED  BY <1>5, <1>6

\* The parser can read a plain file.
LEMMA PlainIsReadable ==
  ASSUME NEW s, IsNpFile(s), Plain(s)
  PROVE  Readable(s)
<1>1. DOMAIN s = 1..Len(s)
  BY DEF IsNpFile, IsSeq
<1>2. ASSUME NEW i \in 1..Len(s), s[i].key = "item", NEW c \in Span(s, i), NEW d \in Span(s, i),
             s[c].key = s[d].key, s[c].key \in {"id", "pattern"}
      PROVE  c = d
  <2>1. i \in ItemLines(s) /\ c \in OwnLines(s, i)
    BY <1>2, PlainSpan
  <2>2. i \in ItemLines(s) /\ d \in OwnLines(s, i)
    BY <1>2, PlainSpan
  <2>. QED  BY <1>2, <2>1, <2>2 DEF Plain
<1>3. \A b \in 1..Len(s) : s[b].key = "pattern" /\ s[b].val = Block =>
        \A e \in Body(s, b) : s[e].key \notin {"item", "id", "pattern"}
  BY <1>1 DEF Plain
<1>. QED  BY <1>2, <1>3 DEF Readable

\* Of a plain file the parser reads what is written.
LEMMA ReadAsWritten ==
  ASSUME NEW s, IsNpFile(s), Plain(s), NEW w
  PROVE  w \in Pairs(parse_np_file(s)) <=>
           w \in WrittenRules(s) /\ w.id # Nothing /\ w.pattern # << >>
<1> DEFINE Pair(c, d) == [id |-> s[c].val, pattern |-> PatternAt(s, d)]
<1>1. w \in WrittenRules(s) <=>
        \E i \in ItemLines(s) : \E c, d \in OwnLines(s, i) :
          s[c].key = "id" /\ s[d].key = "pattern" /\ w = Pair(c, d)
  <2> DEFINE Cs(i) == {c \in OwnLines(s, i) \X OwnLines(s, i) :
                          /\ s[c[1]].key = "id"
                          /\ s[c[2]].key = "pattern"}
  <2>1. WrittenRules(s) = {Pair(c[1], c[2]) : c \in UNION {Cs(i) : i \in ItemLines(s)}}
    BY Zenon DEF WrittenRules
  <2>2. ASSUME w \in WrittenRules(s)
        PROVE  \E i \in ItemLines(s) : \E c, d \in OwnLines(s, i) :
                 s[c].key = "id" /\ s[d].key = "pattern" /\ w = Pair(c, d)
    <3>0. PICK p \in UNION {Cs(i) : i \in ItemLines(s)} : w = Pair(p[1], p[2])
      <4> HIDE DEF Pair, Cs
      <4>. QED  BY <2>1, <2>2
    <3>1. PICK i \in ItemLines(s) : p \in Cs(i)
      <4> HIDE DEF Pair, Cs
      <4>. QED  BY <3>0
    <3>2. p[1] \in OwnLines(s, i) /\ p[2] \in OwnLines(s, i)
          /\ s[p[1]].key = "id" /\ s[p[2]].key = "pattern"
      BY <3>1
    <3> HIDE DEF Pair, Cs
    <3>. QED  BY <3>0, <3>1, <3>2
  <2>3. ASSUME NEW i \in ItemLines(s), NEW c \in OwnLines(s, i), NEW d \in OwnLines(s, i),
               s[c].key = "id", s[d].key = "pattern", w = Pair(c, d)
        PROVE  w \in WrittenRules(s)
    <3> DEFINE p == <<c, d>>
    <3>1. p \in Cs(i) /\ p[1] = c /\ p[2] = d
      BY <2>3
    <3> HIDE DEF Pair, Cs, p
    <3>2. w = Pair(p[1], p[2])
      BY <2>3, <3>1
    <3>. QED  BY <2>1, <3>1, <3>2
  <2> HIDE DEF Pair
  <2>. QED  BY <2>2, <2>3
<1>2. ASSUME NEW i \in 1..Len(s), s[i].key = "item"
      PROVE  Gives(s, i, w) <=>
               /\ i \in ItemLines(s)
               /\ \E c, d \in OwnLines(s, i) :
                    s[c].key = "id" /\ s[d].key = "pattern" /\ w = Pair(c, d)
               /\ w.id # Nothing /\ w.pattern # << >>
  <2>1. \A c : s[c].key \in {"id", "pattern"} =>
          (c \in Span(s, i) <=> i \in ItemLines(s) /\ c \in OwnLines(s, i))
    BY <1>2, PlainSpan
  <2>2. Gives(s, i, w) <=>
          \E c, d \in Span(s, i) :
            /\ s[c].key = "id" /\ s[d].key = "pattern" /\ w = Pair(c, d)
            /\ w.id # Nothing /\ w.pattern # << >>
    BY Zenon DEF Gives
  <2> HIDE DEF Pair
  <2>. QED  BY <2>1, <2>2
<1>3. w \in Pairs(parse_np_file(s)) <=>
        \E j \in 1..Len(s) : s[j].key = "item" /\ Gives(s, j, w)
  BY PlainIsReadable, FileReads
<1>4. \A j \in ItemLines(s) : j \in 1..Len(s) /\ s[j].key = "item"
  BY DEF ItemLines
<1> HIDE DEF Pair
<1>. QED  BY <1>1, <1>2, <1>3, <1>4

\* The rules of one sequence after another are those of both.
LEMMA PairsOfBoth ==
  ASSUME NEW R, NEW a \in Seq(R), NEW b \in Seq(R)
  PROVE  Pairs(a \o b) = Pairs(a) \cup Pairs(b)
<1> DEFINE u == a \o b
<1>1. /\ Len(a) \in Nat /\ Len(b) \in Nat /\ DOMAIN a = 1..Len(a) /\ DOMAIN b = 1..Len(b)
      /\ DOMAIN u = 1..Len(a) + Len(b)
      /\ \A i \in 1..Len(a) : u[i] = a[i]
      /\ \A i \in 1..Len(b) : u[Len(a) + i] = b[i]
  OBVIOUS
<1> HIDE DEF u
<1>2. ASSUME NEW i \in DOMAIN u PROVE u[i] \in ToSet(a) \cup ToSet(b)
  <2>1. CASE i \in 1..Len(a)
    BY <1>1, <2>1 DEF ToSet
  <2>2. CASE i \notin 1..Len(a)
    <3>1. i - Len(a) \in 1..Len(b) /\ Len(a) + (i - Len(a)) = i
      BY <1>1, <2>2
    <3>2. u[i] = b[i - Len(a)]
      BY <1>1, <3>1
    <3>. QED  BY <1>1, <3>1, <3>2 DEF ToSet
  <2>. QED  BY <2>1, <2>2
<1>3. \A i \in DOMAIN a : a[i] \in ToSet(u)
  BY <1>1 DEF ToSet
<1>4. ASSUME NEW i \in DOMAIN b PROVE b[i] \in ToSet(u)
  <2>1. Len(a) + i \in DOMAIN u /\ u[Len(a) + i] = b[i]
    BY <1>1
  <2>. QED  BY <2>1 DEF ToSet
<1>5. ToSet(u) = ToSet(a) \cup ToSet(b)
  <2>1. \A x \in ToSet(u) : x \in ToSet(a) \cup ToSet(b)
    BY <1>2 DEF ToSet
  <2>2. \A x \in ToSet(a) \cup ToSet(b) : x \in ToSet(u)
    BY <1>3, <1>4 DEF ToSet
  <2>. QED  BY <2>1, <2>2
<1>. QED  BY <1>5 DEF Pairs, u

\* The rules of all files.
LEMMA FilesPairs ==
  ASSUME NEW src, NpFilesOK(src), NEW w
  PROVE  w \in Pairs(FoldLeft(LAMBDA all, file : all \o parse_np_file(file), << >>, src.np)) <=>
           \E f \in DOMAIN src.np : w \in Pairs(parse_np_file(src.np[f]))
<1> DEFINE s == src.np
           n == Len(s)
           W == {Nothing} \cup UNION {{s[f][i].val : i \in DOMAIN s[f]} : f \in DOMAIN s}
           R == NpRule(W)
<1>1. n \in Nat /\ DOMAIN s = 1..n /\ IsSeq(s) /\ \A f \in 1..n : IsNpFile(s[f])
  BY DEF NpFilesOK, IsSeq
<1>2. /\ Nothing \in W
      /\ \A f \in DOMAIN s : IsNpFile(s[f]) /\ \A i \in DOMAIN s[f] : s[f][i].val \in W
  BY <1>1
<1> HIDE DEF W
<1>3. PICK g : /\ Collects(g, s, W)
               /\ FoldLeft(LAMBDA all, file : all \o parse_np_file(file), << >>, s) = g[Len(s)]
  <2> HIDE DEF s
  <2>. QED  BY <1>1, <1>2, NpRulesCollect
<1>4. \A f \in 1..n : parse_np_file(s[f]) \in Seq(R)
  BY <1>1, <1>2, ParsedIsString
<1>5. /\ \A k \in 0..n : g[k] \in Seq(R)
      /\ g[0] = << >>
      /\ \A k \in 1..n : g[k] = g[k - 1] \o parse_np_file(s[k])
  BY <1>3 DEF Collects
<1> HIDE DEF s, n, R
<1> DEFINE Upto(k) == w \in Pairs(g[k]) <=> \E f \in 1..k : w \in Pairs(parse_np_file(s[f]))
           Bad     == {k \in 0..n : ~Upto(k)}
<1>6. Bad = {}
  <2>1. SUFFICES ASSUME Bad # {} PROVE FALSE
    OBVIOUS
  <2>2. PICK k \in Bad : \A j \in Bad : k <= j
    <3>1. Bad \in SUBSET Nat
      OBVIOUS
    <3> HIDE DEF Bad
    <3>. QED  BY <2>1, <3>1, LeastNumber, Zenon
  <2> DEFINE h == k - 1
  <2>3. k \in 0..n /\ ~Upto(k)
    <3> HIDE DEF Upto
    <3>. QED  OBVIOUS
  <2>4. k # 0
    <3>1. Upto(0)
      <4>1. Pairs(<< >>) = {} /\ 1..0 = {}
        BY DEF Pairs, ToSet
      <4>. QED  BY <1>5, <4>1
    <3> HIDE DEF Upto
    <3>. QED  BY <2>3, <3>1
  <2>5. k \in 1..n /\ h \in 0..n /\ h < k /\ 1..k = 1..h \cup {k} /\ k - 1 = h /\ ~(k <= h)
    BY <1>1, <2>3, <2>4
  <2> HIDE DEF h
  <2>6. Upto(h)
    <3> HIDE DEF Upto
    <3>1. h \notin Bad
      <4> HIDE DEF Bad
      <4>. QED  BY <2>2, <2>5
    <3>. QED  BY <2>5, <3>1
  <2>7. Pairs(g[k]) = Pairs(g[h]) \cup Pairs(parse_np_file(s[k]))
    <3>1. g[h] \in Seq(R) /\ parse_np_file(s[k]) \in Seq(R) /\ g[k] = g[h] \o parse_np_file(s[k])
      BY <1>4, <1>5, <2>5
    <3>. QED  BY <3>1, PairsOfBoth
  <2>8. Upto(k)
    BY <2>5, <2>6, <2>7
  <2> HIDE DEF Upto
  <2>. QED  BY <2>3, <2>8
<1>7. Upto(n)
  <2>1. n \in 0..n
    BY <1>1
  <2> HIDE DEF Upto
  <2>. QED  BY <1>6, <2>1
<1>. QED  BY <1>1, <1>3, <1>7 DEF s, n

\* The ids and regexes of the rules that Nosey Parker offers.
LEMMA NpPairs ==
  ASSUME NEW src, NpFilesOK(src), NEW w
  PROVE  w \in {[id |-> r.id, pattern |-> r.regex] : r \in ToSet(NpRules(src))} <=>
           /\ \E f \in DOMAIN src.np : w \in Pairs(parse_np_file(src.np[f]))
           /\ w.id \notin src.exclusions
<1> DEFINE rules == FoldLeft(LAMBDA all, file : all \o parse_np_file(file), << >>, src.np)
           S     == {r \in ToSet(rules) : Included(src, r.id)}
           kept  == NpIncluded(src)
           t     == NpRules(src)
<1>1. kept = Kept(rules, S)
  BY Zenon DEF NpIncluded
<1>2. ToSet(kept) = S
  <2> DEFINE W == {Nothing} \cup
                    UNION {{src.np[f][i].val : i \in DOMAIN src.np[f]} : f \in DOMAIN src.np}
             A == NpRule(W)
  <2>1. Nothing \in W /\ \A f \in DOMAIN src.np : IsNpFile(src.np[f]) /\
            \A i \in DOMAIN src.np[f] : src.np[f][i].val \in W
    BY DEF NpFilesOK
  <2> HIDE DEF W
  <2>2. rules \in Seq(A)
    BY <2>1, NpRulesOf DEF NpFilesOK
  <2>3. S \subseteq ToSet(rules)
    OBVIOUS
  <2> HIDE DEF rules, S, A, kept
  <2>4. ToSet(Kept(rules, S)) = ToSet(rules) \cap S
    BY <2>2, KeptLosesNone
  <2>. QED  BY <1>1, <2>3, <2>4
<1>3. t = [i \in DOMAIN kept |->
             Normalized(kept[i].id, "nosey-parker", np_subcategory(kept[i].id),
                        infer_confidence_np(kept[i].categories), kept[i].pattern, {}, Nothing)]
  BY Zenon DEF NpRules
<1>4. DOMAIN t = DOMAIN kept
      /\ \A i \in DOMAIN kept : t[i].id = kept[i].id /\ t[i].regex = kept[i].pattern
  <2>1. \A id, source, row, confidence, regex, keywords, checksum :
          /\ Normalized(id, source, row, confidence, regex, keywords, checksum).id = id
          /\ Normalized(id, source, row, confidence, regex, keywords, checksum).regex = regex
    BY DEF Normalized
  <2> HIDE DEF t, kept
  <2>. QED  BY <1>3, <2>1
<1> HIDE DEF t, kept
<1>5. {[id |-> r.id, pattern |-> r.regex] : r \in ToSet(t)} = Pairs(kept)
  BY <1>4 DEF Pairs, ToSet
<1>6. w \in Pairs(kept) <=> w \in Pairs(rules) /\ w.id \notin src.exclusions
  <2> HIDE DEF rules
  <2>1. \A r : [id |-> r.id, pattern |-> r.pattern].id = r.id
    OBVIOUS
  <2>. QED  BY <1>2, <2>1 DEF Pairs, Included
<1>7. w \in Pairs(rules) <=> \E f \in DOMAIN src.np : w \in Pairs(parse_np_file(src.np[f]))
  BY FilesPairs
<1>. QED  BY <1>5, <1>6, <1>7 DEF t

--------------------------------------------------------------------------------
\* The other sources.

\* The two files in the schema itself.
LEMMA HandAuthoredOfRules ==
  ASSUME NEW src, IsRuleFile(src.ha)
  PROVE  OfRules(HandAuthoredRules(src))
<1> DEFINE t == HandAuthoredRules(src)
           s == src.ha
<1>1. s \in Seq(ToSet(s)) /\ \A i \in DOMAIN s : IsRule(s[i])
  BY SeqIsString DEF IsRuleFile
<1>2. t = [i \in DOMAIN s |-> [s[i] EXCEPT !.id = Prefixed(@, {"ha"}, "ha"), !.exclude = Nothing]]
  BY Zenon DEF HandAuthoredRules
<1> HIDE DEF t, s
<1>3. t = [i \in DOMAIN s |-> t[i]]
  BY <1>2
<1>4. IsSeq(t) /\ DOMAIN t = DOMAIN s
  BY <1>1, <1>3, MappedIsSeq
<1>5. ASSUME NEW i \in DOMAIN t PROVE IsRule(t[i]) /\ t[i].exclude = Nothing
  <2> DEFINE r == s[i]
             p == Prefixed(r.id, {"ha"}, "ha")
  <2>1. IsRule(r) /\ t[i] = [r EXCEPT !.id = p, !.exclude = Nothing]
    BY <1>1, <1>2, <1>4
  <2> HIDE DEF r, p
  <2>. QED  BY <2>1 DEF IsRule, RuleFields
<1>. QED  BY <1>4, <1>5 DEF OfRules, t

\* What the custom file offers is rules of the schema; without one there are none.
LEMMA CustomOfRules ==
  ASSUME NEW src, src.custom = Missing \/ IsRuleFile(src.custom)
  PROVE  OfRules(CustomRules(src))
<1> DEFINE t == CustomRules(src)
           s == src.custom
<1>1. CASE s = Missing
  <2>1. t = << >>
    BY <1>1 DEF CustomRules
  <2> HIDE DEF t
  <2>. QED  BY <2>1 DEF OfRules, IsSeq, t
<1>2. CASE s # Missing
  <2>1. s \in Seq(ToSet(s)) /\ \A i \in DOMAIN s : IsRule(s[i])
    BY <1>2, SeqIsString DEF IsRuleFile
  <2>2. t = [i \in DOMAIN s |->
               [s[i] EXCEPT !.id = Prefixed(@, {"custom", "gl", "np", "ha", "spdb"}, "custom"),
                            !.source = IF @ = "" THEN "custom" ELSE @,
                            !.exclude = Nothing]]
    BY <1>2, Zenon DEF CustomRules
  <2> HIDE DEF t, s
  <2>3. t = [i \in DOMAIN s |-> t[i]]
    BY <2>2
  <2>4. IsSeq(t) /\ DOMAIN t = DOMAIN s
    BY <2>1, <2>3, MappedIsSeq
  <2>5. ASSUME NEW i \in DOMAIN t PROVE IsRule(t[i]) /\ t[i].exclude = Nothing
    <3> DEFINE r == s[i]
               p == Prefixed(r.id, {"custom", "gl", "np", "ha", "spdb"}, "custom")
               q == IF r.source = "" THEN "custom" ELSE r.source
    <3>1. IsRule(r) /\ t[i] = [r EXCEPT !.id = p, !.source = q, !.exclude = Nothing]
      BY <2>1, <2>2, <2>4
    <3> HIDE DEF r, p, q
    <3>. QED  BY <3>1 DEF IsRule, RuleFields
  <2>. QED  BY <2>4, <2>5 DEF OfRules, t
<1>. QED  BY <1>1, <1>2

--------------------------------------------------------------------------------
\* One rule per id.

\* One rule per id, each of the schema: what RulesOK says, without a count.
OnePerId(S) == \A r, q \in S : r.id = q.id => r = q

\* The rules of a build or of a file.
RuleSet(S) == /\ IsFiniteSet(S)
              /\ \A r \in S : IsRule(r) /\ r.exclude = Nothing
              /\ OnePerId(S)

\* That is what the invariant RulesOK says of them.
LEMMA RuleSetOK ==
  ASSUME NEW S, RuleSet(S)
  PROVE  RulesOK(S)
<1> DEFINE Ids == {r.id : r \in S}
           f == [r \in S |-> r.id]
<1>1. f \in Surjection(S, Ids)
  BY DEF Surjection
<1>2. f \in Injection(S, Ids)
  BY DEF Injection, IsInjective, RuleSet, OnePerId
<1>3. IsFiniteSet(S)
  BY DEF RuleSet
<1> HIDE DEF Ids, f
<1>4. Cardinality(Ids) = Cardinality(S)
  BY <1>1, <1>2, <1>3, FS_Surjection
<1>. QED  BY <1>4 DEF RulesOK, RuleSet, Ids

\* A step that rewrites every rule of a set and leaves the ids alone.
LEMMA RewrittenRuleSet ==
  ASSUME NEW S, RuleSet(S), NEW f, f = [r \in S |-> f[r]],
         \A r \in S : IsRule(f[r]) /\ f[r].exclude = Nothing /\ f[r].id = r.id
  PROVE  RuleSet({f[r] : r \in S})
<1> DEFINE T == {f[r] : r \in S}
<1>1. f \in Surjection(S, T)
  BY DEF Surjection
<1>2. IsFiniteSet(S)
  BY DEF RuleSet
<1>3. IsFiniteSet(T)
  <2> HIDE DEF T
  <2>. QED  BY <1>1, <1>2, FS_Surjection
<1>4. OnePerId(T)
  BY DEF RuleSet, OnePerId
<1>. QED  BY <1>3, <1>4 DEF RuleSet

\* Leaving rules out makes no two of them alike.
LEMMA FewerRules ==
  ASSUME NEW S, RuleSet(S), NEW T \in SUBSET S
  PROVE  RuleSet(T)
  BY FS_Subset DEF RuleSet, OnePerId

\* Position i holds the last rule of its id.
IsLast(s, i) == i \in DOMAIN s /\ \A j \in i + 1 .. Len(s) : s[j].id # s[i].id

\* LastOfEachId in terms of positions.
LEMMA LastIs ==
  ASSUME NEW s, NEW r
  PROVE  r \in LastOfEachId(s) <=> \E i : IsLast(s, i) /\ r = s[i]
  BY DEF LastOfEachId, IsLast

\* The last rule of each id is one rule per id.
LEMMA LastRuleSet ==
  ASSUME NEW s, OfRules(s)
  PROVE  RuleSet(LastOfEachId(s)) /\ LastOfEachId(s) \subseteq ToSet(s)
<1> DEFINE L == LastOfEachId(s)
<1>1. s \in Seq(ToSet(s)) /\ DOMAIN s = 1..Len(s) /\ Len(s) \in Nat
  BY SeqIsString DEF OfRules
<1>2. L \subseteq ToSet(s)
  BY DEF LastOfEachId, ToSet
<1>3. IsFiniteSet(L)
  <2> DEFINE T == ToSet(s)
  <2>1. IsFiniteSet(T)
    BY <1>1, SequenceRange
  <2> HIDE DEF T, L
  <2>. QED  BY <1>2, <2>1, FS_Subset DEF T
<1>4. OnePerId(L)
  <2> SUFFICES ASSUME NEW r \in L, NEW q \in L, r.id = q.id
               PROVE  r = q
    BY DEF OnePerId
  <2>1. PICK i : IsLast(s, i) /\ r = s[i]
    BY LastIs
  <2>2. PICK j : IsLast(s, j) /\ q = s[j]
    BY LastIs
  <2>3. i \in 1..Len(s) /\ j \in 1..Len(s)
    BY <1>1, <2>1, <2>2 DEF IsLast
  <2>4. ~(i < j) /\ ~(j < i)
    BY <1>1, <2>1, <2>2, <2>3 DEF IsLast
  <2>5. i = j
    BY <1>1, <2>3, <2>4
  <2>. QED  BY <2>1, <2>2, <2>5
<1>5. \A r \in ToSet(s) : IsRule(r) /\ r.exclude = Nothing
  BY DEF OfRules, ToSet
<1> HIDE DEF L
<1>. QED  BY <1>2, <1>3, <1>4, <1>5 DEF RuleSet, L

\* No id is lost.
LEMMA LastHasAllIds ==
  ASSUME NEW s, IsSeq(s), NEW i \in DOMAIN s
  PROVE  \E r \in LastOfEachId(s) : r.id = s[i].id
<1> DEFINE n == Len(s)
           P == {j \in 1..n : s[j].id = s[i].id}
<1>1. n \in Nat /\ DOMAIN s = 1..n
  BY SeqIsString
<1>2. i \in P
  BY <1>1
<1>3. Max(P) \in P /\ \A y \in P : Max(P) >= y
  <2>1. P \in SUBSET (1..n) /\ P # {}
    BY <1>2
  <2> HIDE DEF P, n
  <2>. QED  BY <1>1, <2>1, GreatestIs
<1> DEFINE m == Max(P)
<1>4. m \in P /\ \A y \in P : m >= y
  BY <1>3
<1> HIDE DEF m
<1>5. IsLast(s, m) /\ s[m].id = s[i].id
  <2>1. m \in 1..n /\ s[m].id = s[i].id
    BY <1>4
  <2>2. ASSUME NEW j \in m + 1..n, s[j].id = s[m].id PROVE FALSE
    <3>1. j \in 1..n /\ j > m
      BY <1>1, <2>1
    <3>2. j \in P
      BY <2>1, <2>2, <3>1
    <3>3. m >= j
      BY <1>4, <3>2
    <3>. QED  BY <1>1, <2>1, <3>1, <3>3
  <2>. QED  BY <1>1, <2>1, <2>2 DEF IsLast
<1>6. s[m] \in LastOfEachId(s)
  BY <1>5, LastIs
<1>. QED  BY <1>5, <1>6

\* Of two sequences in a row the second wins.
LEMMA LastOfCat ==
  ASSUME NEW a, NEW b, IsSeq(a), IsSeq(b), NEW r \in LastOfEachId(a \o b)
  PROVE  \/ r \in LastOfEachId(b)
         \/ r \in LastOfEachId(a) /\ \A j \in DOMAIN b : b[j].id # r.id
<1> DEFINE A == ToSet(a) \cup ToSet(b)
           n == Len(a)
           m == Len(b)
           u == a \o b
<1>1. a \in Seq(A) /\ b \in Seq(A)
  <2>1. a \in Seq(ToSet(a)) /\ b \in Seq(ToSet(b))
    BY SeqIsString
  <2>2. ToSet(a) \subseteq A /\ ToSet(b) \subseteq A
    OBVIOUS
  <2> HIDE DEF A
  <2>. QED  BY <2>1, <2>2, WiderString
<1>2. n \in Nat /\ m \in Nat /\ DOMAIN a = 1..n /\ DOMAIN b = 1..m
  BY SeqIsString
<1>3. /\ u \in Seq(A) /\ Len(u) = n + m
      /\ \A i \in 1..n : u[i] = a[i]
      /\ \A i \in 1..m : u[n + i] = b[i]
  <2> HIDE DEF A
  <2>. QED  BY <1>1, ConcatIs
<1>4. DOMAIN u = 1..n + m
  BY <1>3, LenProperties
<1>5. PICK i : IsLast(u, i) /\ r = u[i]
  BY LastIs
<1> HIDE DEF u, n, m, A
<1>6. i \in 1..n + m /\ \A j \in i + 1..n + m : u[j].id # r.id
  BY <1>3, <1>4, <1>5 DEF IsLast
<1>7. CASE i > n
  <2> DEFINE k == i - n
  <2>1. k \in 1..m /\ n + k = i
    BY <1>2, <1>6, <1>7
  <2> HIDE DEF k
  <2>2. r = b[k]
    BY <1>3, <1>5, <2>1
  <2>3. ASSUME NEW j \in k + 1..m PROVE b[j].id # r.id
    <3>1. j \in 1..m /\ n + j \in i + 1..n + m
      BY <1>2, <2>1
    <3>. QED  BY <1>3, <1>6, <3>1
  <2>4. IsLast(b, k)
    BY <1>2, <2>1, <2>2, <2>3 DEF IsLast, m
  <2>. QED  BY <2>2, <2>4, LastIs
<1>8. CASE i <= n
  <2>1. i \in 1..n /\ r = a[i]
    BY <1>2, <1>3, <1>5, <1>6, <1>8
  <2>2. ASSUME NEW j \in i + 1..n PROVE a[j].id # r.id
    <3>1. j \in 1..n /\ j \in i + 1..n + m
      BY <1>2, <2>1
    <3>. QED  BY <1>3, <1>6, <3>1
  <2>3. ASSUME NEW j \in 1..m PROVE b[j].id # r.id
    <3>1. n + j \in i + 1..n + m
      BY <1>2, <2>1
    <3>. QED  BY <1>3, <1>6, <3>1
  <2>4. IsLast(a, i)
    BY <1>2, <2>1, <2>2 DEF IsLast, n
  <2>. QED  BY <1>2, <2>1, <2>3, <2>4, LastIs
<1>. QED  BY <1>2, <1>6, <1>7, <1>8

--------------------------------------------------------------------------------
\* The extraction of literal prefixes.

\* A slice of a sequence, and its length.
LEMMA SliceIsString ==
  ASSUME NEW A, NEW s \in Seq(A), NEW i \in Nat, NEW j \in Nat, i >= 1, j <= Len(s)
  PROVE  SubSeq(s, i, j) \in Seq(A) /\ Len(SubSeq(s, i, j)) = IF i <= j THEN j - i + 1 ELSE 0
  OBVIOUS

\* A group ends after its first token, within the regex if there is more of it.
LEMMA ClosingIs ==
  ASSUME NEW re \in Regexes, re # << >>
  PROVE  Closing(re, 1) \in Nat /\ Closing(re, 1) > 1
         /\ (Closing(re, 1) <= Len(re) \/ Closing(re, 1) = 2)
<1> DEFINE C == Closings(re, 1)
           n == Len(re)
<1>1. n \in Nat /\ n > 0
  BY DEF Regexes
<1>2. C \subseteq 2..n
  BY <1>1 DEF Closings
<1>3. CASE C # {}
  <2>1. Closing(re, 1) = CHOOSE j \in C : TRUE
    BY <1>3, Zenon DEF Closing
  <2> HIDE DEF C
  <2>2. Closing(re, 1) \in C
    BY <1>3, <2>1
  <2> DEFINE m == Closing(re, 1)
  <2>3. m \in 2..n
    BY <1>2, <2>2
  <2> HIDE DEF m, n
  <2>4. m \in Nat /\ m > 1 /\ m <= n
    BY <1>1, <2>3
  <2>. QED  BY <2>4 DEF m, n
<1>4. CASE C = {}
  <2>1. Closing(re, 1) = IF 1 < n THEN n ELSE 1 + 1
    BY <1>4, Zenon DEF Closing
  <2> DEFINE m == Closing(re, 1)
  <2>2. m = IF 1 < n THEN n ELSE 2
    BY <2>1
  <2> HIDE DEF m, n
  <2>3. m \in Nat /\ m > 1 /\ (m <= n \/ m = 2)
    BY <1>1, <2>2
  <2>. QED  BY <2>3 DEF m, n
<1>. QED  BY <1>3, <1>4

\* The alternatives of a group are shorter than the regex: the extraction may recur on them.
LEMMA AlternativesShorter ==
  ASSUME NEW re \in Regexes, re # << >>
  PROVE  /\ Alternatives(re, 1) # {}
         /\ \A a \in Alternatives(re, 1) : a \in Regexes /\ Len(a) < Len(re)
<1> DEFINE close == Closing(re, 1)
           cuts == TopPipes(re, 1) \cup {1, close}
           next(c, d) == c < d /\ \A k \in cuts : ~(c < k /\ k < d)
           n == Len(re)
<1>1. n \in Nat /\ n > 0 /\ re \in Seq(Tokens)
  BY DEF Regexes
<1>2. close \in Nat /\ close > 1 /\ (close <= n \/ close = 2)
  BY ClosingIs
<1>3. Alternatives(re, 1) =
        {SubSeq(re, c[1] + 1, c[2] - 1) : c \in {c \in cuts \X cuts : next(c[1], c[2])}}
  BY Zenon DEF Alternatives
<1>4. cuts \subseteq 1..close /\ 1 \in cuts /\ close \in cuts
  BY <1>2 DEF TopPipes
<1> HIDE DEF cuts, close
<1>5. Alternatives(re, 1) # {}
  <2> DEFINE L == {k \in cuts : k > 1}
  <2>1. L \in SUBSET Nat /\ L # {}
    <3>1. close \in L
      BY <1>2, <1>4
    <3>2. cuts \subseteq Nat
      BY <1>2, <1>4
    <3>. QED  BY <3>1, <3>2
  <2>2. PICK d \in L : \A k \in L : d <= k
    <3> HIDE DEF L
    <3>. QED  BY <2>1, LeastNumber, Zenon
  <2>3. d \in cuts /\ 1 < d /\ \A k \in cuts : ~(1 < k /\ k < d)
    BY <1>2, <1>4, <2>1, <2>2
  <2>4. <<1, d>> \in cuts \X cuts /\ next(<<1, d>>[1], <<1, d>>[2])
    BY <1>4, <2>3
  <2> HIDE DEF next, L
  <2>5. SubSeq(re, <<1, d>>[1] + 1, <<1, d>>[2] - 1) \in Alternatives(re, 1)
    BY <1>3, <2>4, Zenon
  <2>. QED  BY <2>5
<1>6. ASSUME NEW a \in Alternatives(re, 1) PROVE a \in Regexes /\ Len(a) < n
  <2>1. PICK c \in cuts \X cuts : next(c[1], c[2]) /\ a = SubSeq(re, c[1] + 1, c[2] - 1)
    BY <1>3
  <2> DEFINE i == c[1] + 1
             j == c[2] - 1
  <2>2. c[1] \in 1..close /\ c[2] \in 1..close /\ c[1] < c[2]
    BY <1>4, <2>1
  <2>3. i \in Nat /\ j \in Nat /\ i >= 2 /\ j <= close - 1 /\ j <= n
    BY <1>1, <1>2, <2>2
  <2>4. a = SubSeq(re, i, j)
    BY <2>1
  <2> HIDE DEF i, j
  <2>5. a \in Seq(Tokens) /\ Len(a) = IF i <= j THEN j - i + 1 ELSE 0
    BY <1>1, <2>3, <2>4, SliceIsString
  <2>. QED  BY <1>1, <1>2, <2>3, <2>5 DEF Regexes
<1>. QED  BY <1>5, <1>6 DEF n

\* The run of a regex is as long as the longest head of it that is in the run.
LEMMA RunIs ==
  ASSUME NEW re \in Regexes, NEW c, c = Cardinality({n \in 1 .. Len(re) : InRun(re, n)})
  PROVE  /\ LiteralRun(re) = SubSeq(re, 1, c)
         /\ c \in 0..Len(re) /\ InRun(re, c)
<1> DEFINE n == Len(re)
           R == {k \in 1..n : InRun(re, k)}
<1>0. c = Cardinality(R)
  OBVIOUS
<1>1. n \in Nat /\ re \in Seq(Tokens)
  BY DEF Regexes
<1>2. \A k \in R : 1..k \subseteq R
  BY <1>1 DEF InRun
<1>3. c \in 0..n
  <2>1. IsFiniteSet(1..n) /\ Cardinality(1..n) = n
    BY <1>1, FS_Interval, SMTT(30)
  <2>2. R \in SUBSET (1..n)
    OBVIOUS
  <2> HIDE DEF R, n
  <2>3. IsFiniteSet(R) /\ c <= n
    BY <1>0, <2>1, <2>2, FS_Subset
  <2>4. c \in Nat
    BY <1>0, <2>3, FS_CardinalityType
  <2>. QED  BY <1>1, <2>3, <2>4
<1>4. c > 0 => c \in R
  <2>1. SUFFICES ASSUME c > 0 PROVE c \in R
    OBVIOUS
  <2>2. R \in SUBSET (1..n) /\ R # {}
    <3> HIDE DEF n
    <3>. QED  BY <1>0, <2>1, FS_EmptySet
  <2> DEFINE m == Max(R)
  <2>3. m \in R /\ \A y \in R : m >= y
    <3> HIDE DEF R, n
    <3>. QED  BY <1>1, <2>2, GreatestIs
  <2> HIDE DEF m
  <2>5. m \in 1..n /\ R = 1..m
    <3>1. m \in 1..n
      BY <2>3
    <3>2. 1..m \subseteq R
      BY <1>2, <2>3
    <3>3. R \subseteq 1..m
      BY <1>1, <2>2, <2>3, <3>1
    <3>. QED  BY <3>1, <3>2, <3>3
  <2>6. c = m
    <3> HIDE DEF R, n
    <3>1. Cardinality(1..m) = m
      BY <1>1, <2>5, FS_Interval
    <3>. QED  BY <1>0, <2>5, <3>1
  <2>. QED  BY <2>3, <2>6
<1>5. InRun(re, c)
  <2>1. CASE c = 0
    BY <2>1 DEF InRun
  <2>2. CASE c > 0
    BY <1>4, <2>2
  <2>. QED  BY <1>1, <1>3, <2>1, <2>2
<1>6. LiteralRun(re) = SubSeq(re, 1, c)
  BY <1>0 DEF LiteralRun
<1>. QED  BY <1>3, <1>5, <1>6

\* So it is literals.
LEMMA RunIsString ==
  ASSUME NEW re \in Regexes
  PROVE  LiteralRun(re) \in Seq(Literals)
<1> DEFINE c == Cardinality({n \in 1 .. Len(re) : InRun(re, n)})
<1>1. LiteralRun(re) = SubSeq(re, 1, c) /\ c \in 0..Len(re) /\ InRun(re, c)
  BY RunIs
<1> HIDE DEF c
<1>2. re \in Seq(Tokens) /\ Len(re) \in Nat
  BY DEF Regexes
<1>3. c \in Nat /\ c <= Len(re)
  BY <1>1, <1>2
<1>4. \A k \in 1..c : re[k] \in Literals
  BY <1>1 DEF InRun
<1>5. SubSeq(re, 1, c) \in [1..c -> Literals]
  <2>1. SubSeq(re, 1, c) = [k \in 1..c |-> re[k]]
    BY <1>2, <1>3
  <2>. QED  BY <1>4, <2>1
<1>. QED  BY <1>1, <1>3, <1>5, FunctionIsString

\* A head is taken or left, as it is.
LEMMA AtLeastTwoIsString ==
  ASSUME NEW A, NEW s \in Seq(A)
  PROVE  AtLeastTwo(s) \in Seq(A)
  BY DEF AtLeastTwo

\* The longest common prefix of strings is a string, and a prefix of each of them.
LEMMA CommonPrefixIsString ==
  ASSUME NEW A, NEW S, S # {}, S \subseteq Seq(A)
  PROVE  /\ LongestCommonPrefix(S) \in Seq(A)
         /\ \A s \in S : IsPrefix(LongestCommonPrefix(S), s)
<1> DEFINE C == CommonPrefixes(S)
<1>1. PICK t \in S : t \in Seq(A)
  OBVIOUS
<1>2. ASSUME NEW p \in C
      PROVE  p \in Seq(A) /\ Len(p) \in Nat /\ Len(p) <= Len(t)
  <2>1. IsPrefix(p, t) /\ \E s \in S : p \in Prefixes(s)
    BY DEF CommonPrefixes
  <2>2. PICK s \in S : p \in Prefixes(s)
    BY <2>1
  <2>3. s \in Seq(A)
    OBVIOUS
  <2>4. PICK k \in 0..Len(s) : p = SubSeq(s, 1, k)
    BY <2>2 DEF Prefixes
  <2>5. p \in Seq(A)
    BY <2>3, <2>4, SliceIsString
  <2>. QED  BY <2>1, <2>5 DEF IsPrefix
<1>3. << >> \in C
  <2>1. ASSUME NEW s \in S PROVE << >> \in Prefixes(s) /\ IsPrefix(<< >>, s)
    <3>1. s \in Seq(A) /\ Len(s) \in Nat /\ 0 \in 0..Len(s)
      OBVIOUS
    <3>2. SubSeq(s, 1, 0) = << >>
      BY <3>1
    <3>3. << >> \in Prefixes(s)
      BY <3>1, <3>2 DEF Prefixes
    <3>4. IsPrefix(<< >>, s)
      BY <3>1, <3>2 DEF IsPrefix
    <3>. QED  BY <3>3, <3>4
  <2>. QED  BY <1>1, <2>1 DEF CommonPrefixes
<1>4. \E p \in C : \A q \in C : Len(q) <= Len(p)
  <2> DEFINE N == {Len(p) : p \in C}
             m == Len(t)
  <2>1. N \in SUBSET Nat /\ N # {} /\ m \in Nat /\ \A y \in N : y <= m
    <3>1. N # {}
      BY <1>3
    <3>2. m \in Nat
      BY <1>1
    <3>. QED  BY <1>2, <3>1, <3>2
  <2>2. Max(N) \in N /\ \A y \in N : Max(N) >= y
    <3> HIDE DEF N, m
    <3>. QED  BY <2>1, BoundedMax
  <2> DEFINE x == Max(N)
  <2>3. x \in N /\ \A y \in N : x >= y
    BY <2>2
  <2> HIDE DEF x
  <2>4. PICK p \in C : x = Len(p)
    BY <2>3
  <2>5. ASSUME NEW q \in C PROVE Len(q) <= Len(p)
    <3>1. Len(q) \in N
      OBVIOUS
    <3>2. x >= Len(q)
      BY <2>3, <3>1
    <3>. QED  BY <1>2, <2>4, <3>2
  <2>. QED  BY <2>5
<1>5. LongestCommonPrefix(S) = CHOOSE p \in C : \A q \in C : Len(q) <= Len(p)
  BY Zenon DEF LongestCommonPrefix
<1>7. \A p \in C : \A s \in S : IsPrefix(p, s)
  BY Zenon DEF CommonPrefixes
<1> HIDE DEF C
<1>6. LongestCommonPrefix(S) \in C
  BY <1>4, <1>5
<1>. QED  BY <1>2, <1>6, <1>7

\* One level of the walk, when g has the prefixes of the shorter regexes.
PrefixBody(g, re) ==
    IF re = <<>> THEN <<>>
    ELSE IF re[1] = "^" THEN g[Tail(re)]
    ELSE IF re[1] # "(" THEN AtLeastTwo(LiteralRun(re))
    ELSE IF Closing(re, 1) < Len(re) /\ re[Closing(re, 1) + 1] \in Optional THEN <<>>
    ELSE IF ~HasPipe(re, 1) THEN g[Tail(re)]
    ELSE IF <<>> \in {g[a] : a \in Alternatives(re, 1)} THEN <<>>
    ELSE AtLeastTwo(LongestCommonPrefix({g[a] : a \in Alternatives(re, 1)}))

\* The extraction is a chosen solution of the equation of its walk.
LEMMA ExtractionIs ==
  extract_literal_prefix = CHOOSE g : g = [re \in Regexes |-> PrefixBody(g, re)]
  BY Zenon DEF extract_literal_prefix, PrefixBody

\* The rest of a regex is shorter than the regex.
LEMMA TailShorter ==
  ASSUME NEW re \in Regexes, re # << >>
  PROVE  Tail(re) \in Regexes /\ Len(Tail(re)) < Len(re)
  BY DEF Regexes

\* One level of the walk gives literals when the shorter regexes do.
LEMMA BodyIsString ==
  ASSUME NEW re \in Regexes, NEW g,
         \A q \in Regexes : Len(q) < Len(re) => g[q] \in Seq(Literals)
  PROVE  PrefixBody(g, re) \in Seq(Literals)
<1> DEFINE S == {g[a] : a \in Alternatives(re, 1)}
<1>1. re # << >> => g[Tail(re)] \in Seq(Literals)
  BY TailShorter
<1>2. re # << >> => S # {} /\ S \subseteq Seq(Literals)
  <2>1. ASSUME re # << >>
        PROVE  Alternatives(re, 1) # {} /\ \A a \in Alternatives(re, 1) : g[a] \in Seq(Literals)
    BY <2>1, AlternativesShorter
  <2>. QED  BY <2>1
<1>3. re # << >> => AtLeastTwo(LongestCommonPrefix(S)) \in Seq(Literals)
  <2> HIDE DEF S
  <2>. QED  BY <1>2, CommonPrefixIsString, AtLeastTwoIsString
<1>4. AtLeastTwo(LiteralRun(re)) \in Seq(Literals)
  BY RunIsString, AtLeastTwoIsString
<1>5. << >> \in Seq(Literals)
  BY EmptyIsString
<1>6. PrefixBody(g, re) \in {<< >>, g[Tail(re)], AtLeastTwo(LiteralRun(re)),
                               AtLeastTwo(LongestCommonPrefix(S))}
      /\ (re = << >> => PrefixBody(g, re) = << >>)
  BY Zenon DEF PrefixBody
<1> HIDE DEF S
<1>. QED  BY <1>1, <1>3, <1>4, <1>5, <1>6

\* The body looks at shorter regexes only.
LEMMA BodyIsLocal ==
  ASSUME NEW re \in Regexes, NEW g, NEW h,
         \A q \in Regexes : Len(q) < Len(re) => g[q] = h[q]
  PROVE  PrefixBody(g, re) = PrefixBody(h, re)
<1>1. re # << >> => g[Tail(re)] = h[Tail(re)]
  BY TailShorter
<1>2. re # << >> => {g[a] : a \in Alternatives(re, 1)} = {h[a] : a \in Alternatives(re, 1)}
  <2>1. ASSUME re # << >> PROVE \A a \in Alternatives(re, 1) : g[a] = h[a]
    BY <2>1, AlternativesShorter
  <2>. QED  BY <2>1
<1>. QED  BY <1>1, <1>2, Zenon DEF PrefixBody

\* A regex has a length.
LEMMA RegexLength == \A re \in Regexes : Len(re) \in Nat
  BY DEF Regexes

\* What holds of a regex when it holds of the shorter ones holds of all.
LEMMA ShortestRegex ==
  ASSUME NEW Bad \in SUBSET Regexes, Bad # {}
  PROVE  \E q \in Bad : \A p \in Regexes : Len(p) < Len(q) => p \notin Bad
  BY ShortestString DEF Regexes

\* The values of a recursive function on regexes, one level further.
LooksShorter(rec, V) ==
  \A g, h \in [Regexes -> V] : \A re \in Regexes :
     (\A q \in Regexes : Len(q) < Len(re) => g[q] = h[q]) => rec[g][re] = rec[h][re]

\* What solves the recursion on the regexes of fewer than n tokens.
Solves(h, n, V, rec) ==
  h \in [Regexes -> V] /\ \A re \in Regexes : Len(re) < n => h[re] = rec[h][re]

\* There is one for every number of tokens.
LEMMA SolutionsExist ==
  ASSUME NEW V, NEW v \in V, NEW rec \in [[Regexes -> V] -> [Regexes -> V]], LooksShorter(rec, V)
  PROVE  \A n \in Nat : \E h : Solves(h, n, V, rec)
<1> DEFINE Bad == {n \in Nat : ~ \E h : Solves(h, n, V, rec)}
<1>1. SUFFICES ASSUME Bad # {} PROVE FALSE
  OBVIOUS
<1>2. PICK n \in Bad : \A m \in Bad : n <= m
  <2>1. Bad \in SUBSET Nat
    OBVIOUS
  <2> HIDE DEF Bad
  <2>. QED  BY <1>1, <2>1, LeastNumber, Zenon
<1>3. n \in Nat /\ \A h : ~Solves(h, n, V, rec)
  OBVIOUS
<1>4. n # 0
  <2>1. SUFFICES ASSUME n = 0 PROVE FALSE
    OBVIOUS
  <2> DEFINE h == [re \in Regexes |-> v]
  <2>2. h \in [Regexes -> V]
    OBVIOUS
  <2>3. \A re \in Regexes : ~(Len(re) < n)
    BY <2>1, RegexLength
  <2> HIDE DEF h
  <2>4. Solves(h, n, V, rec)
    BY <2>2, <2>3 DEF Solves
  <2>. QED  BY <1>3, <2>4
<1>5. n - 1 \in Nat /\ ~(n <= n - 1)
  BY <1>3, <1>4
<1>6. PICK g : Solves(g, n - 1, V, rec)
  BY <1>2, <1>5
<1> DEFINE h == rec[g]
<1>7. g \in [Regexes -> V] /\ h \in [Regexes -> V]
  BY <1>6 DEF Solves
<1>8. ASSUME NEW re \in Regexes, Len(re) < n
      PROVE  h[re] = rec[h][re]
  <2>1. ASSUME NEW q \in Regexes, Len(q) < Len(re) PROVE g[q] = h[q]
    <3>1. Len(q) < n - 1
      BY <1>3, <1>8, <2>1, RegexLength
    <3>. QED  BY <1>6, <3>1 DEF Solves
  <2> HIDE DEF h
  <2>2. rec[g][re] = rec[h][re]
    BY <1>7, <2>1 DEF LooksShorter
  <2>. QED  BY <2>2 DEF h
<1> HIDE DEF h
<1>9. Solves(h, n, V, rec)
  BY <1>7, <1>8 DEF Solves
<1>. QED  BY <1>3, <1>9

\* Two of them agree wherever both solve the recursion.
LEMMA SolutionsAgree ==
  ASSUME NEW V, NEW rec, LooksShorter(rec, V), NEW n \in Nat, NEW m \in Nat, NEW g, NEW h,
         Solves(g, n, V, rec), Solves(h, m, V, rec),
         NEW re \in Regexes, Len(re) < n, Len(re) < m
  PROVE  g[re] = h[re]
<1> DEFINE Bad == {q \in Regexes : Len(q) < n /\ Len(q) < m /\ g[q] # h[q]}
<1>1. SUFFICES ASSUME Bad # {} PROVE FALSE
  OBVIOUS
<1>2. PICK q \in Bad : \A p \in Regexes : Len(p) < Len(q) => p \notin Bad
  <2>1. Bad \in SUBSET Regexes
    OBVIOUS
  <2> HIDE DEF Bad
  <2>. QED  BY <1>1, <2>1, ShortestRegex
<1>3. q \in Regexes /\ Len(q) < n /\ Len(q) < m /\ g[q] # h[q]
  OBVIOUS
<1>4. ASSUME NEW p \in Regexes, Len(p) < Len(q) PROVE g[p] = h[p]
  <2>1. Len(p) < n /\ Len(p) < m
    BY <1>3, <1>4, RegexLength
  <2>. QED  BY <1>2, <1>4, <2>1
<1>5. rec[g][q] = rec[h][q]
  BY <1>3, <1>4 DEF LooksShorter, Solves
<1>. QED  BY <1>3, <1>5 DEF Solves

\* A recursion on shorter regexes has a solution on all of them.
LEMMA RecursionExists ==
  ASSUME NEW V, NEW v \in V, NEW rec \in [[Regexes -> V] -> [Regexes -> V]], LooksShorter(rec, V)
  PROVE  \E f \in [Regexes -> V] : f = rec[f]
<1> DEFINE H(n) == CHOOSE h : Solves(h, n, V, rec)
           F == [re \in Regexes |-> H(Len(re) + 1)[re]]
<1>1. \A n \in Nat : Solves(H(n), n, V, rec)
  BY SolutionsExist
<1>2. \A re \in Regexes : Len(re) \in Nat /\ Len(re) + 1 \in Nat
  BY RegexLength
<1>3. F \in [Regexes -> V]
  BY <1>1, <1>2 DEF Solves
<1>4. ASSUME NEW re \in Regexes PROVE F[re] = rec[F][re]
  <2> DEFINE n == Len(re) + 1
             h == H(n)
  <2>1. n \in Nat /\ Len(re) < n /\ Len(re) \in Nat
    BY <1>2
  <2>2. Solves(h, n, V, rec)
    BY <1>1, <2>1
  <2>3. F[re] = h[re]
    OBVIOUS
  <2>4. ASSUME NEW q \in Regexes, Len(q) < Len(re) PROVE F[q] = h[q]
    <3> DEFINE m == Len(q) + 1
               k == H(m)
    <3>1. m \in Nat /\ Len(q) < m /\ Len(q) < n
      BY <1>2, <2>4
    <3>2. Solves(k, m, V, rec)
      BY <1>1, <3>1
    <3>3. F[q] = k[q]
      OBVIOUS
    <3> HIDE DEF n, m, h, k, H, F
    <3>4. k[q] = h[q]
      BY <2>1, <2>2, <3>1, <3>2, SolutionsAgree
    <3>. QED  BY <3>3, <3>4
  <2> HIDE DEF F, h
  <2>5. h[re] = rec[h][re] /\ h \in [Regexes -> V]
    BY <2>1, <2>2 DEF Solves
  <2>6. rec[F][re] = rec[h][re]
    BY <1>3, <2>4, <2>5 DEF LooksShorter
  <2>. QED  BY <2>3, <2>5, <2>6
<1> HIDE DEF F
<1>5. rec[F] \in [Regexes -> V]
  BY <1>3
<1>6. F = rec[F]
  BY <1>3, <1>4, <1>5
<1>. QED  BY <1>3, <1>6

\* The extraction is defined on every regex: the chosen function is one that walks.
LEMMA ExtractionWalks ==
  \A re \in Regexes : extract_literal_prefix[re] = PrefixBody(extract_literal_prefix, re)
<1> DEFINE V == Seq(Literals)
           rec == [g \in [Regexes -> V] |-> [re \in Regexes |-> PrefixBody(g, re)]]
           E == extract_literal_prefix
           B(g) == [re \in Regexes |-> PrefixBody(g, re)]
<1>1. rec \in [[Regexes -> V] -> [Regexes -> V]]
  <2>1. ASSUME NEW g \in [Regexes -> V], NEW re \in Regexes PROVE PrefixBody(g, re) \in V
    BY BodyIsString
  <2>. QED  BY <2>1
<1>2. \A g \in [Regexes -> V] : rec[g] = B(g)
  OBVIOUS
<1>3. LooksShorter(rec, V)
  BY BodyIsLocal DEF LooksShorter
<1>4. << >> \in V
  BY EmptyIsString
<1> HIDE DEF rec, V
<1>5. PICK F \in [Regexes -> V] : F = rec[F]
  BY <1>1, <1>3, <1>4, RecursionExists
<1>6. F = B(F)
  BY <1>2, <1>5
<1>7. E = CHOOSE g : g = B(g)
  BY ExtractionIs
<1>8. E = B(E)
  <2> HIDE DEF B, E
  <2>. QED  BY <1>6, <1>7, Zenon
<1> HIDE DEF E
<1>. QED  BY <1>8 DEF E

\* Of every regex the head that is found is literals.
LEMMA ExtractionIsString ==
  \A re \in Regexes : extract_literal_prefix[re] \in Seq(Literals)
<1> DEFINE E == extract_literal_prefix
           Bad == {q \in Regexes : E[q] \notin Seq(Literals)}
           L == {Len(q) : q \in Bad}
<1>1. SUFFICES ASSUME Bad # {} PROVE FALSE
  OBVIOUS
<1>2. L \in SUBSET Nat /\ L # {}
  BY <1>1, RegexLength
<1>3. PICK x \in L : \A y \in L : x <= y
  <2> HIDE DEF L
  <2>. QED  BY <1>2, LeastNumber, Zenon
<1>4. PICK q \in Bad : x = Len(q)
  BY <1>3
<1>5. ASSUME NEW p \in Regexes, Len(p) < Len(q) PROVE E[p] \in Seq(Literals)
  <2>1. SUFFICES ASSUME p \in Bad PROVE FALSE
    OBVIOUS
  <2>2. Len(p) \in L
    BY <2>1
  <2>3. Len(p) \in Nat /\ Len(q) \in Nat /\ Len(q) <= Len(p)
    BY <1>3, <1>4, <2>2, RegexLength
  <2>. QED  BY <1>5, <2>3
<1>6. q \in Regexes /\ E[q] \notin Seq(Literals)
  OBVIOUS
<1>7. E[q] = PrefixBody(E, q)
  BY <1>6, ExtractionWalks
<1> HIDE DEF E, Bad, L
<1>8. PrefixBody(E, q) \in Seq(Literals)
  BY <1>5, <1>6, BodyIsString
<1>. QED  BY <1>6, <1>7, <1>8

--------------------------------------------------------------------------------
\* What a regex matches.

\* And of one with a pipe, the two sides of the pipe that is chosen.
Pipe(re)  == CHOOSE k \in OuterPipes(re) : TRUE
Left(re)  == SubSeq(re, 1, Pipe(re) - 1)
Right(re) == SubSeq(re, Pipe(re) + 1, Len(re))

\* One level of what a regex matches, when g has it for the shorter ones.
Once(g, re) == IF re[1] \in {"(", "(?"} THEN g[SubSeq(re, 2, FirstEnd(re) - 1)]
               ELSE IF re[1] = "^" THEN {<<>>}
               ELSE {<<re[1]>>}

WordsBody(g, re) ==
  IF re = <<>> THEN {<<>>}
  ELSE IF OuterPipes(re) # {} THEN g[Left(re)] \cup g[Right(re)]
  ELSE Joined(Repeated(Once(g, re), Times(Follower(re))), g[Rest(re)])

\* The words are a chosen solution of that equation.
LEMMA WordsIs == Words = CHOOSE g : g = [re \in Regexes |-> WordsBody(g, re)]
  BY Zenon DEF Words, WordsBody, Once, Pipe, Left, Right

\* A set of words over all tokens.
Language == SUBSET Seq(Tokens)

\* The parts of a regex are regexes, shorter ones.
LEMMA PartsShorter ==
  ASSUME NEW re \in Regexes, re # << >>
  PROVE  /\ re[1] \in Tokens
         /\ Rest(re) \in Regexes /\ Len(Rest(re)) < Len(re)
         /\ re[1] \in {"(", "(?"} => /\ SubSeq(re, 2, FirstEnd(re) - 1) \in Regexes
                                     /\ Len(SubSeq(re, 2, FirstEnd(re) - 1)) < Len(re)
<1> DEFINE n == Len(re)
           c == FirstEnd(re)
           i == IF Follower(re) \in Quantifier THEN c + 2 ELSE c + 1
<1>1. n \in Nat /\ n > 0 /\ re \in Seq(Tokens) /\ re[1] \in Tokens
  BY DEF Regexes
<1>2. c \in Nat /\ c >= 1 /\ (c <= n \/ c = 2)
  <2>1. FirstEnd(re) = IF re[1] \in {"(", "(?"} THEN Closing(re, 1) ELSE 1
    BY Zenon DEF FirstEnd
  <2>. QED  BY <1>1, <2>1, ClosingIs
<1>3. i \in Nat /\ i >= 2
  BY <1>2
<1>4. Rest(re) = SubSeq(re, i, n)
  BY DEF Rest
<1> HIDE DEF i
<1>5. Rest(re) \in Seq(Tokens) /\ Len(Rest(re)) = IF i <= n THEN n - i + 1 ELSE 0
  BY <1>1, <1>3, <1>4, SliceIsString
<1>6. Len(Rest(re)) < n
  BY <1>1, <1>3, <1>5
<1>7. ASSUME re[1] \in {"(", "(?"}
      PROVE  SubSeq(re, 2, c - 1) \in Seq(Tokens) /\ Len(SubSeq(re, 2, c - 1)) < n
  <2>1. c > 1
    BY <1>7, ClosingIs DEF FirstEnd
  <2>2. c - 1 \in Nat /\ c - 1 <= n
    BY <1>1, <1>2, <2>1
  <2>3. /\ SubSeq(re, 2, c - 1) \in Seq(Tokens)
        /\ Len(SubSeq(re, 2, c - 1)) = IF 2 <= c - 1 THEN (c - 1) - 2 + 1 ELSE 0
    <3> HIDE DEF c
    <3>. QED  BY <1>1, <2>2, SliceIsString
  <2>. QED  BY <1>1, <1>2, <2>2, <2>3
<1>. QED  BY <1>1, <1>5, <1>6, <1>7 DEF Regexes

\* What is left and right of an outer pipe is shorter than the regex.
LEMMA SidesShorter ==
  ASSUME NEW re \in Regexes, OuterPipes(re) # {}
  PROVE  /\ Pipe(re) \in OuterPipes(re)
         /\ Pipe(re) \in 1..Len(re)
         /\ Left(re) \in Regexes /\ Len(Left(re)) = Pipe(re) - 1 /\ Len(Left(re)) < Len(re)
         /\ Right(re) \in Regexes /\ Len(Right(re)) = Len(re) - Pipe(re) /\ Len(Right(re)) < Len(re)
<1> DEFINE n == Len(re)
           k == Pipe(re)
<1>1. n \in Nat /\ re \in Seq(Tokens)
  BY DEF Regexes
<1>2. k \in OuterPipes(re)
  <2> DEFINE P == OuterPipes(re)
  <2>1. k = CHOOSE x \in P : TRUE
    BY Zenon DEF Pipe
  <2>2. P # {}
    OBVIOUS
  <2> HIDE DEF P, k
  <2>3. k \in P
    BY <2>1, <2>2
  <2>. QED  BY <2>3 DEF P
<1>3. k \in 1..n
  BY <1>2 DEF OuterPipes
<1>4. Left(re) = SubSeq(re, 1, k - 1) /\ Right(re) = SubSeq(re, k + 1, n)
  BY DEF Left, Right
<1> HIDE DEF k
<1>5. Left(re) \in Seq(Tokens) /\ Len(Left(re)) = k - 1
  <2>1. k - 1 \in Nat /\ k - 1 <= n
    BY <1>1, <1>3
  <2>2. /\ Left(re) \in Seq(Tokens)
        /\ Len(Left(re)) = IF 1 <= k - 1 THEN (k - 1) - 1 + 1 ELSE 0
    BY <1>1, <1>4, <2>1, SliceIsString
  <2>. QED  BY <1>3, <2>1, <2>2
<1>6. Right(re) \in Seq(Tokens) /\ Len(Right(re)) = n - k
  <2>1. k + 1 \in Nat /\ k + 1 >= 1
    BY <1>1, <1>3
  <2>2. /\ Right(re) \in Seq(Tokens)
        /\ Len(Right(re)) = IF k + 1 <= n THEN n - (k + 1) + 1 ELSE 0
    BY <1>1, <1>4, <2>1, SliceIsString
  <2>. QED  BY <1>1, <1>3, <2>1, <2>2
<1>7. k - 1 < n /\ n - k < n
  BY <1>1, <1>3
<1>. QED  BY <1>2, <1>3, <1>5, <1>6, <1>7 DEF k, Regexes

\* Words that follow each other are words.
LEMMA JoinedIs ==
  ASSUME NEW A \in Language, NEW B \in Language
  PROVE  Joined(A, B) \in Language /\ \A w \in Joined(A, B) : \E a \in A, b \in B : w = a \o b
<1>1. \A a \in A, b \in B : a \o b \in Seq(Tokens)
  <2>1. ASSUME NEW a \in A, NEW b \in B PROVE a \o b \in Seq(Tokens)
    <3>1. a \in Seq(Tokens) /\ b \in Seq(Tokens)
      BY DEF Language
    <3>. QED  BY <3>1
  <2>. QED  BY <2>1
<1>2. Joined(A, B) = {a \o b : a \in A, b \in B}
  BY DEF Joined
<1>3. \A w \in Joined(A, B) : \E a \in A, b \in B : w = a \o b
  BY <1>2
<1>4. \A w \in Joined(A, B) : w \in Seq(Tokens)
  BY <1>1, <1>3, Zenon
<1>. QED  BY <1>3, <1>4 DEF Language

\* What repeats words is words.
LEMMA RepeatedIs ==
  ASSUME NEW A \in Language, NEW times
  PROVE  Repeated(A, times) \in Language
<1>1. Joined(A, A) \in Language /\ {<< >>} \in Language /\ {} \in Language
  BY JoinedIs, EmptyIsString DEF Language
<1>. QED  BY <1>1 DEF Repeated, Language

\* One level gives words when the shorter regexes do.
LEMMA WordsBodyIsLanguage ==
  ASSUME NEW re \in Regexes, NEW g, \A q \in Regexes : Len(q) < Len(re) => g[q] \in Language
  PROVE  WordsBody(g, re) \in Language
<1>1. CASE re = << >>
  BY <1>1, EmptyIsString DEF WordsBody, Language
<1>2. CASE OuterPipes(re) # {}
  <2>1. re # << >>
    BY <1>2 DEF OuterPipes
  <2>2. WordsBody(g, re) = g[Left(re)] \cup g[Right(re)]
    BY <1>2, <2>1, Zenon DEF WordsBody
  <2>3. g[Left(re)] \in Language /\ g[Right(re)] \in Language
    BY <1>2, SidesShorter
  <2>. QED  BY <2>2, <2>3 DEF Language
<1>3. CASE re # << >> /\ OuterPipes(re) = {}
  <2>1. WordsBody(g, re) = Joined(Repeated(Once(g, re), Times(Follower(re))), g[Rest(re)])
    BY <1>3, Zenon DEF WordsBody
  <2>2. Once(g, re) \in Language
    <3>1. CASE re[1] \in {"(", "(?"}
      <4>1. Once(g, re) = g[SubSeq(re, 2, FirstEnd(re) - 1)]
        BY <3>1, Zenon DEF Once
      <4>. QED  BY <1>3, <3>1, <4>1, PartsShorter
    <3>2. CASE re[1] \notin {"(", "(?"}
      <4>1. Once(g, re) \in {{<< >>}, {<<re[1]>>}}
        BY <3>2, Zenon DEF Once
      <4>2. re[1] \in Tokens
        BY <1>3, PartsShorter
      <4>3. <<re[1]>> \in Seq(Tokens) /\ << >> \in Seq(Tokens)
        BY <4>2, EmptyIsString
      <4>4. {<<re[1]>>} \in Language /\ {<< >>} \in Language
        BY <4>3, Zenon DEF Language
      <4>. QED  BY <4>1, <4>4, Zenon
    <3>. QED  BY <3>1, <3>2
  <2>3. g[Rest(re)] \in Language
    BY <1>3, PartsShorter
  <2>. QED  BY <2>1, <2>2, <2>3, RepeatedIs, JoinedIs
<1>. QED  BY <1>1, <1>2, <1>3

\* And looks at shorter regexes only.
LEMMA WordsBodyIsLocal ==
  ASSUME NEW re \in Regexes, NEW g, NEW h,
         \A q \in Regexes : Len(q) < Len(re) => g[q] = h[q]
  PROVE  WordsBody(g, re) = WordsBody(h, re)
<1>1. CASE re = << >>
  BY <1>1 DEF WordsBody
<1>2. CASE OuterPipes(re) # {}
  <2>1. g[Left(re)] = h[Left(re)] /\ g[Right(re)] = h[Right(re)]
    BY <1>2, SidesShorter
  <2>. QED  BY <1>2, <2>1, Zenon DEF WordsBody
<1>3. CASE re # << >> /\ OuterPipes(re) = {}
  <2>1. g[Rest(re)] = h[Rest(re)]
    BY <1>3, PartsShorter
  <2>2. re[1] \in {"(", "(?"} => g[SubSeq(re, 2, FirstEnd(re) - 1)] = h[SubSeq(re, 2, FirstEnd(re) - 1)]
    BY <1>3, PartsShorter
  <2>3. Once(g, re) = Once(h, re)
    BY <2>2, Zenon DEF Once
  <2>. QED  BY <1>3, <2>1, <2>3, Zenon DEF WordsBody
<1>. QED  BY <1>1, <1>2, <1>3

\* So what a regex matches is defined for every regex, and is words.
LEMMA WordsWalk ==
  \A re \in Regexes : Words[re] = WordsBody(Words, re) /\ Words[re] \in Language
<1> DEFINE V == Language
           rec == [g \in [Regexes -> V] |-> [re \in Regexes |-> WordsBody(g, re)]]
           W == Words
           B(g) == [re \in Regexes |-> WordsBody(g, re)]
<1>1. rec \in [[Regexes -> V] -> [Regexes -> V]]
  <2>1. ASSUME NEW g \in [Regexes -> V], NEW re \in Regexes PROVE WordsBody(g, re) \in V
    BY WordsBodyIsLanguage
  <2>. QED  BY <2>1
<1>2. \A g \in [Regexes -> V] : rec[g] = B(g)
  OBVIOUS
<1>3. LooksShorter(rec, V)
  BY WordsBodyIsLocal DEF LooksShorter
<1>4. {} \in V
  BY DEF Language
<1> HIDE DEF rec, V
<1>5. PICK F \in [Regexes -> V] : F = rec[F]
  BY <1>1, <1>3, <1>4, RecursionExists
<1>6. F = B(F)
  BY <1>2, <1>5
<1>7. W = CHOOSE g : g = B(g)
  BY WordsIs
<1>8. W = B(W)
  <2> HIDE DEF B, W
  <2>. QED  BY <1>6, <1>7, Zenon
<1> HIDE DEF W
<1>9. \A re \in Regexes : W[re] = WordsBody(W, re)
  BY <1>8
<1> DEFINE Bad == {re \in Regexes : W[re] \notin Language}
<1>10. Bad = {}
  <2>1. SUFFICES ASSUME Bad # {} PROVE FALSE
    OBVIOUS
  <2>2. PICK q \in Bad : \A p \in Regexes : Len(p) < Len(q) => p \notin Bad
    <3>1. Bad \in SUBSET Regexes
      OBVIOUS
    <3> HIDE DEF Bad
    <3>. QED  BY <2>1, <3>1, ShortestRegex
  <2>3. q \in Regexes /\ W[q] \notin Language
    OBVIOUS
  <2>4. \A p \in Regexes : Len(p) < Len(q) => W[p] \in Language
    BY <2>2
  <2> HIDE DEF Bad
  <2>5. WordsBody(W, q) \in Language
    BY <2>3, <2>4, WordsBodyIsLanguage
  <2>. QED  BY <1>9, <2>3, <2>5
<1>. QED  BY <1>9, <1>10 DEF W

--------------------------------------------------------------------------------
\* How deep a token lies.

\* What a token adds to the depth of the tokens after it.
Level(t) == IF t \in {"(", "(?"} THEN 1 ELSE IF t = ")" THEN -1 ELSE 0

\* One more index with a property is one more in their number.
LEMMA OneMore ==
  ASSUME NEW j \in Nat, NEW S \in SUBSET (1..j), NEW T, T = S \/ T = S \cup {j + 1}
  PROVE  /\ Cardinality(S) \in Nat
         /\ Cardinality(T) = Cardinality(S) + (IF j + 1 \in T THEN 1 ELSE 0)
<1>1. IsFiniteSet(1..j)
  BY FS_Interval
<1>2. IsFiniteSet(S)
  BY <1>1, FS_Subset
<1>3. Cardinality(S) \in Nat
  BY <1>2, FS_CardinalityType
<1>4. j + 1 \notin S
  OBVIOUS
<1>5. CASE T = S
  BY <1>3, <1>4, <1>5
<1>6. CASE T = S \cup {j + 1}
  <2>1. Cardinality(T) = Cardinality(S) + 1
    BY <1>2, <1>4, <1>6, FS_AddElement
  <2>. QED  BY <1>3, <1>6, <2>1
<1>. QED  BY <1>3, <1>5, <1>6

\* One token further the depth changes by the level of that token.
LEMMA DepthStep ==
  ASSUME NEW re, NEW j \in Nat
  PROVE  Depth(re, 1, j) \in Int /\ Depth(re, 1, j + 1) = Depth(re, 1, j) + Level(re[j + 1])
<1> DEFINE O(m) == {k \in 1..m : re[k] \in {"(", "(?"}}
           C(m) == {k \in 1..m : re[k] = ")"}
<1>1. O(j) \in SUBSET (1..j) /\ C(j) \in SUBSET (1..j)
  OBVIOUS
<1>2. 1..j + 1 = (1..j) \cup {j + 1}
  OBVIOUS
<1>3. /\ O(j + 1) = O(j) \cup (IF re[j + 1] \in {"(", "(?"} THEN {j + 1} ELSE {})
      /\ C(j + 1) = C(j) \cup (IF re[j + 1] = ")" THEN {j + 1} ELSE {})
  BY <1>2
<1>4. /\ j + 1 \in O(j + 1) <=> re[j + 1] \in {"(", "(?"}
      /\ j + 1 \in C(j + 1) <=> re[j + 1] = ")"
  OBVIOUS
<1>5. /\ Depth(re, 1, j) = Cardinality(O(j)) - Cardinality(C(j))
      /\ Depth(re, 1, j + 1) = Cardinality(O(j + 1)) - Cardinality(C(j + 1))
  BY Zenon DEF Depth
<1> DEFINE a == O(j)
           b == O(j + 1)
           c == C(j)
           d == C(j + 1)
<1>6. b = a \/ b = a \cup {j + 1}
  BY <1>3
<1>7. d = c \/ d = c \cup {j + 1}
  BY <1>3
<1>8. /\ a \in SUBSET (1..j) /\ c \in SUBSET (1..j)
      /\ j + 1 \in b <=> re[j + 1] \in {"(", "(?"}
      /\ j + 1 \in d <=> re[j + 1] = ")"
      /\ Depth(re, 1, j) = Cardinality(a) - Cardinality(c)
      /\ Depth(re, 1, j + 1) = Cardinality(b) - Cardinality(d)
  BY <1>1, <1>4, <1>5
<1> HIDE DEF a, b, c, d
<1>9. /\ Cardinality(a) \in Nat
      /\ Cardinality(b) = Cardinality(a) + (IF j + 1 \in b THEN 1 ELSE 0)
  BY <1>6, <1>8, OneMore
<1>10. /\ Cardinality(c) \in Nat
       /\ Cardinality(d) = Cardinality(c) + (IF j + 1 \in d THEN 1 ELSE 0)
  BY <1>7, <1>8, OneMore
<1>. QED  BY <1>8, <1>9, <1>10 DEF Level

\* Before the first token it is 0.
LEMMA DepthZero == \A re : Depth(re, 1, 0) = 0
<1>1. SUFFICES ASSUME NEW re PROVE Depth(re, 1, 0) = 0
  OBVIOUS
<1>2. /\ {k \in 1..0 : re[k] \in {"(", "(?"}} = {}
      /\ {k \in 1..0 : re[k] = ")"} = {}
  OBVIOUS
<1>3. Depth(re, 1, 0) = Cardinality({}) - Cardinality({})
  BY <1>2 DEF Depth
<1>. QED  BY <1>3, FS_EmptySet

\* It is a number everywhere.
LEMMA DepthIsInt == \A re : \A j \in Nat : Depth(re, 1, j) \in Int
  BY DepthStep

\* The depth of a token in a part of a regex is that in the regex, less that of the
\* token before the part.
LEMMA DepthWithin ==
  ASSUME NEW s \in Regexes, NEW t \in Regexes, NEW d \in Nat, NEW n \in Nat, \A k \in 1..n : s[k] = t[d + k]
  PROVE  \A k \in 0..n : Depth(t, 1, d + k) = Depth(t, 1, d) + Depth(s, 1, k)
<1> DEFINE Bad == {k \in 0..n : Depth(t, 1, d + k) # Depth(t, 1, d) + Depth(s, 1, k)}
<1>1. SUFFICES ASSUME Bad # {} PROVE FALSE
  OBVIOUS
<1>2. PICK k \in Bad : \A j \in Bad : k <= j
  <2>1. Bad \in SUBSET Nat
    OBVIOUS
  <2> HIDE DEF Bad
  <2>. QED  BY <1>1, <2>1, LeastNumber, Zenon
<1>3. k \in 0..n /\ k \in Nat /\ Depth(t, 1, d + k) # Depth(t, 1, d) + Depth(s, 1, k)
  OBVIOUS
<1>4. Depth(t, 1, d) \in Int
  BY DepthIsInt
<1>5. k # 0
  <2>1. SUFFICES ASSUME k = 0 PROVE FALSE
    OBVIOUS
  <2>2. Depth(s, 1, k) = 0 /\ d + k = d
    BY <2>1, DepthZero
  <2>. QED  BY <1>3, <1>4, <2>2
<1> DEFINE j == k - 1
<1>6. j \in 0..n /\ j \in Nat /\ ~(k <= j) /\ k = j + 1 /\ d + k = (d + j) + 1 /\ d + j \in Nat
      /\ k \in 1..n
  BY <1>3, <1>5
<1>7. Depth(t, 1, d + j) = Depth(t, 1, d) + Depth(s, 1, j)
  <2>1. j \notin Bad
    BY <1>2, <1>6
  <2>. QED  BY <1>6, <2>1
<1> HIDE DEF Bad, j
<1>8. Depth(s, 1, j) \in Int /\ Depth(s, 1, k) = Depth(s, 1, j) + Level(s[k])
  BY <1>6, DepthStep
<1>9. Depth(t, 1, d + k) = Depth(t, 1, d + j) + Level(t[d + k])
  BY <1>6, DepthStep
<1>10. s[k] = t[d + k]
  BY <1>6
<1>11. Level(s[k]) \in Int
  BY DEF Level
<1>. QED  BY <1>3, <1>4, <1>7, <1>8, <1>9, <1>10, <1>11

\* What a slice of a regex is: the m tokens after the first i.
Slice(re, i, m) == SubSeq(re, i + 1, i + m)

\* A slice is a regex, as long as it should be.
LEMMA SliceIs ==
  ASSUME NEW re \in Regexes, NEW i \in Nat, NEW m \in Nat, i + m <= Len(re)
  PROVE  /\ Slice(re, i, m) \in Regexes /\ Len(Slice(re, i, m)) = m
         /\ \A k \in 1..m : Slice(re, i, m)[k] = re[i + k]
<1> DEFINE s == SubSeq(re, i + 1, i + m)
<1>0. s = Slice(re, i, m)
  BY DEF Slice
<1>1. re \in Seq(Tokens) /\ Len(re) \in Nat
  BY DEF Regexes
<1>2. \A k \in i + 1..i + m : re[k] \in Tokens
  <2>1. \A k \in 1..Len(re) : re[k] \in Tokens
    BY <1>1, ElementOfSeq
  <2>2. \A k \in i + 1..i + m : k \in 1..Len(re)
    BY <1>1
  <2>. QED  BY <2>1, <2>2
<1>3. /\ s \in Seq(Tokens)
      /\ Len(s) = IF i + 1 <= i + m THEN (i + m) - (i + 1) + 1 ELSE 0
      /\ \A k \in 1..(i + m) - (i + 1) + 1 : s[k] = re[(i + 1) + k - 1]
  <2> DEFINE p == i + 1
             q == i + m
  <2>1. p \in Int /\ q \in Int /\ \A k \in p..q : re[k] \in Tokens
    BY <1>2
  <2> HIDE DEF p, q
  <2>2. /\ SubSeq(re, p, q) \in Seq(Tokens)
        /\ Len(SubSeq(re, p, q)) = IF p <= q THEN q - p + 1 ELSE 0
        /\ \A k \in 1..q - p + 1 : SubSeq(re, p, q)[k] = re[p + k - 1]
    BY <2>1, SubSeqProperties
  <2>. QED  BY <2>2 DEF p, q
<1>4. Len(s) = m
  BY <1>3
<1>5. ASSUME NEW k \in 1..m PROVE s[k] = re[i + k]
  <2>1. k \in 1..(i + m) - (i + 1) + 1 /\ (i + 1) + k - 1 = i + k
    OBVIOUS
  <2>. QED  BY <1>3, <2>1
<1> HIDE DEF s
<1>. QED  BY <1>0, <1>3, <1>4, <1>5 DEF Regexes

\* The outer pipes of a part of a regex are the pipes that lie as deep as its start.
LEMMA PipesWithin ==
  ASSUME NEW s \in Regexes, NEW t \in Regexes, NEW d \in Nat,
         \A k \in 1..Len(s) : s[k] = t[d + k]
  PROVE  \A k \in 1..Len(s) : k \in OuterPipes(s) <=>
            t[d + k] = "|" /\ Depth(t, 1, d + k) = Depth(t, 1, d)
<1>1. Len(s) \in Nat
  BY RegexLength
<1>2. \A k \in 0..Len(s) : Depth(t, 1, d + k) = Depth(t, 1, d) + Depth(s, 1, k)
  <2> DEFINE n == Len(s)
  <2>1. n \in Nat /\ \A k \in 1..n : s[k] = t[d + k]
    BY <1>1
  <2> HIDE DEF n
  <2>2. \A k \in 0..n : Depth(t, 1, d + k) = Depth(t, 1, d) + Depth(s, 1, k)
    BY <2>1, DepthWithin
  <2>. QED  BY <2>2 DEF n
<1>3. SUFFICES ASSUME NEW k \in 1..Len(s)
               PROVE  k \in OuterPipes(s) <=> t[d + k] = "|" /\ Depth(t, 1, d + k) = Depth(t, 1, d)
  OBVIOUS
<1>4. Depth(t, 1, d) \in Int /\ Depth(s, 1, k) \in Int
  BY <1>1, DepthIsInt
<1>5. Depth(t, 1, d + k) = Depth(t, 1, d) + Depth(s, 1, k)
  BY <1>1, <1>2
<1>6. Depth(s, 1, k) = 0 <=> Depth(t, 1, d + k) = Depth(t, 1, d)
  BY <1>4, <1>5
<1>7. k \in OuterPipes(s) <=> s[k] = "|" /\ Depth(s, 1, k) = 0
  BY DEF OuterPipes
<1>. QED  BY <1>6, <1>7

\* The pipes outside all groups cut a regex into parts.
Adjacent(re, c, d) ==
  /\ c \in OuterPipes(re) \cup {0} /\ d \in OuterPipes(re) \cup {Len(re) + 1}
  /\ c < d /\ \A k \in OuterPipes(re) : ~(c < k /\ k < d)

Part(re, c, d) == SubSeq(re, c + 1, d - 1)

\* What is between two outer pipes, or the ends of the regex, is a regex.
LEMMA PartIs ==
  ASSUME NEW re \in Regexes, NEW c, NEW d, Adjacent(re, c, d)
  PROVE  /\ c \in 0..Len(re) /\ d \in 1..Len(re) + 1 /\ c < d
         /\ Part(re, c, d) \in Regexes /\ Len(Part(re, c, d)) = d - c - 1
         /\ \A k \in 1..d - c - 1 : Part(re, c, d)[k] = re[c + k]
         /\ OuterPipes(Part(re, c, d)) = {}
<1> DEFINE n == Len(re)
           p == Part(re, c, d)
<1>1. n \in Nat /\ OuterPipes(re) \subseteq 1..n
  BY RegexLength DEF OuterPipes
<1>2. c \in 0..n /\ d \in 1..n + 1 /\ c < d
  BY <1>1 DEF Adjacent
<1> DEFINE m == d - c - 1
<1>3. m \in Nat /\ c \in Nat /\ c + m = d - 1 /\ c + m <= n
  BY <1>1, <1>2
<1>4. p = Slice(re, c, m)
  BY <1>3 DEF Part, Slice
<1> HIDE DEF m, p, n
<1>5. p \in Regexes /\ Len(p) = m /\ \A k \in 1..m : p[k] = re[c + k]
  <2>1. m \in Nat /\ c \in Nat /\ c + m <= Len(re)
    BY <1>3 DEF n
  <2>. QED  BY <1>4, <2>1, SliceIs
<1>6. Depth(re, 1, c) = 0
  <2>1. CASE c = 0
    BY <2>1, DepthZero
  <2>2. CASE c \in OuterPipes(re)
    BY <2>2 DEF OuterPipes
  <2>. QED  BY <2>1, <2>2 DEF Adjacent
<1>7. ASSUME NEW k \in OuterPipes(p) PROVE FALSE
  <2>1. k \in 1..m
    BY <1>5 DEF OuterPipes
  <2>2. re[c + k] = "|" /\ Depth(re, 1, c + k) = 0
    BY <1>3, <1>5, <1>6, <1>7, <2>1, PipesWithin
  <2>3. c + k \in 1..n /\ c < c + k /\ c + k < d
    BY <1>1, <1>3, <1>2, <2>1 DEF m
  <2>4. c + k \in OuterPipes(re)
    BY <2>2, <2>3 DEF OuterPipes, n
  <2>. QED  BY <2>3, <2>4 DEF Adjacent
<1>8. OuterPipes(p) = {}
  BY <1>7
<1>. QED  BY <1>2, <1>5, <1>8 DEF m, n, p

\* s is what lies in re between two cuts, after the first d tokens.
Between(s, re, d) ==
  /\ d + Len(s) <= Len(re)
  /\ \A k \in 1..Len(s) : s[k] = re[d + k]
  /\ Depth(re, 1, d) = 0
  /\ d = 0 \/ d \in OuterPipes(re)
  /\ d + Len(s) = Len(re) \/ d + Len(s) + 1 \in OuterPipes(re)

\* The part between two cuts of what lies between two cuts is one of the regex itself.
LEMMA PartOfPart ==
  ASSUME NEW re \in Regexes, NEW s \in Regexes, NEW d \in Nat, Between(s, re, d),
         NEW a, NEW b, Adjacent(s, a, b)
  PROVE  /\ Adjacent(re, d + a, d + b)
         /\ Part(s, a, b) = Part(re, d + a, d + b)
<1> DEFINE n == Len(re)
           m == Len(s)
<1>0. /\ d + Len(s) <= Len(re)
      /\ \A k \in 1..Len(s) : s[k] = re[d + k]
      /\ Depth(re, 1, d) = 0
      /\ d = 0 \/ d \in OuterPipes(re)
      /\ d + Len(s) = Len(re) \/ d + Len(s) + 1 \in OuterPipes(re)
  BY DEF Between
<1>1. n \in Nat /\ m \in Nat
  BY RegexLength
<1>2. /\ a \in 0..m /\ b \in 1..m + 1 /\ a < b
      /\ Part(s, a, b) \in Regexes /\ Len(Part(s, a, b)) = b - a - 1
      /\ \A k \in 1..b - a - 1 : Part(s, a, b)[k] = s[a + k]
  BY PartIs
<1>3. OuterPipes(s) \subseteq 1..m /\ OuterPipes(re) \subseteq 1..n
  BY DEF OuterPipes
<1>4. \A k \in 1..m : k \in OuterPipes(s) <=> d + k \in OuterPipes(re)
  <2>1. SUFFICES ASSUME NEW k \in 1..m PROVE k \in OuterPipes(s) <=> d + k \in OuterPipes(re)
    OBVIOUS
  <2>2. k \in OuterPipes(s) <=> re[d + k] = "|" /\ Depth(re, 1, d + k) = 0
    <3>1. \A j \in 1..Len(s) : j \in OuterPipes(s) <=>
            re[d + j] = "|" /\ Depth(re, 1, d + j) = Depth(re, 1, d)
      BY <1>0, PipesWithin
    <3>. QED  BY <1>0, <3>1
  <2>3. d + k \in 1..n
    BY <1>0, <1>1
  <2>. QED  BY <2>2, <2>3 DEF OuterPipes
<1> HIDE DEF n, m
<1>5. d + a \in OuterPipes(re) \cup {0}
  <2>1. CASE a = 0
    BY <1>0, <2>1
  <2>2. CASE a # 0
    BY <1>2, <1>4, <2>2 DEF Adjacent
  <2>. QED  BY <2>1, <2>2
<1>6. d + b \in OuterPipes(re) \cup {n + 1}
  <2>1. CASE b = m + 1
    <3>1. d + b = d + m + 1
      BY <1>1, <2>1
    <3>. QED  BY <1>0, <1>1, <3>1 DEF m, n
  <2>2. CASE b # m + 1
    <3>1. b \in OuterPipes(s) /\ b \in 1..m
      BY <1>1, <1>2, <2>2 DEF Adjacent, m
    <3>. QED  BY <1>4, <3>1
  <2>. QED  BY <2>1, <2>2
<1>7. d + a < d + b
  BY <1>1, <1>2
<1>8. ASSUME NEW k \in OuterPipes(re), d + a < k, k < d + b PROVE FALSE
  <2>1. k - d \in 1..m /\ d + (k - d) = k /\ a < k - d /\ k - d < b
    BY <1>1, <1>2, <1>3, <1>8
  <2>2. k - d \in OuterPipes(s)
    BY <1>4, <2>1
  <2>. QED  BY <2>1, <2>2 DEF Adjacent
<1>9. Adjacent(re, d + a, d + b)
  BY <1>5, <1>6, <1>7, <1>8 DEF Adjacent, n
<1>10. /\ Part(re, d + a, d + b) \in Regexes /\ Len(Part(re, d + a, d + b)) = (d + b) - (d + a) - 1
       /\ \A k \in 1..(d + b) - (d + a) - 1 : Part(re, d + a, d + b)[k] = re[(d + a) + k]
  BY <1>9, PartIs
<1>11. (d + b) - (d + a) - 1 = b - a - 1
  BY <1>1, <1>2
<1>12. ASSUME NEW k \in 1..b - a - 1 PROVE Part(s, a, b)[k] = Part(re, d + a, d + b)[k]
  <2>1. a + k \in 1..m /\ (d + a) + k = d + (a + k)
    BY <1>1, <1>2
  <2>2. s[a + k] = re[d + (a + k)]
    BY <1>0, <2>1 DEF m
  <2>. QED  BY <1>2, <1>10, <1>11, <2>1, <2>2
<1>13. Part(s, a, b) = Part(re, d + a, d + b)
  BY <1>2, <1>10, <1>11, <1>12, SameString DEF Regexes
<1>. QED  BY <1>9, <1>13

\* A word of a regex is one of a part of it.
LEMMA WordsOfParts ==
  ASSUME NEW re \in Regexes, NEW w \in Words[re]
  PROVE  \E c, d : Adjacent(re, c, d) /\ w \in Words[Part(re, c, d)]
<1> DEFINE Found(q) == \A x \in Words[q] : \E c, d : Adjacent(q, c, d) /\ x \in Words[Part(q, c, d)]
           Bad == {q \in Regexes : ~Found(q)}
<1>1. SUFFICES Bad = {}
  OBVIOUS
<1>2. SUFFICES ASSUME Bad # {} PROVE FALSE
  OBVIOUS
<1>3. PICK q \in Bad : \A p \in Regexes : Len(p) < Len(q) => p \notin Bad
  <2>1. Bad \in SUBSET Regexes
    OBVIOUS
  <2> HIDE DEF Bad
  <2>. QED  BY <1>2, <2>1, ShortestRegex
<1>4. q \in Regexes /\ ~Found(q)
  OBVIOUS
<1>5. \A p \in Regexes : Len(p) < Len(q) => Found(p)
  BY <1>3
<1> HIDE DEF Bad
<1>6. CASE OuterPipes(q) = {}
  <2> DEFINE n == Len(q)
  <2>1. n \in Nat /\ 0 + n <= Len(q)
    BY <1>4, RegexLength
  <2>2. Adjacent(q, 0, n + 1)
    BY <1>6, <2>1 DEF Adjacent
  <2>3. Part(q, 0, n + 1) = q
    <3>1. SubSeq(q, 1, n) = q
      BY <1>4 DEF Regexes
    <3>2. 0 + 1 = 1 /\ (n + 1) - 1 = n
      BY <2>1
    <3>. QED  BY <3>1, <3>2 DEF Part
  <2>4. Found(q)
    BY <2>2, <2>3
  <2>. QED  BY <1>4, <2>4
<1>7. CASE OuterPipes(q) # {}
  <2> DEFINE k == Pipe(q)
             n == Len(q)
  <2>1. /\ k \in OuterPipes(q) /\ k \in 1..n
        /\ Left(q) \in Regexes /\ Len(Left(q)) = k - 1 /\ Len(Left(q)) < n
        /\ Right(q) \in Regexes /\ Len(Right(q)) = n - k /\ Len(Right(q)) < n
    BY <1>4, <1>7, SidesShorter
  <2>2. Words[q] = Words[Left(q)] \cup Words[Right(q)]
    <3>1. q # << >>
      BY <2>1, <1>4 DEF Regexes
    <3>. QED  BY <1>4, <1>7, <3>1, WordsWalk DEF WordsBody
  <2>3. n \in Nat /\ k \in Nat /\ k - 1 \in Nat /\ n - k \in Nat
    BY <1>4, <2>1, RegexLength
  <2>4. \A j \in 1..k - 1 : Left(q)[j] = q[0 + j]
    <3>1. Left(q) = Slice(q, 0, k - 1)
      BY <2>3 DEF Left, Slice
    <3> DEFINE m == k - 1
    <3>2. m \in Nat /\ 0 \in Nat /\ 0 + m <= Len(q)
      BY <2>1, <2>3
    <3> HIDE DEF k, n, m
    <3>3. \A j \in 1..m : Slice(q, 0, m)[j] = q[0 + j]
      BY <1>4, <3>2, SliceIs
    <3>. QED  BY <3>1, <3>3 DEF m
  <2>5. \A j \in 1..n - k : Right(q)[j] = q[k + j]
    <3>1. Right(q) = Slice(q, k, n - k)
      BY <2>3, SMTT(30) DEF Right, Slice
    <3>2. k + (n - k) <= Len(q)
      BY <2>3
    <3> HIDE DEF k, n
    <3>. QED  BY <1>4, <2>3, <3>1, <3>2, SliceIs
  <2>6. ASSUME NEW x \in Words[q]
        PROVE  \E c, d : Adjacent(q, c, d) /\ x \in Words[Part(q, c, d)]
    <3>1. CASE x \in Words[Left(q)]
      <4>1. PICK a, b : Adjacent(Left(q), a, b) /\ x \in Words[Part(Left(q), a, b)]
        BY <1>5, <2>1, <3>1
      <4> HIDE DEF k, n
      <4>2. /\ 0 \in Nat /\ 0 + Len(Left(q)) <= Len(q)
            /\ 0 + Len(Left(q)) + 1 \in OuterPipes(q)
        BY <2>1, <2>3 DEF n
      <4>3. Depth(q, 1, 0) = 0
        BY DepthZero
      <4>5. Between(Left(q), q, 0)
        BY <2>1, <2>4, <4>2, <4>3 DEF Between
      <4>4. /\ Adjacent(q, 0 + a, 0 + b)
            /\ Part(Left(q), a, b) = Part(q, 0 + a, 0 + b)
        BY <1>4, <2>1, <4>1, <4>2, <4>5, PartOfPart
      <4>. QED  BY <4>1, <4>4
    <3>2. CASE x \in Words[Right(q)]
      <4>1. PICK a, b : Adjacent(Right(q), a, b) /\ x \in Words[Part(Right(q), a, b)]
        BY <1>5, <2>1, <3>2
      <4> HIDE DEF k, n
      <4>2. /\ k \in Nat /\ k + Len(Right(q)) <= Len(q)
            /\ k + Len(Right(q)) = Len(q)
        BY <2>1, <2>3 DEF n
      <4>3. Depth(q, 1, k) = 0
        BY <2>1 DEF OuterPipes
      <4>5. Between(Right(q), q, k)
        BY <2>1, <2>5, <4>2, <4>3 DEF Between
      <4>4. /\ Adjacent(q, k + a, k + b)
            /\ Part(Right(q), a, b) = Part(q, k + a, k + b)
        BY <1>4, <2>1, <4>1, <4>2, <4>5, PartOfPart
      <4>. QED  BY <4>1, <4>4
    <3>. QED  BY <2>2, <3>1, <3>2
  <2>. QED  BY <1>4, <2>6
<1>. QED  BY <1>6, <1>7

--------------------------------------------------------------------------------
\* The group at the head of a regex.

\* What the first group of a regex holds.
GroupBody(re) == Slice(re, 1, Closing(re, 1) - 2)

\* A group opens one level.
LEMMA DepthOpen ==
  ASSUME NEW re \in Regexes, re[1] \in {"(", "(?"}
  PROVE  Depth(re, 1, 1) = 1
<1>1. Depth(re, 1, 0) = 0 /\ 0 \in Nat
  BY DepthZero
<1>2. Depth(re, 1, 0 + 1) = Depth(re, 1, 0) + Level(re[0 + 1])
  BY <1>1, DepthStep
<1>3. Level(re[1]) = 1
  BY DEF Level
<1>. QED  BY <1>1, <1>2, <1>3

\* The tokens of the group and their depth.
LEMMA GroupIs ==
  ASSUME NEW re \in Regexes, re # << >>, re[1] \in {"(", "(?"}
  PROVE  /\ Closing(re, 1) - 2 \in Nat /\ 1 + (Closing(re, 1) - 2) <= Len(re)
         /\ GroupBody(re) = SubSeq(re, 2, FirstEnd(re) - 1)
         /\ GroupBody(re) \in Regexes /\ Len(GroupBody(re)) = Closing(re, 1) - 2
         /\ \A k \in 1..Closing(re, 1) - 2 : GroupBody(re)[k] = re[1 + k]
         /\ \A k \in 0..Closing(re, 1) - 2 : Depth(re, 1, 1 + k) = 1 + Depth(GroupBody(re), 1, k)
<1> DEFINE C == Closing(re, 1)
           m == C - 2
           n == Len(re)
           b == GroupBody(re)
<1>1. n \in Nat /\ n > 0
  BY DEF Regexes
<1>2. C \in Nat /\ C > 1 /\ (C <= n \/ C = 2)
  BY ClosingIs
<1>3. m \in Nat /\ 1 + m <= n /\ 1 + m = C - 1
  BY <1>1, <1>2
<1>4. b = Slice(re, 1, m)
  BY DEF GroupBody
<1>5. b = SubSeq(re, 2, FirstEnd(re) - 1)
  <2>1. FirstEnd(re) = C
    BY DEF FirstEnd
  <2>. QED  BY <1>3, <1>4, <2>1 DEF Slice
<1>6. 1 \in Nat /\ 1 + m <= Len(re)
  BY <1>3
<1> HIDE DEF C, m, n, b
<1>7. b \in Regexes /\ Len(b) = m /\ \A k \in 1..m : b[k] = re[1 + k]
  BY <1>3, <1>4, <1>6, SliceIs
<1>8. \A k \in 0..m : Depth(re, 1, 1 + k) = Depth(re, 1, 1) + Depth(b, 1, k)
  BY <1>3, <1>6, <1>7, DepthWithin, ZenonT(60)
<1>9. Depth(re, 1, 1) = 1
  BY DepthOpen
<1>. QED  BY <1>3, <1>5, <1>6, <1>7, <1>8, <1>9 DEF C, m, n, b

\* The pipes of the group are those outside all groups of what it holds.
LEMMA GroupPipes ==
  ASSUME NEW re \in Regexes, re # << >>, re[1] \in {"(", "(?"}
  PROVE  /\ OuterPipes(GroupBody(re)) \subseteq 1..Closing(re, 1) - 2
         /\ TopPipes(re, 1) \subseteq 2..Closing(re, 1) - 1
         /\ \A k \in 1..Closing(re, 1) - 2 : 1 + k \in TopPipes(re, 1) <=> k \in OuterPipes(GroupBody(re))
<1> DEFINE C == Closing(re, 1)
           m == C - 2
           b == GroupBody(re)
<1>1. /\ m \in Nat /\ 1 + m <= Len(re) /\ C = m + 2
      /\ b \in Regexes /\ Len(b) = m
      /\ \A k \in 1..m : b[k] = re[1 + k]
      /\ \A k \in 0..m : Depth(re, 1, 1 + k) = 1 + Depth(b, 1, k)
  <2>1. C \in Nat
    BY ClosingIs
  <2>. QED  BY <2>1, GroupIs
<1>3. ASSUME NEW k \in 1..m PROVE 1 + k \in TopPipes(re, 1) <=> k \in OuterPipes(b)
  <2>1. 1 + k \in 2..C - 1 /\ k \in 0..m
    BY <1>1
  <2>2. b[k] = re[1 + k] /\ Depth(re, 1, 1 + k) = 1 + Depth(b, 1, k) /\ Depth(b, 1, k) \in Int
    BY <1>1, <2>1, DepthIsInt
  <2>3. 1 + k \in TopPipes(re, 1) <=> re[1 + k] = "|" /\ Depth(re, 1, 1 + k) = 1
    BY <2>1 DEF TopPipes
  <2>4. k \in OuterPipes(b) <=> b[k] = "|" /\ Depth(b, 1, k) = 0
    BY <1>1 DEF OuterPipes
  <2>. QED  BY <2>2, <2>3, <2>4
<1>4. TopPipes(re, 1) \subseteq 2..C - 1
  BY DEF TopPipes
<1>5. OuterPipes(b) \subseteq 1..m
  BY <1>1 DEF OuterPipes
<1>. QED  BY <1>3, <1>4, <1>5

\* The alternatives of the group include the parts of what it holds.
LEMMA PartIsAlternative ==
  ASSUME NEW re \in Regexes, re # << >>, re[1] \in {"(", "(?"},
         NEW c, NEW d, Adjacent(GroupBody(re), c, d)
  PROVE  Part(GroupBody(re), c, d) \in Alternatives(re, 1)
<1> DEFINE C == Closing(re, 1)
           m == C - 2
           b == GroupBody(re)
           cuts == TopPipes(re, 1) \cup {1, C}
           next(x, y) == x < y /\ \A k \in cuts : ~(x < k /\ k < y)
<1>1. /\ m \in Nat /\ 1 + m <= Len(re) /\ C = m + 2
      /\ b \in Regexes /\ Len(b) = m
      /\ \A k \in 1..m : b[k] = re[1 + k]
      /\ \A k \in 0..m : Depth(re, 1, 1 + k) = 1 + Depth(b, 1, k)
  <2>1. C \in Nat
    BY ClosingIs
  <2>. QED  BY <2>1, GroupIs
<1>2. Alternatives(re, 1) =
        {SubSeq(re, x[1] + 1, x[2] - 1) : x \in {x \in cuts \X cuts : next(x[1], x[2])}}
  BY Zenon DEF Alternatives
<1>3. /\ \A k \in 1..m : 1 + k \in TopPipes(re, 1) <=> k \in OuterPipes(b)
      /\ OuterPipes(b) \subseteq 1..m
  BY GroupPipes
<1>4. TopPipes(re, 1) \subseteq 2..C - 1
  BY GroupPipes
<1>6. /\ c \in 0..m /\ d \in 1..m + 1 /\ c < d
      /\ Part(b, c, d) \in Regexes /\ Len(Part(b, c, d)) = d - c - 1
      /\ \A k \in 1..d - c - 1 : Part(b, c, d)[k] = b[c + k]
  BY <1>1, PartIs, SMTT(30)
<1>7. c + 1 \in cuts
  <2>1. CASE c = 0
    BY <2>1
  <2>2. CASE c # 0
    <3>1. c \in OuterPipes(b) /\ c \in 1..m /\ 1 + c = c + 1
      BY <1>6, <2>2 DEF Adjacent
    <3>. QED  BY <1>3, <3>1
  <2>. QED  BY <2>1, <2>2
<1>8. d + 1 \in cuts
  <2>1. CASE d = m + 1
    BY <1>1, <2>1
  <2>2. CASE d # m + 1
    <3>1. d \in OuterPipes(b) /\ d \in 1..m /\ 1 + d = d + 1
      BY <1>1, <1>6, <2>2 DEF Adjacent
    <3>. QED  BY <1>3, <3>1
  <2>. QED  BY <2>1, <2>2
<1>9. next(c + 1, d + 1)
  <2>1. c + 1 < d + 1
    BY <1>6
  <2>2. ASSUME NEW k \in cuts, c + 1 < k, k < d + 1 PROVE FALSE
    <3>1. k # 1 /\ k # C
      BY <1>1, <1>6, <2>2
    <3>2. k \in TopPipes(re, 1)
      BY <3>1
    <3> DEFINE j == k - 1
    <3>3. j \in 1..m /\ k = 1 + j /\ c < j /\ j < d
      BY <1>1, <1>4, <1>6, <2>2, <3>2, SMTT(30)
    <3> HIDE DEF j
    <3>4. j \in OuterPipes(b)
      BY <1>3, <3>2, <3>3
    <3>. QED  BY <3>3, <3>4 DEF Adjacent
  <2>. QED  BY <2>1, <2>2
<1> DEFINE x == <<c + 1, d + 1>>
           a == SubSeq(re, x[1] + 1, x[2] - 1)
<1>10. x \in cuts \X cuts /\ next(x[1], x[2])
  BY <1>7, <1>8, <1>9
<1>11. a \in Alternatives(re, 1)
  <2> HIDE DEF x, cuts, next
  <2>. QED  BY <1>2, <1>10, Zenon
<1> DEFINE l == d - c - 1
           i == c + 1
<1>12. l \in Nat /\ i \in Nat /\ i + l <= Len(re) /\ x[1] + 1 = i + 1 /\ x[2] - 1 = i + l
  BY <1>1, <1>6
<1>13. a = Slice(re, i, l)
  BY <1>12 DEF Slice
<1> HIDE DEF C, m, b, cuts, next, x, a
<1>14. a \in Regexes /\ Len(a) = l /\ \A k \in 1..l : a[k] = re[i + k]
  <2> HIDE DEF l, i
  <2>. QED  BY <1>12, <1>13, SliceIs
<1>15. ASSUME NEW k \in 1..l PROVE a[k] = Part(b, c, d)[k]
  <2>1. c + k \in 1..m /\ 1 + (c + k) = i + k
    BY <1>1, <1>6
  <2>2. b[c + k] = re[1 + (c + k)]
    BY <1>1, <2>1
  <2>. QED  BY <1>6, <1>14, <2>1, <2>2
<1>16. a = Part(b, c, d)
  BY <1>6, <1>14, <1>15, SameString DEF Regexes
<1>. QED  BY <1>11, <1>16 DEF b

--------------------------------------------------------------------------------
\* Heads of words.

\* p is the head of w, token by token.
Heads(p, w) == Len(p) <= Len(w) /\ \A k \in 1..Len(p) : p[k] = w[k]

\* A head is a prefix.
LEMMA HeadsIsPrefix ==
  ASSUME NEW p \in Seq(Tokens), NEW w \in Seq(Tokens)
  PROVE  Heads(p, w) <=> IsPrefix(p, w)
<1> DEFINE n == Len(p)
           a == SubSeq(p, 1, n)
           b == SubSeq(w, 1, n)
<1>1. n \in Nat /\ Len(w) \in Nat
  OBVIOUS
<1>2. IsPrefix(p, w) <=> n <= Len(w) /\ a = b
  BY DEF IsPrefix
<1>3. ASSUME n <= Len(w) PROVE a = b <=> \A k \in 1..n : p[k] = w[k]
  <2>1. n \in 0..Len(w) /\ n \in 0..Len(p)
    BY <1>1, <1>3
  <2> HIDE DEF n
  <2>2. b \in Seq(Tokens) /\ Len(b) = n /\ \A k \in 1..n : b[k] = w[k]
    BY <2>1, TakeIs
  <2>3. a \in Seq(Tokens) /\ Len(a) = n /\ \A k \in 1..n : a[k] = p[k]
    BY <2>1, TakeIs
  <2> HIDE DEF a, b
  <2>4. (\A k \in 1..n : p[k] = w[k]) => a = b
    <3>1. SUFFICES ASSUME \A k \in 1..n : p[k] = w[k] PROVE a = b
      OBVIOUS
    <3>2. \A k \in 1..n : a[k] = b[k]
      BY <2>2, <2>3, <3>1
    <3>. QED  BY <2>2, <2>3, <3>2, SameString
  <2>. QED  BY <2>2, <2>3, <2>4
<1>. QED  BY <1>2, <1>3 DEF Heads

\* The empty sequence is a head of every word.
LEMMA NoneHeads == \A w \in Seq(Tokens) : Heads(<< >>, w)
  BY DEF Heads

\* A head of a head is a head.
LEMMA HeadsOfHeads ==
  ASSUME NEW p \in Seq(Tokens), NEW q \in Seq(Tokens), NEW w \in Seq(Tokens),
         Heads(p, q), Heads(q, w)
  PROVE  Heads(p, w)
<1>1. Len(p) \in Nat /\ Len(q) \in Nat /\ Len(w) \in Nat
  OBVIOUS
<1>2. /\ Len(p) <= Len(q) /\ \A k \in 1..Len(p) : p[k] = q[k]
      /\ Len(q) <= Len(w) /\ \A k \in 1..Len(q) : q[k] = w[k]
  BY DEF Heads
<1>3. \A k \in 1..Len(p) : k \in 1..Len(q)
  BY <1>1, <1>2
<1>4. Len(p) <= Len(w)
  BY <1>1, <1>2
<1>. QED  BY <1>2, <1>3, <1>4 DEF Heads

\* What a word is followed by leaves its heads alone.
LEMMA HeadsOfJoined ==
  ASSUME NEW p \in Seq(Tokens), NEW a \in Seq(Tokens), NEW b \in Seq(Tokens), Heads(p, a)
  PROVE  a \o b \in Seq(Tokens) /\ Heads(p, a \o b)
<1> DEFINE u == a \o b
<1>1. /\ u \in Seq(Tokens) /\ Len(a) \in Nat /\ Len(b) \in Nat
      /\ Len(u) = Len(a) + Len(b)
      /\ \A i \in 1..Len(a) : u[i] = a[i]
  BY ConcatIs
<1> HIDE DEF u
<1>2. Len(a) <= Len(u)
  BY <1>1
<1>3. Heads(a, u)
  BY <1>1, <1>2 DEF Heads
<1>. QED  BY <1>1, <1>3, HeadsOfHeads DEF u

--------------------------------------------------------------------------------
\* The first element of a regex.

\* What the first element matches are words.
LEMMA OnceIsLanguage ==
  ASSUME NEW re \in Regexes, re # << >>
  PROVE  Once(Words, re) \in Language
<1>1. CASE re[1] \in {"(", "(?"}
  <2>1. Once(Words, re) = Words[SubSeq(re, 2, FirstEnd(re) - 1)]
    BY <1>1, Zenon DEF Once
  <2>. QED  BY <1>1, <2>1, PartsShorter, WordsWalk
<1>2. CASE re[1] \notin {"(", "(?"}
  <2>1. Once(Words, re) \in {{<< >>}, {<<re[1]>>}}
    BY <1>2, Zenon DEF Once
  <2>2. re[1] \in Tokens
    BY PartsShorter
  <2>3. <<re[1]>> \in Seq(Tokens) /\ << >> \in Seq(Tokens)
    BY <2>2, EmptyIsString
  <2>4. {<<re[1]>>} \in Language /\ {<< >>} \in Language
    BY <2>3, Zenon DEF Language
  <2>. QED  BY <2>1, <2>4, Zenon
<1>. QED  BY <1>1, <1>2

\* A first element that nothing makes optional heads every word; one that nothing
\* repeats is followed by a word of the rest.
LEMMA FirstTaken ==
  ASSUME NEW re \in Regexes, re # << >>, OuterPipes(re) = {}, NEW w \in Words[re],
         Follower(re) \notin Optional
  PROVE  /\ \E a \in Once(Words, re), r \in Seq(Tokens) : w = a \o r
         /\ Follower(re) \notin Quantifier =>
              \E a \in Once(Words, re), r \in Words[Rest(re)] : w = a \o r
<1> DEFINE A == Once(Words, re)
           T == Times(Follower(re))
           R == Words[Rest(re)]
<1>1. A \in Language /\ R \in Language
  BY OnceIsLanguage, PartsShorter, WordsWalk
<1>2. w \in Joined(Repeated(A, T), R)
  <2>1. Words[re] = WordsBody(Words, re)
    BY WordsWalk
  <2>2. WordsBody(Words, re) = Joined(Repeated(Once(Words, re), Times(Follower(re))), Words[Rest(re)])
    BY Zenon DEF WordsBody
  <2>. QED  BY <2>1, <2>2
<1>3. T \in {{1}, {1, 2}} /\ (Follower(re) \notin Quantifier => T = {1})
  <2>1. Follower(re) \notin {"?", "*", "{"}
    BY DEF Optional
  <2>2. CASE Follower(re) = "+"
    <3>1. T = {1, 2} /\ Follower(re) \in Quantifier
      BY <2>2 DEF Times, Quantifier
    <3>. QED  BY <3>1
  <2>3. CASE Follower(re) # "+"
    <3>1. T = {1}
      BY <2>1, <2>3, Zenon DEF Times
    <3>. QED  BY <3>1
  <2>. QED  BY <2>2, <2>3
<1> HIDE DEF A, T, R
<1>4. Repeated(A, T) \in Language
  BY <1>1, RepeatedIs
<1>5. PICK x \in Repeated(A, T), r \in R : w = x \o r
  BY <1>1, <1>2, <1>4, JoinedIs
<1>6. r \in Seq(Tokens) /\ A \subseteq Seq(Tokens)
  BY <1>1 DEF Language
<1>7. CASE T = {1}
  <2>1. Repeated(A, T) = A
    BY <1>7 DEF Repeated
  <2>. QED  BY <1>5, <1>6, <2>1 DEF A, R
<1>8. CASE T = {1, 2}
  <2>1. Repeated(A, T) = A \cup Joined(A, A) /\ Follower(re) \in Quantifier
    BY <1>3, <1>8 DEF Repeated
  <2>2. CASE x \in A
    BY <1>5, <1>6, <2>1, <2>2 DEF A
  <2>3. CASE x \in Joined(A, A)
    <3>1. PICK a \in A, b \in A : x = a \o b
      <4>1. \A v \in Joined(A, A) : \E a \in A, b \in A : v = a \o b
        BY DEF Joined
      <4>. QED  BY <2>3, <4>1
    <3>2. a \in Seq(Tokens) /\ b \in Seq(Tokens)
      BY <1>6
    <3>3. b \o r \in Seq(Tokens)
      BY <1>6, <3>2
    <3>4. w = a \o (b \o r)
      <4>1. (a \o b) \o r = a \o (b \o r)
        BY <1>6, <3>2
      <4>. QED  BY <1>5, <3>1, <4>1
    <3>. QED  BY <2>1, <3>3, <3>4 DEF A
  <2>. QED  BY <2>1, <2>2, <2>3
<1>. QED  BY <1>3, <1>7, <1>8

\* What is left of a regex after its first token.
LEMMA TailIs ==
  ASSUME NEW re \in Regexes, re # << >>
  PROVE  /\ Len(re) - 1 \in Nat
         /\ Tail(re) = Slice(re, 1, Len(re) - 1)
         /\ Tail(re) \in Regexes /\ Len(Tail(re)) = Len(re) - 1
         /\ \A k \in 1..Len(re) - 1 : Tail(re)[k] = re[1 + k]
<1> DEFINE n == Len(re)
           m == n - 1
<1>1. n \in Nat /\ n > 0
  BY DEF Regexes
<1>2. m \in Nat /\ 1 \in Nat /\ 1 + m <= n /\ 1 + m = n
  BY <1>1
<1>3. Tail(re) = SubSeq(re, 2, n)
  BY DEF Regexes
<1>4. Tail(re) = Slice(re, 1, m)
  BY <1>2, <1>3 DEF Slice
<1> HIDE DEF m
<1>5. /\ Slice(re, 1, m) \in Regexes /\ Len(Slice(re, 1, m)) = m
      /\ \A k \in 1..m : Slice(re, 1, m)[k] = re[1 + k]
  BY <1>2, SliceIs
<1>. QED  BY <1>2, <1>4, <1>5 DEF m

\* A token that opens and closes nothing may be left out without baring a pipe.
LEMMA TailPipes ==
  ASSUME NEW re \in Regexes, re # << >>, re[1] \notin {"(", "(?", ")"}, OuterPipes(re) = {}
  PROVE  OuterPipes(Tail(re)) = {}
<1> DEFINE n == Len(re)
           t == Tail(re)
<1>1. /\ n \in Nat /\ n > 0 /\ t \in Regexes /\ Len(t) = n - 1
      /\ \A k \in 1..Len(t) : t[k] = re[1 + k]
  <2>1. n \in Nat /\ n > 0
    BY DEF Regexes
  <2>. QED  BY <2>1, TailIs
<1>2. Depth(re, 1, 1) = 0
  <2>1. Depth(re, 1, 0) = 0 /\ 0 \in Nat
    BY DepthZero
  <2>2. Depth(re, 1, 0 + 1) = Depth(re, 1, 0) + Level(re[0 + 1])
    BY <2>1, DepthStep
  <2>3. Level(re[1]) = 0
    BY DEF Level
  <2>. QED  BY <2>1, <2>2, <2>3
<1> HIDE DEF t
<1>3. \A k \in 1..Len(t) : k \in OuterPipes(t) <=>
            re[1 + k] = "|" /\ Depth(re, 1, 1 + k) = Depth(re, 1, 1)
  <2> DEFINE d == 1
  <2>1. d \in Nat /\ \A k \in 1..Len(t) : t[k] = re[d + k]
    BY <1>1
  <2> HIDE DEF d
  <2>2. \A k \in 1..Len(t) : k \in OuterPipes(t) <=>
            re[d + k] = "|" /\ Depth(re, 1, d + k) = Depth(re, 1, d)
    BY <1>1, <2>1, PipesWithin
  <2>. QED  BY <2>2 DEF d
<1>4. ASSUME NEW k \in OuterPipes(t) PROVE FALSE
  <2>1. k \in 1..Len(t) /\ 1 + k \in 1..n
    BY <1>1 DEF OuterPipes
  <2>2. re[1 + k] = "|" /\ Depth(re, 1, 1 + k) = 0
    BY <1>2, <1>3, <2>1
  <2>3. 1 + k \in OuterPipes(re)
    BY <2>1, <2>2 DEF OuterPipes
  <2>. QED  BY <2>3
<1>. QED  BY <1>4 DEF t

\* The rest after a token that nothing repeats.
LEMMA RestIsTail ==
  ASSUME NEW re \in Regexes, re # << >>, re[1] \notin {"(", "(?"}
  PROVE  /\ Follower(re) = IF 1 < Len(re) THEN re[2] ELSE "end"
         /\ Follower(re) \notin Quantifier => Rest(re) = Tail(re)
<1>1. FirstEnd(re) = 1
  BY DEF FirstEnd
<1>2. Follower(re) = IF 1 < Len(re) THEN re[2] ELSE "end"
  BY <1>1 DEF Follower
<1>3. Tail(re) = SubSeq(re, 2, Len(re))
  BY DEF Regexes
<1>4. ASSUME Follower(re) \notin Quantifier PROVE Rest(re) = Tail(re)
  BY <1>1, <1>3, <1>4 DEF Rest
<1>. QED  BY <1>2, <1>4

\* No literal is structure.
LEMMA LiteralIs ==
  \A l \in Literals : l \in Tokens /\ l \notin Structure
  BY LiteralsAssumption DEF Tokens

\* What is in the run of a regex is in every word, at its place.
RunLeads(n) == \A re \in Regexes : OuterPipes(re) = {} /\ n <= Len(re) /\ InRun(re, n) =>
                 \A w \in Words[re] : w \in Seq(Tokens) /\ n <= Len(w) /\ \A k \in 1..n : w[k] = re[k]

\* For runs of every length.
LEMMA RunLeadsWords == \A n \in Nat : RunLeads(n)
<1> DEFINE Bad == {n \in Nat : ~RunLeads(n)}
<1>1. SUFFICES ASSUME Bad # {} PROVE FALSE
  OBVIOUS
<1>2. PICK n \in Bad : \A m \in Bad : n <= m
  <2>1. Bad \in SUBSET Nat
    OBVIOUS
  <2> HIDE DEF Bad
  <2>. QED  BY <1>1, <2>1, LeastNumber, Zenon
<1>3. n \in Nat /\ ~RunLeads(n)
  OBVIOUS
<1>4. PICK re \in Regexes : /\ OuterPipes(re) = {} /\ n <= Len(re) /\ InRun(re, n)
                           /\ \E w \in Words[re] : ~(w \in Seq(Tokens) /\ n <= Len(w) /\ \A k \in 1..n : w[k] = re[k])
  BY <1>3 DEF RunLeads
<1>5. PICK w \in Words[re] : ~(w \in Seq(Tokens) /\ n <= Len(w) /\ \A k \in 1..n : w[k] = re[k])
  BY <1>4
<1>6. w \in Seq(Tokens)
  BY WordsWalk DEF Language
<1>7. n # 0
  <2>1. SUFFICES ASSUME n = 0 PROVE FALSE
    OBVIOUS
  <2>. QED  BY <1>5, <1>6, <2>1
<1> DEFINE m == n - 1
<1>8. m \in Nat /\ n = m + 1 /\ RunLeads(m)
  <2>1. m \in Nat /\ n = m + 1 /\ ~(n <= m)
    BY <1>3, <1>7
  <2>. QED  BY <1>2, <2>1
<1> HIDE DEF Bad, m
<1>9. Len(re) \in Nat /\ 1 <= Len(re) /\ re # << >>
  <2>1. Len(re) \in Nat /\ 1 <= Len(re)
    BY <1>3, <1>4, <1>7, RegexLength
  <2>. QED  BY <2>1
<1>10. re[1] \in Literals /\ (1 < Len(re) => re[2] \notin Quantifier)
  <2>1. 1 \in 1..n
    BY <1>3, <1>7
  <2>. QED  BY <1>4, <2>1 DEF InRun
<1>11. re[1] \in Tokens /\ re[1] \notin {"^", "(", "(?", ")"}
  BY <1>10, LiteralIs DEF Structure
<1>12. Follower(re) \notin Quantifier /\ Rest(re) = Tail(re)
  <2>1. Follower(re) = IF 1 < Len(re) THEN re[2] ELSE "end"
    BY <1>9, <1>11, RestIsTail
  <2>2. "end" \notin Quantifier
    BY DEF Quantifier, Optional
  <2>3. Follower(re) \notin Quantifier
    BY <1>10, <2>1, <2>2
  <2>. QED  BY <1>9, <1>11, <2>3, RestIsTail
<1>13. Once(Words, re) = {<<re[1]>>}
  BY <1>11, Zenon DEF Once
<1>14. PICK r \in Words[Tail(re)] : w = <<re[1]>> \o r
  <2>1. Follower(re) \notin Optional
    BY <1>12 DEF Quantifier
  <2>2. \E a \in Once(Words, re), r \in Words[Rest(re)] : w = a \o r
    BY <1>4, <1>9, <1>12, <2>1, FirstTaken
  <2>. QED  BY <1>12, <1>13, <2>2
<1> DEFINE t == Tail(re)
<1>15. /\ t \in Regexes /\ OuterPipes(t) = {} /\ Len(t) = Len(re) - 1
       /\ \A k \in 1..Len(re) - 1 : t[k] = re[1 + k]
  BY <1>4, <1>9, <1>11, TailIs, TailPipes
<1>16. m <= Len(t) /\ InRun(t, m)
  <2>1. m <= Len(t)
    BY <1>4, <1>8, <1>9, <1>15
  <2>2. ASSUME NEW k \in 1..m PROVE t[k] \in Literals /\ (k < Len(t) => t[k + 1] \notin Quantifier)
    <3>1. 1 + k \in 1..n /\ k \in 1..Len(re) - 1
      BY <1>4, <1>8, <1>9
    <3>2. re[1 + k] \in Literals /\ (1 + k < Len(re) => re[(1 + k) + 1] \notin Quantifier)
      BY <1>4, <3>1 DEF InRun
    <3>3. k < Len(t) => 1 + k < Len(re) /\ k + 1 \in 1..Len(re) - 1 /\ 1 + (k + 1) = (1 + k) + 1
      BY <1>9, <1>15, <3>1
    <3>. QED  BY <1>15, <3>1, <3>2, <3>3
  <2>. QED  BY <2>1, <2>2 DEF InRun
<1>17. r \in Seq(Tokens) /\ m <= Len(r) /\ \A k \in 1..m : r[k] = t[k]
  BY <1>8, <1>14, <1>15, <1>16 DEF RunLeads
<1> DEFINE a == <<re[1]>>
<1>18. a \in Seq(Tokens) /\ Len(a) = 1 /\ a[1] = re[1]
  BY <1>11
<1>19. /\ Len(r) \in Nat /\ Len(w) = 1 + Len(r) /\ w[1] = re[1]
       /\ \A k \in 1..Len(r) : w[1 + k] = r[k]
  <2> DEFINE u == a \o r
  <2>1. w = u
    BY <1>14
  <2>3. a \in Seq(Tokens) /\ r \in Seq(Tokens)
    BY <1>17, <1>18
  <2> HIDE DEF a
  <2>2. /\ Len(r) \in Nat /\ Len(u) = Len(a) + Len(r)
        /\ \A i \in 1..Len(a) : u[i] = a[i]
        /\ \A i \in 1..Len(r) : u[Len(a) + i] = r[i]
    BY <2>3, ConcatIs
  <2> HIDE DEF u
  <2>. QED  BY <1>18, <2>1, <2>2
<1>20. n <= Len(w)
  BY <1>8, <1>17, <1>19
<1>21. ASSUME NEW k \in 1..n PROVE w[k] = re[k]
  <2>1. CASE k = 1
    BY <1>19, <2>1
  <2>2. CASE k # 1
    <3> DEFINE j == k - 1
    <3>1. j \in 1..m /\ k = 1 + j
      BY <1>8, <2>2
    <3>2. j \in 1..Len(r) /\ j \in 1..Len(re) - 1
      BY <1>4, <1>8, <1>9, <1>17, <1>19, <3>1
    <3> HIDE DEF j, t
    <3>3. w[1 + j] = r[j] /\ r[j] = t[j] /\ t[j] = re[1 + j]
      BY <1>15, <1>17, <1>19, <3>1, <3>2
    <3>. QED  BY <3>1, <3>3
  <2>. QED  BY <2>1, <2>2
<1>. QED  BY <1>5, <1>6, <1>20, <1>21

\* The literals at the head of a regex without a pipe outside its groups head its words.
LEMMA RunHeads ==
  ASSUME NEW re \in Regexes, OuterPipes(re) = {}, NEW w \in Words[re]
  PROVE  Heads(LiteralRun(re), w)
<1> DEFINE c == Cardinality({n \in 1 .. Len(re) : InRun(re, n)})
           l == LiteralRun(re)
<1>1. l = SubSeq(re, 1, c) /\ c \in 0..Len(re) /\ InRun(re, c)
  BY RunIs
<1> HIDE DEF c, l
<1>2. re \in Seq(Tokens) /\ Len(re) \in Nat
  BY DEF Regexes
<1>3. Len(l) = c /\ \A k \in 1..c : l[k] = re[k]
  BY <1>1, <1>2, TakeIs
<1>4. c \in Nat /\ c <= Len(re)
  BY <1>1, <1>2
<1>5. c <= Len(w) /\ \A k \in 1..c : w[k] = re[k]
  BY <1>1, <1>4, RunLeadsWords DEF RunLeads
<1>. QED  BY <1>3, <1>5 DEF Heads, l

--------------------------------------------------------------------------------
\* What follows a group does not change the prefix that is found in the group.

\* The groups of pre are closed in it, and no group of something before it.
SelfClosed(pre) == /\ \A k \in 0..Len(pre) : Depth(pre, 1, k) >= 0
                 /\ Depth(pre, 1, Len(pre)) = 0

\* z is pre up to a token that closes a group.
CutBy(pre, z) == /\ Len(pre) < Len(z)
                 /\ \A k \in 1..Len(pre) : z[k] = pre[k]
                 /\ z[Len(pre) + 1] = ")"

\* A group is closed in one place.
LEMMA ClosingUnique ==
  ASSUME NEW re \in Regexes, NEW j \in Closings(re, 1)
  PROVE  Closing(re, 1) = j
<1> DEFINE S == Closings(re, 1)
           c == Closing(re, 1)
<1>1. c = CHOOSE x \in S : TRUE
  <2>1. S # {}
    OBVIOUS
  <2>. QED  BY <2>1, Zenon DEF Closing
<1>2. \A x \in S : /\ x \in Nat /\ x > 1 /\ Depth(re, 1, x) = 0
                   /\ \A k \in 1..x - 1 : Depth(re, 1, k) > 0
  <2>1. Len(re) \in Nat
    BY RegexLength
  <2>. QED  BY <2>1 DEF Closings
<1>3. j \in S
  OBVIOUS
<1> HIDE DEF S, c
<1>4. c \in S
  BY <1>1, <1>3
<1>5. ~(c < j)
  <2>1. SUFFICES ASSUME c < j PROVE FALSE
    OBVIOUS
  <2>2. c \in 1..j - 1
    BY <1>2, <1>3, <1>4, <2>1
  <2>3. Depth(re, 1, c) > 0 /\ Depth(re, 1, c) = 0
    BY <1>2, <1>3, <1>4, <2>2
  <2>. QED  BY <2>3
<1>6. ~(j < c)
  <2>1. SUFFICES ASSUME j < c PROVE FALSE
    OBVIOUS
  <2>2. j \in 1..c - 1
    BY <1>2, <1>3, <1>4, <2>1
  <2>3. Depth(re, 1, j) > 0 /\ Depth(re, 1, j) = 0
    BY <1>2, <1>3, <1>4, <2>2
  <2>. QED  BY <2>3
<1>7. c = j
  BY <1>2, <1>3, <1>4, <1>5, <1>6
<1>. QED  BY <1>7 DEF c

\* What a closed group holds is balanced, and followed by the token that closes it.
LEMMA ClosedGroup ==
  ASSUME NEW re \in Regexes, re # << >>, re[1] \in {"(", "(?"}, Closings(re, 1) # {}
  PROVE  /\ Closing(re, 1) \in Closings(re, 1) /\ Closing(re, 1) \in 2..Len(re)
         /\ SelfClosed(GroupBody(re)) /\ CutBy(GroupBody(re), Tail(re))
<1> DEFINE C == Closing(re, 1)
           m == C - 2
           b == GroupBody(re)
           t == Tail(re)
           n == Len(re)
<1>1. PICK j \in Closings(re, 1) : TRUE
  OBVIOUS
<1>2. C = j
  BY ClosingUnique
<1>3. C \in Closings(re, 1)
  BY <1>2
<1>4. /\ C \in 2..n /\ Depth(re, 1, C) = 0
      /\ \A k \in 1..C - 1 : Depth(re, 1, k) > 0
  BY <1>3 DEF Closings
<1>5. n \in Nat
  BY RegexLength
<1>6. /\ m \in Nat /\ b \in Regexes /\ Len(b) = m
      /\ \A k \in 1..m : b[k] = re[1 + k]
      /\ \A k \in 0..m : Depth(re, 1, 1 + k) = 1 + Depth(b, 1, k)
  BY GroupIs
<1>7. /\ t \in Regexes /\ Len(t) = n - 1
      /\ \A k \in 1..n - 1 : t[k] = re[1 + k]
  BY TailIs
<1> HIDE DEF C, b, t, n
<1>8. C = m + 2 /\ C \in Nat
  BY <1>4, <1>5
<1> HIDE DEF m
<1>9. \A k \in 0..m : Depth(b, 1, k) \in Int
  BY <1>6, DepthIsInt
<1>10. ASSUME NEW k \in 0..m PROVE Depth(b, 1, k) >= 0
  <2>1. 1 + k \in 1..C - 1
    BY <1>6, <1>8
  <2>2. Depth(re, 1, 1 + k) > 0 /\ Depth(re, 1, 1 + k) = 1 + Depth(b, 1, k)
    BY <1>4, <1>6, <2>1
  <2>. QED  BY <1>9, <2>2
<1>11. Depth(re, 1, C) = Depth(re, 1, 1 + m) + Level(re[C])
  <2>1. 1 + m \in Nat /\ (1 + m) + 1 = C
    BY <1>6, <1>8
  <2>2. Depth(re, 1, (1 + m) + 1) = Depth(re, 1, 1 + m) + Level(re[(1 + m) + 1])
    BY <2>1, DepthStep
  <2>. QED  BY <2>1, <2>2
<1>12. Depth(re, 1, 1 + m) = 1 + Depth(b, 1, m) /\ Depth(b, 1, m) >= 0 /\ Depth(b, 1, m) \in Int
  <2>1. m \in 0..m
    BY <1>6
  <2>. QED  BY <1>6, <1>9, <1>10, <2>1
<1>13. re[C] = ")" /\ Depth(b, 1, m) = 0
  BY <1>4, <1>11, <1>12 DEF Level
<1>14. SelfClosed(b)
  BY <1>6, <1>10, <1>13 DEF SelfClosed
<1>15. CutBy(b, t)
  <2>1. Len(b) < Len(t)
    BY <1>4, <1>5, <1>6, <1>7, <1>8
  <2>2. ASSUME NEW k \in 1..Len(b) PROVE t[k] = b[k]
    <3>1. k \in 1..m /\ k \in 1..n - 1
      BY <1>4, <1>5, <1>6, <1>8
    <3>. QED  BY <1>6, <1>7, <3>1
  <2>3. t[Len(b) + 1] = ")"
    <3>1. Len(b) + 1 \in 1..n - 1 /\ 1 + (Len(b) + 1) = C
      BY <1>4, <1>5, <1>6, <1>8
    <3>. QED  BY <1>7, <1>13, <3>1
  <2>. QED  BY <2>1, <2>2, <2>3 DEF CutBy
<1>. QED  BY <1>3, <1>4, <1>14, <1>15 DEF C, b, t, n

\* A balanced regex closes the group that it begins with.
LEMMA SelfClosedEnds ==
  ASSUME NEW re \in Regexes, re # << >>, re[1] \in {"(", "(?"}, SelfClosed(re)
  PROVE  Closings(re, 1) # {}
<1> DEFINE n == Len(re)
           Z == {k \in 2..n : Depth(re, 1, k) = 0}
<1>1. n \in Nat /\ n > 0
  BY DEF Regexes
<1>2. Depth(re, 1, 1) = 1
  BY DepthOpen
<1>3. n \in Z
  <2>1. Depth(re, 1, n) = 0
    BY DEF SelfClosed
  <2> HIDE DEF n
  <2>2. n # 1
    <3>1. SUFFICES ASSUME n = 1 PROVE FALSE
      OBVIOUS
    <3>2. Depth(re, 1, n) = 1
      BY <1>2, <3>1
    <3>. QED  BY <2>1, <3>2
  <2>3. n \in 2..n
    BY <1>1, <2>2
  <2>. QED  BY <2>1, <2>3
<1>4. PICK j \in Z : \A k \in Z : j <= k
  <2>1. Z \in SUBSET Nat /\ Z # {}
    BY <1>1, <1>3
  <2> HIDE DEF Z
  <2>. QED  BY <2>1, LeastNumber, Zenon
<1>5. j \in 2..n /\ Depth(re, 1, j) = 0
  OBVIOUS
<1>6. ASSUME NEW k \in 1..j - 1 PROVE Depth(re, 1, k) > 0
  <2>1. CASE k = 1
    BY <1>2, <2>1
  <2>2. CASE k # 1
    <3>1. k \in 2..n /\ k \in 0..n /\ k \in Nat /\ ~(j <= k)
      BY <1>1, <1>5, <2>2
    <3>2. Depth(re, 1, k) # 0
      BY <1>4, <3>1
    <3>3. Depth(re, 1, k) >= 0 /\ Depth(re, 1, k) \in Int
      BY <3>1, DepthIsInt DEF SelfClosed
    <3>. QED  BY <3>2, <3>3
  <2>. QED  BY <2>1, <2>2
<1>7. j \in Closings(re, 1)
  BY <1>5, <1>6 DEF Closings
<1>. QED  BY <1>7

\* A slice within what comes before the closing token.
LEMMA SameSlice ==
  ASSUME NEW pre \in Regexes, NEW z \in Regexes, CutBy(pre, z),
         NEW i \in Nat, NEW m \in Nat, i + m <= Len(pre)
  PROVE  Slice(z, i, m) = Slice(pre, i, m)
<1>1. Len(pre) \in Nat /\ Len(z) \in Nat
  BY RegexLength
<1>2. Len(pre) < Len(z) /\ \A k \in 1..Len(pre) : z[k] = pre[k]
  BY DEF CutBy
<1>3. i + m <= Len(z)
  BY <1>1, <1>2
<1> DEFINE a == Slice(z, i, m)
           b == Slice(pre, i, m)
<1>4. a \in Regexes /\ Len(a) = m /\ \A k \in 1..m : a[k] = z[i + k]
  BY <1>3, SliceIs
<1>5. b \in Regexes /\ Len(b) = m /\ \A k \in 1..m : b[k] = pre[i + k]
  BY SliceIs
<1>6. ASSUME NEW k \in 1..m PROVE z[i + k] = pre[i + k]
  <2>1. i + k \in 1..Len(pre)
    BY <1>1
  <2>. QED  BY <1>2, <2>1
<1> HIDE DEF a, b
<1>7. \A k \in 1..m : a[k] = b[k]
  BY <1>4, <1>5, <1>6
<1>8. a = b
  BY <1>4, <1>5, <1>7, SameString DEF Regexes
<1>. QED  BY <1>8 DEF a, b

\* A group that is closed before it has the same end and the same alternatives.
LEMMA SameGroup ==
  ASSUME NEW pre \in Regexes, NEW z \in Regexes, CutBy(pre, z),
         pre # << >>, Closings(pre, 1) # {}
  PROVE  /\ Closings(z, 1) # {}
         /\ Closing(z, 1) = Closing(pre, 1) /\ Closing(pre, 1) \in 2..Len(pre)
         /\ HasPipe(z, 1) <=> HasPipe(pre, 1)
         /\ Alternatives(z, 1) = Alternatives(pre, 1)
<1> DEFINE n == Len(pre)
           C == Closing(pre, 1)
<1>1. n \in Nat /\ Len(z) \in Nat
  BY RegexLength
<1>2. n < Len(z) /\ \A k \in 1..n : z[k] = pre[k]
  BY DEF CutBy
<1>3. ASSUME NEW k \in 0..n PROVE Depth(z, 1, k) = Depth(pre, 1, k)
  <2> DEFINE d == 0
  <2>1. d \in Nat /\ n \in Nat /\ \A j \in 1..n : pre[j] = z[d + j]
    BY <1>1, <1>2
  <2> HIDE DEF d, n
  <2>2. Depth(z, 1, d + k) = Depth(z, 1, d) + Depth(pre, 1, k)
    BY <2>1, DepthWithin
  <2>3. Depth(z, 1, 0) = 0
    BY DepthZero
  <2>4. d + k = k /\ Depth(pre, 1, k) \in Int
    BY <2>1, DepthIsInt DEF d
  <2>. QED  BY <2>2, <2>3, <2>4 DEF d
<1>4. C \in Closings(pre, 1)
  <2>1. PICK j \in Closings(pre, 1) : TRUE
    OBVIOUS
  <2>2. C = j
    BY ClosingUnique
  <2>. QED  BY <2>1, <2>2
<1>5. /\ C \in 2..n /\ Depth(pre, 1, C) = 0
      /\ \A k \in 1..C - 1 : Depth(pre, 1, k) > 0
  BY <1>4 DEF Closings
<1> HIDE DEF C
<1>6. C \in Closings(z, 1)
  <2>1. C \in 2..Len(z)
    BY <1>1, <1>2, <1>5
  <2>2. Depth(z, 1, C) = 0
    BY <1>3, <1>5
  <2>3. ASSUME NEW k \in 1..C - 1 PROVE Depth(z, 1, k) > 0
    <3>1. k \in 0..n
      BY <1>1, <1>5
    <3>. QED  BY <1>3, <1>5, <3>1
  <2>. QED  BY <2>1, <2>2, <2>3 DEF Closings
<1>7. Closing(z, 1) = C
  BY <1>6, ClosingUnique
<1>8. TopPipes(z, 1) = TopPipes(pre, 1)
  <2>1. ASSUME NEW k \in 2..C - 1
        PROVE  (z[k] = "|" /\ Depth(z, 1, k) = 1) <=> (pre[k] = "|" /\ Depth(pre, 1, k) = 1)
    <3>1. k \in 0..n /\ k \in 1..n
      BY <1>1, <1>5
    <3>. QED  BY <1>2, <1>3, <3>1
  <2>2. /\ TopPipes(z, 1) = {k \in 2..C - 1 : z[k] = "|" /\ Depth(z, 1, k) = 1}
        /\ TopPipes(pre, 1) = {k \in 2..C - 1 : pre[k] = "|" /\ Depth(pre, 1, k) = 1}
    BY <1>7 DEF TopPipes, C
  <2>. QED  BY <2>1, <2>2
<1>9. HasPipe(z, 1) <=> HasPipe(pre, 1)
  BY <1>4, <1>6, <1>8 DEF HasPipe
<1> DEFINE cuts == TopPipes(pre, 1) \cup {1, C}
           next(x, y) == x < y /\ \A k \in cuts : ~(x < k /\ k < y)
           X == {x \in cuts \X cuts : next(x[1], x[2])}
           F(x) == SubSeq(z, x[1] + 1, x[2] - 1)
           G(x) == SubSeq(pre, x[1] + 1, x[2] - 1)
<1>10. Alternatives(z, 1) = {F(x) : x \in X} /\ Alternatives(pre, 1) = {G(x) : x \in X}
  BY <1>7, <1>8, Zenon DEF Alternatives, C
<1>11. cuts \subseteq 1..C
  BY <1>1, <1>5 DEF TopPipes, C
<1>12. ASSUME NEW x \in X PROVE F(x) = G(x)
  <2> DEFINE i == x[1]
             j == x[2]
             m == j - i - 1
  <2>1. i \in 1..C /\ j \in 1..C /\ i < j
    BY <1>11
  <2>2. i \in Nat /\ m \in Nat /\ i + m <= n /\ i + m = j - 1
    BY <1>1, <1>5, <2>1
  <2>3. F(x) = Slice(z, i, m) /\ G(x) = Slice(pre, i, m)
    BY <2>2 DEF Slice
  <2> HIDE DEF i, j, m, F, G
  <2>4. Slice(z, i, m) = Slice(pre, i, m)
    BY <2>2, SameSlice
  <2>. QED  BY <2>3, <2>4
<1>13. Alternatives(z, 1) = Alternatives(pre, 1)
  <2> HIDE DEF F, G, X
  <2>. QED  BY <1>10, <1>12
<1>. QED  BY <1>5, <1>6, <1>7, <1>9, <1>13 DEF C

\* The run of literals ends where a group is closed.
LEMMA SameRun ==
  ASSUME NEW pre \in Regexes, NEW z \in Regexes, CutBy(pre, z)
  PROVE  LiteralRun(z) = LiteralRun(pre)
<1> DEFINE n == Len(pre)
           R == {k \in 1..n : InRun(pre, k)}
           S == {k \in 1..Len(z) : InRun(z, k)}
           c == Cardinality(R)
<1>1. n \in Nat /\ Len(z) \in Nat
  BY RegexLength
<1>2. n < Len(z) /\ (\A k \in 1..n : z[k] = pre[k]) /\ z[n + 1] = ")"
  BY DEF CutBy
<1>3. ")" \notin Quantifier /\ ")" \notin Literals
  BY LiteralIs DEF Quantifier, Optional, Structure
<1>4. ASSUME NEW k \in 1..n
      PROVE  /\ z[k] \in Literals <=> pre[k] \in Literals
             /\ (k < Len(z) => z[k + 1] \notin Quantifier) <=> (k < n => pre[k + 1] \notin Quantifier)
  <2>1. k < Len(z)
    BY <1>1, <1>2
  <2>2. CASE k = n
    BY <1>2, <1>3, <2>1, <2>2
  <2>3. CASE k # n
    <3>1. k < n /\ k + 1 \in 1..n
      BY <1>1, <2>3
    <3>. QED  BY <1>2, <2>1, <3>1
  <2>. QED  BY <2>2, <2>3
<1>5. ASSUME NEW k \in 1..n PROVE InRun(z, k) <=> InRun(pre, k)
  <2>1. \A l \in 1..k : l \in 1..n
    BY <1>1
  <2>. QED  BY <1>4, <2>1 DEF InRun
<1>6. ASSUME NEW k \in S PROVE k \in 1..n
  <2>1. k \in 1..Len(z) /\ InRun(z, k)
    OBVIOUS
  <2>2. SUFFICES ASSUME k > n PROVE FALSE
    BY <1>1, <2>1
  <2>3. n + 1 \in 1..k
    BY <1>1, <2>1, <2>2
  <2>4. z[n + 1] \in Literals
    BY <2>1, <2>3 DEF InRun
  <2>. QED  BY <1>2, <1>3, <2>4
<1>7. S = R
  <2>1. \A k \in 1..n : k \in 1..Len(z)
    BY <1>1, <1>2
  <2>. QED  BY <1>5, <1>6, <2>1
<1>8. c = Cardinality(S) /\ c = Cardinality({k \in 1 .. Len(pre) : InRun(pre, k)})
  BY <1>7
<1> HIDE DEF c, R
<1>9. LiteralRun(pre) = SubSeq(pre, 1, c) /\ c \in 0..n
  BY <1>8, RunIs
<1>10. LiteralRun(z) = SubSeq(z, 1, c)
  BY <1>8 DEF LiteralRun
<1>11. c \in Nat /\ 0 + c <= n /\ 0 + 1 = 1 /\ 0 + c = c
  BY <1>1, <1>9
<1>12. Slice(z, 0, c) = Slice(pre, 0, c)
  <2> DEFINE i == 0
  <2>1. i \in Nat /\ c \in Nat /\ i + c <= Len(pre)
    BY <1>11
  <2> HIDE DEF i
  <2>2. Slice(z, i, c) = Slice(pre, i, c)
    BY <2>1, SameSlice
  <2>. QED  BY <2>2 DEF i
<1>. QED  BY <1>9, <1>10, <1>11, <1>12 DEF Slice

\* Without a token that opens and closes nothing, the rest is as it was.
LEMMA TailCut ==
  ASSUME NEW pre \in Regexes, pre # << >>, pre[1] \notin {"(", "(?", ")"}, SelfClosed(pre),
         NEW z \in Regexes, CutBy(pre, z)
  PROVE  SelfClosed(Tail(pre)) /\ CutBy(Tail(pre), Tail(z))
<1> DEFINE n == Len(pre)
           t == Tail(pre)
           u == Tail(z)
<1>1. n \in Nat /\ n > 0 /\ Len(z) \in Nat
  BY RegexLength DEF Regexes
<1>2. n < Len(z) /\ (\A k \in 1..n : z[k] = pre[k]) /\ z[n + 1] = ")"
  BY DEF CutBy
<1>3. t \in Regexes /\ Len(t) = n - 1 /\ \A k \in 1..n - 1 : t[k] = pre[1 + k]
  BY TailIs
<1>4. u \in Regexes /\ Len(u) = Len(z) - 1 /\ \A k \in 1..Len(z) - 1 : u[k] = z[1 + k]
  <2>1. z # << >>
    BY <1>1, <1>2
  <2>. QED  BY <2>1, TailIs
<1>5. Depth(pre, 1, 1) = 0
  <2>1. Depth(pre, 1, 0) = 0 /\ 0 \in Nat
    BY DepthZero
  <2>2. Depth(pre, 1, 0 + 1) = Depth(pre, 1, 0) + Level(pre[0 + 1])
    BY <2>1, DepthStep
  <2>3. Level(pre[1]) = 0
    BY DEF Level
  <2>. QED  BY <2>1, <2>2, <2>3
<1> DEFINE m == n - 1
<1>6. m \in Nat /\ 1 + m = n
  BY <1>1
<1> HIDE DEF t, u, n
<1>7. \A k \in 0..m : Depth(t, 1, k) = Depth(pre, 1, 1 + k)
  <2> DEFINE d == 1
  <2>1. d \in Nat /\ \A k \in 1..m : t[k] = pre[d + k]
    BY <1>3
  <2> HIDE DEF d, m
  <2>2. \A k \in 0..m : Depth(pre, 1, d + k) = Depth(pre, 1, d) + Depth(t, 1, k)
    BY <1>3, <1>6, <2>1, DepthWithin, ZenonT(60)
  <2>3. \A k \in 0..m : Depth(t, 1, k) \in Int
    BY <1>6, DepthIsInt
  <2>. QED  BY <1>5, <2>2, <2>3 DEF d
<1>8. SelfClosed(t)
  <2>1. (\A k \in 0..n : Depth(pre, 1, k) >= 0) /\ Depth(pre, 1, n) = 0
    BY DEF SelfClosed, n
  <2>2. ASSUME NEW k \in 0..m PROVE Depth(t, 1, k) >= 0
    <3>1. 1 + k \in 0..n
      BY <1>6
    <3>. QED  BY <1>7, <2>1, <3>1
  <2>3. Depth(t, 1, m) = 0
    BY <1>6, <1>7, <2>1
  <2>. QED  BY <1>3, <2>2, <2>3 DEF SelfClosed
<1>9. CutBy(t, u)
  <2>1. Len(t) < Len(u)
    BY <1>1, <1>2, <1>3, <1>4
  <2>2. ASSUME NEW k \in 1..Len(t) PROVE u[k] = t[k]
    <3>1. k \in 1..n - 1 /\ k \in 1..Len(z) - 1 /\ 1 + k \in 1..n
      BY <1>1, <1>2, <1>3
    <3>. QED  BY <1>2, <1>3, <1>4, <3>1
  <2>3. u[Len(t) + 1] = ")"
    <3>1. Len(t) + 1 \in 1..Len(z) - 1 /\ 1 + (Len(t) + 1) = n + 1
      BY <1>1, <1>2, <1>3
    <3>. QED  BY <1>2, <1>4, <3>1
  <2>. QED  BY <2>1, <2>2, <2>3 DEF CutBy
<1>. QED  BY <1>8, <1>9 DEF t, u

\* The prefix found in a regex is that of what comes before the end of its group.
LEMMA PrefixOfCut ==
  \A pre \in Regexes : SelfClosed(pre) =>
    \A z \in Regexes : CutBy(pre, z) => extract_literal_prefix[z] = extract_literal_prefix[pre]
<1> DEFINE E == extract_literal_prefix
           Same(pre) == SelfClosed(pre) => \A z \in Regexes : CutBy(pre, z) => E[z] = E[pre]
           Bad == {q \in Regexes : ~Same(q)}
<1>1. SUFFICES ASSUME Bad # {} PROVE FALSE
  OBVIOUS
<1>2. PICK pre \in Bad : \A p \in Regexes : Len(p) < Len(pre) => p \notin Bad
  <2>1. Bad \in SUBSET Regexes
    OBVIOUS
  <2> HIDE DEF Bad
  <2>. QED  BY <1>1, <2>1, ShortestRegex
<1>3. pre \in Regexes /\ ~Same(pre)
  OBVIOUS
<1>4. \A p \in Regexes : Len(p) < Len(pre) => Same(p)
  BY <1>2
<1>5. SelfClosed(pre)
  BY <1>3
<1>6. PICK z \in Regexes : CutBy(pre, z) /\ E[z] # E[pre]
  BY <1>3
<1>7. E[z] = PrefixBody(E, z) /\ E[pre] = PrefixBody(E, pre)
  BY <1>3, ExtractionWalks
<1> HIDE DEF Bad, E
<1>8. Len(pre) \in Nat /\ Len(z) \in Nat /\ Len(pre) < Len(z) /\ z # << >>
      /\ (\A k \in 1..Len(pre) : z[k] = pre[k]) /\ z[Len(pre) + 1] = ")"
  <2>1. Len(pre) \in Nat /\ Len(z) \in Nat
    BY <1>3, RegexLength
  <2>. QED  BY <1>6, <2>1 DEF CutBy
<1>9. pre # << >> => Len(pre) > 0 /\ z[1] = pre[1]
  <2>1. pre # << >> => Len(pre) > 0
    BY <1>3 DEF Regexes
  <2>. QED  BY <1>8, <2>1
<1>10. LiteralRun(z) = LiteralRun(pre)
  BY <1>3, <1>6, SameRun
<1>11. CASE pre = << >>
  <2>1. z[1] = ")"
    BY <1>8, <1>11
  <2>2. PrefixBody(E, z) = AtLeastTwo(LiteralRun(z))
    BY <1>8, <2>1 DEF PrefixBody
  <2>3. PrefixBody(E, pre) = << >>
    BY <1>11 DEF PrefixBody
  <2>4. LiteralRun(pre) = << >>
    BY <1>11 DEF LiteralRun
  <2>5. AtLeastTwo(<< >>) = << >>
    BY DEF AtLeastTwo
  <2>. QED  BY <1>6, <1>7, <1>10, <2>2, <2>3, <2>4, <2>5
<1>12. CASE pre # << >> /\ pre[1] = "^"
  <2>1. PrefixBody(E, z) = E[Tail(z)] /\ PrefixBody(E, pre) = E[Tail(pre)]
    BY <1>8, <1>9, <1>12, Zenon DEF PrefixBody
  <2>2. SelfClosed(Tail(pre)) /\ CutBy(Tail(pre), Tail(z))
    BY <1>3, <1>5, <1>6, <1>12, TailCut
  <2>3. Tail(pre) \in Regexes /\ Len(Tail(pre)) < Len(pre) /\ Tail(z) \in Regexes
    BY <1>3, <1>8, <1>12, TailShorter
  <2>4. E[Tail(z)] = E[Tail(pre)]
    BY <1>4, <2>2, <2>3
  <2>. QED  BY <1>6, <1>7, <2>1, <2>4
<1>13. CASE pre # << >> /\ pre[1] # "^" /\ pre[1] # "("
  <2>1. PrefixBody(E, z) = AtLeastTwo(LiteralRun(z)) /\ PrefixBody(E, pre) = AtLeastTwo(LiteralRun(pre))
    BY <1>8, <1>9, <1>13, Zenon DEF PrefixBody
  <2>. QED  BY <1>6, <1>7, <1>10, <2>1
<1>14. CASE pre # << >> /\ pre[1] = "("
  <2> DEFINE C == Closing(pre, 1)
             b == GroupBody(pre)
  <2>1. Closings(pre, 1) # {}
    BY <1>3, <1>5, <1>14, SelfClosedEnds
  <2>2. /\ Closings(z, 1) # {} /\ Closing(z, 1) = C /\ C \in 2..Len(pre)
        /\ HasPipe(z, 1) <=> HasPipe(pre, 1)
        /\ Alternatives(z, 1) = Alternatives(pre, 1)
    BY <1>3, <1>6, <1>14, <2>1, SameGroup
  <2> HIDE DEF C, b
  <2>3. (C < Len(z) /\ z[C + 1] \in Optional) <=> (C < Len(pre) /\ pre[C + 1] \in Optional)
    <3>1. C < Len(z)
      BY <1>8, <2>2
    <3>2. CASE C = Len(pre)
      <4>1. z[C + 1] = ")" /\ ")" \notin Optional
        BY <1>8, <3>2 DEF Optional
      <4>. QED  BY <1>8, <3>2, <4>1
    <3>3. CASE C # Len(pre)
      <4>1. C < Len(pre) /\ C + 1 \in 1..Len(pre)
        BY <1>8, <2>2, <3>3
      <4>. QED  BY <1>8, <3>1, <4>1
    <3>. QED  BY <3>2, <3>3
  <2>4. E[Tail(z)] = E[Tail(pre)]
    <3>1. SelfClosed(b) /\ CutBy(b, Tail(pre))
      BY <1>3, <1>14, <2>1, ClosedGroup DEF b
    <3>2. CutBy(GroupBody(z), Tail(z))
      <4>1. z[1] \in {"(", "(?"}
        BY <1>9, <1>14
      <4>. QED  BY <1>8, <2>2, <4>1, ClosedGroup
    <3>3. C - 2 \in Nat /\ 1 + (C - 2) <= Len(pre) /\ b \in Regexes /\ Len(b) = C - 2
      BY <1>3, <1>14, GroupIs DEF b, C
    <3>4. GroupBody(z) = b
      <4> DEFINE i == 1
                 m == C - 2
      <4>1. i \in Nat /\ m \in Nat /\ i + m <= Len(pre)
        BY <3>3
      <4> HIDE DEF i, m
      <4>2. Slice(z, i, m) = Slice(pre, i, m)
        BY <1>3, <1>6, <4>1, SameSlice
      <4>3. GroupBody(z) = Slice(z, i, m) /\ b = Slice(pre, i, m)
        BY <2>2 DEF GroupBody, b, C, i, m
      <4>. QED  BY <4>2, <4>3
    <3>5. Len(b) < Len(pre)
      BY <1>8, <3>3
    <3>6. Tail(z) \in Regexes /\ Tail(pre) \in Regexes
      BY <1>3, <1>8, <1>14, TailShorter
    <3>7. E[Tail(z)] = E[b] /\ E[Tail(pre)] = E[b]
      BY <1>4, <3>1, <3>2, <3>3, <3>4, <3>5, <3>6
    <3>. QED  BY <3>7
  <2>5. z[1] = "("
    BY <1>9, <1>14
  <2> DEFINE B(r) == IF Closing(r, 1) < Len(r) /\ r[Closing(r, 1) + 1] \in Optional THEN <<>>
                     ELSE IF ~HasPipe(r, 1) THEN E[Tail(r)]
                     ELSE IF <<>> \in {E[a] : a \in Alternatives(r, 1)} THEN <<>>
                     ELSE AtLeastTwo(LongestCommonPrefix({E[a] : a \in Alternatives(r, 1)}))
  <2>6. PrefixBody(E, z) = B(z) /\ PrefixBody(E, pre) = B(pre)
    BY <1>8, <1>14, <2>5, Zenon DEF PrefixBody
  <2>7. B(z) = B(pre)
    BY <2>2, <2>3, <2>4, Zenon DEF C
  <2>. QED  BY <1>6, <1>7, <2>6, <2>7
<1>. QED  BY <1>11, <1>12, <1>13, <1>14

--------------------------------------------------------------------------------
\* The prefix found in a regex heads its words.

\* The first group of a regex is what its first element matches.
LEMMA OnceIsGroup ==
  ASSUME NEW re \in Regexes, re # << >>, re[1] = "("
  PROVE  /\ Once(Words, re) = Words[GroupBody(re)]
         /\ Follower(re) = IF Closing(re, 1) < Len(re) THEN re[Closing(re, 1) + 1] ELSE "end"
<1>1. re[1] \in {"(", "(?"}
  OBVIOUS
<1>2. Once(Words, re) = Words[SubSeq(re, 2, FirstEnd(re) - 1)]
  BY <1>1, Zenon DEF Once
<1>3. GroupBody(re) = SubSeq(re, 2, FirstEnd(re) - 1)
  BY <1>1, GroupIs
<1>4. FirstEnd(re) = Closing(re, 1)
  BY <1>1, Zenon DEF FirstEnd
<1>5. Follower(re) = IF Closing(re, 1) < Len(re) THEN re[Closing(re, 1) + 1] ELSE "end"
  BY <1>4, Zenon DEF Follower
<1>. QED  BY <1>2, <1>3, <1>5

\* What a head of two characters or more is a head of, the head that is kept is one of.
LEMMA AtLeastTwoHeads ==
  ASSUME NEW p \in Seq(Literals), NEW w \in Seq(Tokens), Heads(p, w)
  PROVE  Heads(AtLeastTwo(p), w)
  BY NoneHeads DEF AtLeastTwo

\* The extraction never takes a wrong prefix of a regex without a pipe outside its
\* groups: a shortest regex of which it did would have shorter parts to blame.
LEMMA PrefixHeads ==
  \A re \in Regexes : OuterPipes(re) = {} =>
    \A w \in Words[re] : Heads(extract_literal_prefix[re], w)
<1> DEFINE E == extract_literal_prefix
           Fine(re) == OuterPipes(re) = {} => \A w \in Words[re] : Heads(E[re], w)
           Bad == {q \in Regexes : ~Fine(q)}
<1>1. SUFFICES ASSUME Bad # {} PROVE FALSE
  OBVIOUS
<1>2. PICK re \in Bad : \A p \in Regexes : Len(p) < Len(re) => p \notin Bad
  <2>1. Bad \in SUBSET Regexes
    OBVIOUS
  <2> HIDE DEF Bad
  <2>. QED  BY <1>1, <2>1, ShortestRegex
<1>3. re \in Regexes /\ ~Fine(re)
  OBVIOUS
<1>4. ASSUME NEW p \in Regexes, Len(p) < Len(re), OuterPipes(p) = {}, NEW w \in Words[p]
      PROVE  Heads(E[p], w)
  BY <1>2, <1>4
<1>5. OuterPipes(re) = {}
  BY <1>3
<1>6. PICK w \in Words[re] : ~Heads(E[re], w)
  BY <1>3
<1>7. E[re] = PrefixBody(E, re)
  BY <1>3, ExtractionWalks
<1>8. \A q \in Regexes : E[q] \in Seq(Literals)
  BY ExtractionIsString
<1> HIDE DEF Bad, E
<1>9. \A q \in Regexes : Words[q] \subseteq Seq(Tokens)
  BY WordsWalk DEF Language
<1>10. w \in Seq(Tokens) /\ E[re] # << >>
  BY <1>3, <1>6, <1>9, NoneHeads
<1>11. Seq(Literals) \subseteq Seq(Tokens)
  BY DEF Tokens
<1>12. re # << >>
  <2>1. SUFFICES ASSUME re = << >> PROVE FALSE
    OBVIOUS
  <2>2. PrefixBody(E, re) = << >>
    BY <2>1 DEF PrefixBody
  <2>. QED  BY <1>7, <1>10, <2>2
<1>13. Len(re) \in Nat
  BY <1>3, RegexLength
<1>14. CASE re[1] = "^"
  <2> DEFINE t == Tail(re)
  <2>1. E[re] = E[t]
    BY <1>7, <1>12, <1>14, Zenon DEF PrefixBody
  <2>2. t \in Regexes /\ Len(t) < Len(re) /\ OuterPipes(t) = {}
    BY <1>3, <1>5, <1>12, <1>14, TailShorter, TailPipes
  <2>3. /\ Follower(re) = IF 1 < Len(re) THEN re[2] ELSE "end"
        /\ Follower(re) \notin Quantifier => Rest(re) = t
    BY <1>3, <1>12, <1>14, RestIsTail
  <2>4. CASE Follower(re) \in Quantifier
    <3>1. 1 < Len(re) /\ re[2] \in Quantifier
      BY <2>3, <2>4 DEF Quantifier, Optional
    <3>2. t # << >> /\ t[1] = re[2]
      <4>1. Len(t) = Len(re) - 1 /\ \A k \in 1..Len(re) - 1 : t[k] = re[1 + k]
        BY <1>3, <1>12, TailIs
      <4>2. 1 \in 1..Len(re) - 1 /\ Len(t) > 0
        BY <1>13, <3>1, <4>1
      <4>3. t[1] = re[1 + 1]
        BY <4>1, <4>2
      <4>4. 1 + 1 = 2
        OBVIOUS
      <4> HIDE DEF t
      <4>5. t # << >>
        BY <4>2
      <4>. QED  BY <4>3, <4>4, <4>5
    <3>3. t[1] \notin {"^", "("} /\ t[1] \notin Literals
      BY <3>1, <3>2, LiteralIs DEF Quantifier, Optional, Structure
    <3>4. E[t] = AtLeastTwo(LiteralRun(t))
      <4>1. E[t] = PrefixBody(E, t)
        BY <2>2, ExtractionWalks DEF E
      <4> HIDE DEF t
      <4>. QED  BY <3>2, <3>3, <4>1, Zenon DEF PrefixBody
    <3>5. LiteralRun(t) = << >>
      <4> HIDE DEF t
      <4> DEFINE c == Cardinality({n \in 1 .. Len(t) : InRun(t, n)})
      <4>1. LiteralRun(t) = SubSeq(t, 1, c) /\ c \in 0..Len(t) /\ InRun(t, c)
        BY <2>2, RunIs
      <4> HIDE DEF c
      <4>2. c = 0
        <5>1. Len(t) \in Nat
          BY <2>2, RegexLength
        <5>2. c > 0 => 1 \in 1..c
          BY <4>1, <5>1
        <5>. QED  BY <3>3, <4>1, <5>1, <5>2 DEF InRun
      <4>. QED  BY <4>1, <4>2
    <3>6. AtLeastTwo(<< >>) = << >>
      BY DEF AtLeastTwo
    <3>. QED  BY <1>10, <2>1, <3>4, <3>5, <3>6
  <2>5. CASE Follower(re) \notin Quantifier
    <3>1. Follower(re) \notin Optional
      BY <2>5 DEF Quantifier
    <3>2. PICK a \in Once(Words, re), r \in Words[Rest(re)] : w = a \o r
      BY <1>3, <1>5, <1>6, <1>12, <2>5, <3>1, FirstTaken
    <3>3. Once(Words, re) = {<< >>}
      BY <1>14, Zenon DEF Once
    <3>4. r \in Words[t] /\ r \in Seq(Tokens)
      BY <1>9, <2>2, <2>3, <2>5, <3>2
    <3>5. w = r
      <4>1. << >> \o r = r
        BY <3>4
      <4>. QED  BY <3>2, <3>3, <4>1
    <3> HIDE DEF t
    <3>6. Heads(E[t], r)
      BY <1>4, <2>2, <3>4
    <3>. QED  BY <1>6, <2>1, <3>5, <3>6
  <2>. QED  BY <2>4, <2>5
<1>15. CASE re[1] # "^" /\ re[1] # "("
  <2>1. E[re] = AtLeastTwo(LiteralRun(re))
    BY <1>7, <1>12, <1>15, Zenon DEF PrefixBody
  <2>2. Heads(LiteralRun(re), w)
    BY <1>3, <1>5, RunHeads
  <2>3. LiteralRun(re) \in Seq(Literals)
    BY <1>3, RunIsString
  <2>4. Heads(AtLeastTwo(LiteralRun(re)), w)
    BY <1>10, <2>2, <2>3, AtLeastTwoHeads
  <2>. QED  BY <1>6, <2>1, <2>4
<1>16. CASE re[1] = "("
  <2> DEFINE C == Closing(re, 1)
             b == GroupBody(re)
             S == {E[a] : a \in Alternatives(re, 1)}
  <2>1. ~(C < Len(re) /\ re[C + 1] \in Optional)
    <3>1. SUFFICES ASSUME C < Len(re) /\ re[C + 1] \in Optional PROVE FALSE
      OBVIOUS
    <3>2. PrefixBody(E, re) = << >>
      BY <1>12, <1>16, <3>1, Zenon DEF PrefixBody
    <3>. QED  BY <1>7, <1>10, <3>2
  <2>2. Once(Words, re) = Words[b]
    BY <1>3, <1>12, <1>16, OnceIsGroup
  <2>3. Follower(re) \notin Optional
    <3>1. Follower(re) = IF C < Len(re) THEN re[C + 1] ELSE "end"
      BY <1>3, <1>12, <1>16, OnceIsGroup
    <3>2. "end" \notin Optional
      BY DEF Optional
    <3>. QED  BY <2>1, <3>1, <3>2
  <2>4. PICK a \in Words[b], r \in Seq(Tokens) : w = a \o r
    <3>1. \E a \in Once(Words, re), r \in Seq(Tokens) : w = a \o r
      BY <1>3, <1>5, <1>12, <2>3, FirstTaken
    <3>. QED  BY <2>2, <3>1
  <2>5. re[1] \in {"(", "(?"}
    BY <1>16
  <2>6. b \in Regexes /\ Len(b) < Len(re)
    <3>1. C - 2 \in Nat /\ 1 + (C - 2) <= Len(re) /\ b \in Regexes /\ Len(b) = C - 2
      BY <1>3, <1>12, <2>5, GroupIs
    <3> HIDE DEF b, C
    <3>. QED  BY <1>13, <3>1
  <2>7. a \in Seq(Tokens)
    BY <1>9, <2>6
  <2>8. CASE ~HasPipe(re, 1)
    <3>1. E[re] = E[Tail(re)]
      BY <1>7, <1>12, <1>16, <2>1, <2>8, Zenon DEF PrefixBody
    <3>2. Closings(re, 1) # {} /\ TopPipes(re, 1) = {}
      BY <2>8 DEF HasPipe
    <3>3. SelfClosed(b) /\ CutBy(b, Tail(re))
      BY <1>3, <1>12, <2>5, <3>2, ClosedGroup
    <3>4. OuterPipes(b) = {}
      BY <1>3, <1>12, <2>5, <3>2, GroupPipes
    <3>5. Tail(re) \in Regexes
      BY <1>3, <1>12, TailShorter
    <3> HIDE DEF b
    <3>6. E[Tail(re)] = E[b]
      BY <2>6, <3>3, <3>5, PrefixOfCut DEF E
    <3>7. Heads(E[b], a)
      BY <1>4, <2>4, <2>6, <3>4
    <3>8. E[b] \in Seq(Tokens)
      BY <1>8, <1>11, <2>6
    <3>9. Heads(E[b], a \o r)
      BY <2>4, <2>7, <3>7, <3>8, HeadsOfJoined
    <3>. QED  BY <1>6, <2>4, <3>1, <3>6, <3>9
  <2>9. CASE HasPipe(re, 1)
    <3>1. E[re] = IF <<>> \in S THEN <<>> ELSE AtLeastTwo(LongestCommonPrefix(S))
      BY <1>7, <1>12, <1>16, <2>1, <2>9, Zenon DEF PrefixBody
    <3>2. E[re] = AtLeastTwo(LongestCommonPrefix(S))
      BY <1>10, <3>1
    <3>3. PICK c, d : Adjacent(b, c, d) /\ a \in Words[Part(b, c, d)]
      <4> HIDE DEF b
      <4>. QED  BY <2>4, <2>6, WordsOfParts
    <3> DEFINE p == Part(b, c, d)
    <3>4. p \in Alternatives(re, 1)
      BY <1>3, <1>12, <2>5, <3>3, PartIsAlternative
    <3>5. p \in Regexes /\ OuterPipes(p) = {}
      <4> HIDE DEF b
      <4>. QED  BY <2>6, <3>3, PartIs
    <3>6. Len(p) < Len(re)
      BY <1>3, <1>12, <3>4, AlternativesShorter
    <3>7. Heads(E[p], a)
      <4> HIDE DEF p
      <4>. QED  BY <1>4, <3>3, <3>5, <3>6 DEF p
    <3>8. E[p] \in S /\ S \subseteq Seq(Literals)
      <4>1. \A q \in Alternatives(re, 1) : q \in Regexes
        BY <1>3, <1>12, AlternativesShorter
      <4>. QED  BY <1>8, <3>4, <4>1
    <3> DEFINE l == LongestCommonPrefix(S)
               h == E[p]
    <3>9. l \in Seq(Literals) /\ IsPrefix(l, h)
      <4> HIDE DEF S, h
      <4>. QED  BY <3>8, CommonPrefixIsString DEF h
    <3> HIDE DEF l, S, p, h, b
    <3>10. h \in Seq(Tokens) /\ l \in Seq(Tokens)
      BY <1>11, <3>8, <3>9 DEF h
    <3>11. Heads(l, h)
      BY <3>9, <3>10, HeadsIsPrefix
    <3>12. Heads(l, a)
      BY <2>7, <3>7, <3>10, <3>11, HeadsOfHeads DEF h
    <3>13. Heads(l, w)
      BY <2>4, <2>7, <3>10, <3>12, HeadsOfJoined
    <3>14. Heads(AtLeastTwo(l), w)
      BY <1>10, <3>9, <3>13, AtLeastTwoHeads
    <3>. QED  BY <1>6, <3>2, <3>14 DEF l
  <2>. QED  BY <2>8, <2>9
<1>. QED  BY <1>14, <1>15, <1>16

--------------------------------------------------------------------------------
\* What a build makes of input files that it can parse.

\* Two sources in a row are one.
LEMMA CatOfRules ==
  ASSUME NEW a, NEW b, OfRules(a), OfRules(b)
  PROVE  OfRules(a \o b) /\ ToSet(a \o b) = ToSet(a) \cup ToSet(b)
<1> DEFINE A == ToSet(a) \cup ToSet(b)
           n == Len(a)
           m == Len(b)
           u == a \o b
<1>1. a \in Seq(A) /\ b \in Seq(A)
  <2>1. a \in Seq(ToSet(a)) /\ b \in Seq(ToSet(b))
    BY SeqIsString DEF OfRules
  <2>2. ToSet(a) \subseteq A /\ ToSet(b) \subseteq A
    OBVIOUS
  <2> HIDE DEF A
  <2>. QED  BY <2>1, <2>2, WiderString
<1>2. n \in Nat /\ m \in Nat /\ DOMAIN a = 1..n /\ DOMAIN b = 1..m
  BY SeqIsString DEF OfRules
<1>3. /\ u \in Seq(A) /\ Len(u) = n + m
      /\ \A i \in 1..n : u[i] = a[i]
      /\ \A i \in 1..m : u[n + i] = b[i]
  <2> HIDE DEF A
  <2>. QED  BY <1>1, ConcatIs
<1>4. DOMAIN u = 1..n + m /\ \A i \in 1..n + m : u[i] \in A
  <2> HIDE DEF A
  <2>. QED  BY <1>3, LenProperties, ElementOfSeq
<1>5. IsSeq(u)
  <2>1. u = [i \in 1..Len(u) |-> u[i]] /\ Len(u) \in Nat
    <3> HIDE DEF A, u
    <3>. QED  BY <1>3, LenProperties
  <2>. QED  BY <2>1 DEF IsSeq
<1>6. ToSet(u) = A
  <2>1. ASSUME NEW r \in ToSet(u) PROVE r \in A
    BY <1>4 DEF ToSet
  <2>2. ASSUME NEW r \in ToSet(a) PROVE r \in ToSet(u)
    <3>1. PICK i \in 1..n : r = a[i]
      BY <1>2 DEF ToSet
    <3> HIDE DEF u, n, m
    <3>2. i \in 1..n + m /\ u[i] = r
      BY <1>2, <1>3, <3>1
    <3>. QED  BY <1>4, <3>2 DEF ToSet
  <2>3. ASSUME NEW r \in ToSet(b) PROVE r \in ToSet(u)
    <3>1. PICK i \in 1..m : r = b[i]
      BY <1>2 DEF ToSet
    <3> HIDE DEF u, n, m
    <3>2. n + i \in 1..n + m /\ u[n + i] = r
      BY <1>2, <1>3, <3>1
    <3>. QED  BY <1>4, <3>2 DEF ToSet
  <2> HIDE DEF u
  <2>. QED  BY <2>1, <2>2, <2>3
<1>7. \A r \in A : IsRule(r) /\ r.exclude = Nothing
  BY DEF OfRules, ToSet
<1> HIDE DEF u, A
<1>8. \A i \in DOMAIN u : IsRule(u[i]) /\ u[i].exclude = Nothing
  BY <1>4, <1>7
<1>. QED  BY <1>5, <1>6, <1>8 DEF OfRules, u, A

\* The names of the files that a build can parse.
Parsable == {name \in DOMAIN Snapshots : Parses(Snapshots[name])}

\* Each source of files that parse offers rules of the schema.
LEMMA OffersOfRules ==
  ASSUME NEW name \in Parsable
  PROVE  /\ NpFilesOK(Snapshots[name])
         /\ OfRules(SpdbRules(Snapshots[name])) /\ OfRules(GitleaksRules(Snapshots[name]))
         /\ OfRules(NpRules(Snapshots[name])) /\ OfRules(HandAuthoredRules(Snapshots[name]))
         /\ OfRules(CustomRules(Snapshots[name]))
<1> DEFINE src == Snapshots[name]
<1>1. Parses(src) /\ name \in DOMAIN Snapshots
  BY DEF Parsable
<1>2. /\ src.gitleaks = Malformed \/ IsGitleaksFile(src.gitleaks)
      /\ src.spdb = Malformed \/ IsSpdbFile(src.spdb)
      /\ src.np = Malformed \/ NpFilesOK(src)
      /\ src.ha = Malformed \/ IsRuleFile(src.ha)
      /\ src.custom \in {Missing, Malformed} \/ IsRuleFile(src.custom)
  BY <1>1, SnapshotsAssumption, Zenon DEF NpFilesOK
<1> HIDE DEF src
<1>3. /\ IsGitleaksFile(src.gitleaks)
      /\ IsSpdbFile(src.spdb)
      /\ parse_spdb_file(src.spdb) # Nothing
      /\ NpFilesOK(src)
      /\ IsRuleFile(src.ha)
      /\ src.custom = Missing \/ IsRuleFile(src.custom)
  BY <1>1, <1>2 DEF Parses
<1>4. /\ NpFilesOK(src)
      /\ OfRules(SpdbRules(src)) /\ OfRules(GitleaksRules(src)) /\ OfRules(NpRules(src))
      /\ OfRules(HandAuthoredRules(src)) /\ OfRules(CustomRules(src))
  BY <1>3, GitleaksOfRules, SpdbOfRules, NpOfRules, HandAuthoredOfRules, CustomOfRules
<1>. QED  BY <1>4 DEF src

\* All that the sources offer, in the order of the merge.
Offered(src) ==
  SpdbRules(src) \o GitleaksRules(src) \o NpRules(src) \o HandAuthoredRules(src)
     \o CustomRules(src)

\* What the merge leaves of it.
Merged(src) == LastOfEachId(Offered(src))

\* The two steps that rewrite rules, on one rule.
Triggered(r) == IF r.subcategory = "email" THEN [r EXCEPT !.keywords = @ \cup {"@"}] ELSE r

\* fill_missing_prefixes on one rule.
Headed(r) == LET re == strip_posix_comments(r.regex) IN
             IF r.prefix = <<>> THEN [r EXCEPT !.prefix = extract_literal_prefix[re]] ELSE r

\* The two steps on all rules.
AllTriggered(S) == {Triggered(r) : r \in S}
AllHeaded(S) == {Headed(r) : r \in S}

\* The whole ruleset of a build.
Ruleset(src) == AllHeaded(AllTriggered(Merged(src)))

\* What is offered is what the five sources offer, all of it of the schema.
LEMMA OfferedIs ==
  ASSUME NEW name \in Parsable
  PROVE  /\ OfRules(Offered(Snapshots[name]))
         /\ ToSet(Offered(Snapshots[name])) =
              ToSet(SpdbRules(Snapshots[name])) \cup ToSet(GitleaksRules(Snapshots[name]))
              \cup ToSet(NpRules(Snapshots[name])) \cup ToSet(HandAuthoredRules(Snapshots[name]))
              \cup ToSet(CustomRules(Snapshots[name]))
  BY OffersOfRules, CatOfRules DEF Offered

\* inject_email_keyword adds a keyword and changes nothing else.
LEMMA TriggeredIs ==
  ASSUME NEW r, IsRule(r)
  PROVE  /\ IsRule(Triggered(r))
         /\ \A f \in RuleFields \ {"keywords"} : Triggered(r)[f] = r[f]
         /\ r.keywords \subseteq Triggered(r).keywords
         /\ r.subcategory = "email" => "@" \in Triggered(r).keywords
  BY DEF Triggered, IsRule, RuleFields

\* Without its comments a regex is still one.
LEMMA StrippedIsRegex ==
  ASSUME NEW re \in Regexes
  PROVE  strip_posix_comments(re) \in Regexes
<1> DEFINE S == Tokens \ {"(?#)"}
           t == Kept(re, S)
<1>1. re \in Seq(Tokens) /\ Tokens \cap S \subseteq Tokens
  BY DEF Regexes
<1>2. t \in Seq(Tokens)
  <2> HIDE DEF S
  <2>1. t \in Seq(Tokens \cap S)
    BY <1>1, KeptIsString
  <2> HIDE DEF t
  <2>. QED  BY <1>1, <2>1, WiderString
<1>. QED  BY <1>2 DEF strip_posix_comments, Regexes

\* fill_missing_prefixes sets the prefix, to literals, and changes nothing else.
LEMMA HeadedIs ==
  ASSUME NEW r, IsRule(r)
  PROVE  /\ IsRule(Headed(r))
         /\ \A f \in RuleFields \ {"prefix"} : Headed(r)[f] = r[f]
<1> DEFINE p == extract_literal_prefix[strip_posix_comments(r.regex)]
<1>1. p \in Seq(Literals)
  BY StrippedIsRegex, ExtractionIsString DEF IsRule
<1>2. Headed(r) = IF r.prefix = << >> THEN [r EXCEPT !.prefix = p] ELSE r
  BY Zenon DEF Headed
<1> HIDE DEF p
<1>. QED  BY <1>1, <1>2 DEF IsRule, RuleFields

\* The e-mail step keeps one rule per id.
LEMMA AllTriggeredRuleSet ==
  ASSUME NEW S, RuleSet(S)
  PROVE  RuleSet(AllTriggered(S))
<1> DEFINE f == [r \in S |-> Triggered(r)]
<1>1. \A r \in S : IsRule(f[r]) /\ f[r].exclude = Nothing /\ f[r].id = r.id
  <2>1. ASSUME NEW r \in S PROVE IsRule(f[r]) /\ f[r].exclude = Nothing /\ f[r].id = r.id
    <3>1. IsRule(r) /\ r.exclude = Nothing
      BY DEF RuleSet
    <3>. QED  BY <3>1, TriggeredIs DEF RuleFields
  <2>. QED  BY <2>1
<1>2. f = [r \in S |-> f[r]]
  OBVIOUS
<1>3. RuleSet({f[r] : r \in S})
  <2> HIDE DEF f
  <2>. QED  BY <1>1, <1>2, RewrittenRuleSet
<1>4. {f[r] : r \in S} = AllTriggered(S)
  BY DEF AllTriggered
<1>. QED  BY <1>3, <1>4

\* The prefix step keeps one rule per id.
LEMMA AllHeadedRuleSet ==
  ASSUME NEW S, RuleSet(S)
  PROVE  RuleSet(AllHeaded(S))
<1> DEFINE f == [r \in S |-> Headed(r)]
<1>1. \A r \in S : IsRule(f[r]) /\ f[r].exclude = Nothing /\ f[r].id = r.id
  <2>1. ASSUME NEW r \in S PROVE IsRule(f[r]) /\ f[r].exclude = Nothing /\ f[r].id = r.id
    <3>1. IsRule(r) /\ r.exclude = Nothing
      BY DEF RuleSet
    <3>. QED  BY <3>1, HeadedIs DEF RuleFields
  <2>. QED  BY <2>1
<1>2. f = [r \in S |-> f[r]]
  OBVIOUS
<1>3. RuleSet({f[r] : r \in S})
  <2> HIDE DEF f
  <2>. QED  BY <1>1, <1>2, RewrittenRuleSet
<1>4. {f[r] : r \in S} = AllHeaded(S)
  BY DEF AllHeaded
<1>. QED  BY <1>3, <1>4

\* The merged rules, with and without the rewriting, are rules of the schema, one
\* per id.
LEMMA MergedRuleSet ==
  ASSUME NEW name \in Parsable
  PROVE  /\ RuleSet(Merged(Snapshots[name]))
         /\ RuleSet(AllTriggered(Merged(Snapshots[name])))
         /\ RuleSet(Ruleset(Snapshots[name]))
  BY OfferedIs, LastRuleSet, AllTriggeredRuleSet, AllHeadedRuleSet DEF Merged, Ruleset

\* Every rule of the ruleset comes from one of the merged rules.
LEMMA RuleComesFrom ==
  ASSUME NEW name \in Parsable, NEW r \in Ruleset(Snapshots[name])
  PROVE  \E o \in Merged(Snapshots[name]) :
            /\ \A f \in RuleFields \ {"keywords", "prefix"} : r[f] = o[f]
            /\ o.keywords \subseteq r.keywords
            /\ o.subcategory = "email" => "@" \in r.keywords
<1>1. PICK q \in AllTriggered(Merged(Snapshots[name])) : r = Headed(q)
  BY DEF Ruleset, AllHeaded
<1>2. PICK o \in Merged(Snapshots[name]) : q = Triggered(o)
  BY DEF AllTriggered
<1>3. IsRule(o)
  BY MergedRuleSet DEF RuleSet
<1>4. /\ IsRule(q) /\ \A f \in RuleFields \ {"keywords"} : q[f] = o[f]
      /\ o.keywords \subseteq q.keywords
      /\ o.subcategory = "email" => "@" \in q.keywords
  BY <1>2, <1>3, TriggeredIs
<1>5. /\ \A f \in RuleFields \ {"prefix"} : r[f] = q[f]
      /\ r.keywords = q.keywords
  BY <1>1, <1>4, HeadedIs DEF RuleFields
<1>. QED  BY <1>4, <1>5

\* And the other way round, no rule is lost.
LEMMA RuleIsKept ==
  ASSUME NEW name \in Parsable, NEW o \in Merged(Snapshots[name])
  PROVE  \E r \in Ruleset(Snapshots[name]) : r.id = o.id
<1>1. Headed(Triggered(o)) \in Ruleset(Snapshots[name])
  BY DEF Ruleset, AllHeaded, AllTriggered
<1>2. IsRule(o)
  BY MergedRuleSet DEF RuleSet
<1>3. IsRule(Triggered(o)) /\ Triggered(o).id = o.id
  BY <1>2, TriggeredIs DEF RuleFields
<1>4. Headed(Triggered(o)).id = o.id
  BY <1>3, HeadedIs DEF RuleFields
<1>. QED  BY <1>1, <1>4

--------------------------------------------------------------------------------
\* The build, step by step.

\* The steps of a build from each one on.
FromWrite    == {"write"}
FromLimit    == FromWrite \cup {"limit"}
FromMerge    == FromLimit \cup {"validate", "prefixes", "email", "merge"}
FromCustom   == FromMerge \cup {"custom"}
FromHa       == FromCustom \cup {"ha"}
FromFixtures == FromHa \cup {"fixtures"}
FromNp       == FromFixtures \cup {"np"}
FromSpdb     == FromNp \cup {"spdb"}
FromGitleaks == FromSpdb \cup {"gitleaks"}

\* What has been parsed so far is what the input files offer.
ParsedSoFar ==
  /\ step \in FromGitleaks => Inputs.exclusions # Malformed
  /\ step \in FromSpdb => Inputs.gitleaks # Malformed /\ work.gl = GitleaksRules(Inputs)
  /\ step \in FromNp => /\ Inputs.spdb # Malformed /\ parse_spdb_file(Inputs.spdb) # Nothing
                        /\ work.spdb = SpdbRules(Inputs)
  /\ step \in FromFixtures => /\ Inputs.np # Malformed /\ work.np = NpRules(Inputs)
                              /\ work.fixtures = NpFixtures(Inputs)
  /\ step \in FromCustom => Inputs.ha # Malformed /\ work.ha = HandAuthoredRules(Inputs)
  /\ step \in FromMerge => Inputs.custom # Malformed /\ work.custom = CustomRules(Inputs)

\* And what has been made of it is what the steps so far are to make of it.
RewrittenSoFar ==
  /\ step \in Steps \ (FromMerge \ {"merge"}) => final = {}
  /\ step = "email" => final = Merged(Inputs)
  /\ step = "prefixes" => final = AllTriggered(Merged(Inputs))
  /\ step \in {"validate", "limit"} => final = Ruleset(Inputs)
  /\ step \in FromLimit => \A r \in final : ValidRule(r)
  /\ step = "write" => /\ final \subseteq Ruleset(Inputs)
                       /\ final = IF limit = Nothing THEN Ruleset(Inputs)
                                  ELSE Truncated(Ruleset(Inputs), limit)

\* A file that was written whole is from one reading of input files that parse.
Built(rules) ==
  /\ \E name \in Parsable : rules \subseteq Ruleset(Snapshots[name])
  /\ \A r \in rules : ValidRule(r)

\* The three files that a build writes, between builds and during one.
WrittenFiles ==
  /\ step \in FromHa => fixtures = NpFixtures(Inputs)
  /\ Whole(fixtures) => \E name \in DOMAIN Snapshots : fixtures = NpFixtures(Snapshots[name])
  /\ Whole(combined) => Built(combined)
  /\ Whole(curated) => \E rules : Built(rules) /\ curated = Curated(rules)

\* The types of the state of a build, and an ended process holds no rules.
Shape ==
  /\ sources \in DOMAIN Snapshots
  /\ step \in Steps \cup {"idle", "done", "failed"}
  /\ limit \in Limits
  /\ builds \in 0..MaxBuilds
  /\ Resting => work = NoWork /\ final = {}
  /\ DOMAIN work = {"gl", "spdb", "np", "ha", "custom", "fixtures"}

\* The inductive invariant of a build.
BuildInv == Shape /\ ParsedSoFar /\ RewrittenSoFar /\ WrittenFiles

\* It holds before the first build.
LEMMA BuildInit == Init => BuildInv
  BY LimitsAssumption
     DEF Init, BuildInv, Shape, ParsedSoFar, RewrittenSoFar, WrittenFiles, FromGitleaks,
         FromSpdb, FromNp, FromFixtures, FromHa, FromCustom, FromMerge, FromLimit, FromWrite,
         Steps, Whole, Resting, NoWork

\* A build that has ended.
LEMMA EndedKeeps ==
  ASSUME BuildInv, NEW how \in {"done", "failed"}, Ends(how), UNCHANGED Input,
         WrittenFiles'
  PROVE  BuildInv'
  BY LimitsAssumption
     DEF Ends, Input, BuildInv, Shape, ParsedSoFar, RewrittenSoFar, FromGitleaks,
         FromSpdb, FromNp, FromFixtures, FromHa, FromCustom, FromMerge, FromLimit, FromWrite,
         Steps, Resting, NoWork

\* A step that is not one of writing leaves the files be.
LEMMA FilesStay ==
  ASSUME WrittenFiles, UNCHANGED Files, UNCHANGED Input, step' \in FromHa => step \in FromHa
  PROVE  WrittenFiles'
  BY DEF WrittenFiles, Files, Input, Whole, Inputs

\* It is kept by every step of a build, parsing first.
LEMMA LoadExclusionsKeeps ==
  ASSUME BuildInv, LoadExclusions
  PROVE  BuildInv'
<1>1. CASE Ends("failed")
  <2>1. UNCHANGED Files /\ UNCHANGED Input /\ step' = "failed"
    BY <1>1 DEF LoadExclusions, Parse, Ends
  <2>2. WrittenFiles'
    BY <2>1, FilesStay DEF BuildInv, FromHa, FromCustom, FromMerge, FromLimit, FromWrite
  <2>. QED  BY <1>1, <2>1, <2>2, EndedKeeps
<1>2. CASE ~Ends("failed")
  BY <1>2 DEF Parse, Files, Input, BuildInv, Shape, ParsedSoFar, RewrittenSoFar, WrittenFiles,
         FromGitleaks, FromSpdb, FromNp, FromFixtures, FromHa, FromCustom, FromMerge, FromLimit,
         FromWrite, Steps, Resting, Inputs, Whole, LoadExclusions
<1>. QED  BY <1>1, <1>2

\* The patterns of gitleaks are parsed.
LEMMA ParseGitleaksKeeps ==
  ASSUME BuildInv, ParseGitleaks
  PROVE  BuildInv'
<1>1. CASE Ends("failed")
  <2>1. UNCHANGED Files /\ UNCHANGED Input /\ step' = "failed"
    BY <1>1 DEF ParseGitleaks, Parse, Ends
  <2>2. WrittenFiles'
    BY <2>1, FilesStay DEF BuildInv, FromHa, FromCustom, FromMerge, FromLimit, FromWrite
  <2>. QED  BY <1>1, <2>1, <2>2, EndedKeeps
<1>2. CASE ~Ends("failed")
  BY <1>2 DEF Parse, Files, Input, BuildInv, Shape, ParsedSoFar, RewrittenSoFar, WrittenFiles,
         FromGitleaks, FromSpdb, FromNp, FromFixtures, FromHa, FromCustom, FromMerge, FromLimit,
         FromWrite, Steps, Resting, Inputs, Whole, ParseGitleaks
<1>. QED  BY <1>1, <1>2

\* The patterns-db is parsed.
LEMMA ParseSpdbKeeps ==
  ASSUME BuildInv, ParseSpdb
  PROVE  BuildInv'
<1>1. CASE Ends("failed")
  <2>1. UNCHANGED Files /\ UNCHANGED Input /\ step' = "failed"
    BY <1>1 DEF ParseSpdb, Parse, Ends
  <2>2. WrittenFiles'
    BY <2>1, FilesStay DEF BuildInv, FromHa, FromCustom, FromMerge, FromLimit, FromWrite
  <2>. QED  BY <1>1, <2>1, <2>2, EndedKeeps
<1>2. CASE ~Ends("failed")
  BY <1>2 DEF Parse, Files, Input, BuildInv, Shape, ParsedSoFar, RewrittenSoFar, WrittenFiles,
         FromGitleaks, FromSpdb, FromNp, FromFixtures, FromHa, FromCustom, FromMerge, FromLimit,
         FromWrite, Steps, Resting, Inputs, Whole, ParseSpdb
<1>. QED  BY <1>1, <1>2

\* The Nosey Parker files are parsed, rules and fixtures.
LEMMA ParseNoseyParkerKeeps ==
  ASSUME BuildInv, ParseNoseyParker
  PROVE  BuildInv'
<1>1. CASE Ends("failed")
  <2>1. UNCHANGED Files /\ UNCHANGED Input /\ step' = "failed"
    BY <1>1 DEF ParseNoseyParker, Parse, Ends
  <2>2. WrittenFiles'
    BY <2>1, FilesStay DEF BuildInv, FromHa, FromCustom, FromMerge, FromLimit, FromWrite
  <2>. QED  BY <1>1, <2>1, <2>2, EndedKeeps
<1>2. CASE ~Ends("failed")
  BY <1>2 DEF Parse, Files, Input, BuildInv, Shape, ParsedSoFar, RewrittenSoFar, WrittenFiles,
         FromGitleaks, FromSpdb, FromNp, FromFixtures, FromHa, FromCustom, FromMerge, FromLimit,
         FromWrite, Steps, Resting, Inputs, Whole, ParseNoseyParker
<1>. QED  BY <1>1, <1>2

\* The hand-authored rules are parsed.
LEMMA ParseHandAuthoredKeeps ==
  ASSUME BuildInv, ParseHandAuthored
  PROVE  BuildInv'
<1>1. CASE Ends("failed")
  <2>1. UNCHANGED Files /\ UNCHANGED Input /\ step' = "failed"
    BY <1>1 DEF ParseHandAuthored, Parse, Ends
  <2>2. WrittenFiles'
    BY <2>1, FilesStay DEF BuildInv, FromHa, FromCustom, FromMerge, FromLimit, FromWrite
  <2>. QED  BY <1>1, <2>1, <2>2, EndedKeeps
<1>2. CASE ~Ends("failed")
  BY <1>2 DEF Parse, Files, Input, BuildInv, Shape, ParsedSoFar, RewrittenSoFar, WrittenFiles,
         FromGitleaks, FromSpdb, FromNp, FromFixtures, FromHa, FromCustom, FromMerge, FromLimit,
         FromWrite, Steps, Resting, Inputs, Whole, ParseHandAuthored
<1>. QED  BY <1>1, <1>2

\* The custom rules are parsed, if there are any.
LEMMA ParseCustomKeeps ==
  ASSUME BuildInv, ParseCustom
  PROVE  BuildInv'
<1>1. CASE Ends("failed")
  <2>1. UNCHANGED Files /\ UNCHANGED Input /\ step' = "failed"
    BY <1>1 DEF ParseCustom, Parse, Ends
  <2>2. WrittenFiles'
    BY <2>1, FilesStay DEF BuildInv, FromHa, FromCustom, FromMerge, FromLimit, FromWrite
  <2>. QED  BY <1>1, <2>1, <2>2, EndedKeeps
<1>2. CASE ~Ends("failed")
  BY <1>2 DEF Parse, Files, Input, BuildInv, Shape, ParsedSoFar, RewrittenSoFar, WrittenFiles,
         FromGitleaks, FromSpdb, FromNp, FromFixtures, FromHa, FromCustom, FromMerge, FromLimit,
         FromWrite, Steps, Resting, Inputs, Whole, ParseCustom
<1>. QED  BY <1>1, <1>2

\* A build starts, in place of the one that has ended or was killed.
LEMMA StartKeeps ==
  ASSUME BuildInv, Start
  PROVE  BuildInv'
  BY LimitsAssumption DEF Start, NoWork, BuildInv, Shape, ParsedSoFar, RewrittenSoFar, WrittenFiles,
         FromGitleaks, FromSpdb, FromNp, FromFixtures, FromHa, FromCustom, FromMerge, FromLimit,
         FromWrite, Steps, Resting, Inputs, Whole, Files, Input

\* Fixtures are written before the merge, whole or torn.
LEMMA WriteFixturesKeeps ==
  ASSUME BuildInv, WriteFixtures
  PROVE  BuildInv'
<1>1. CASE Ends("failed")
  <2>1. UNCHANGED Input /\ step' = "failed" /\ fixtures' \in {work.fixtures, Torn}
        /\ UNCHANGED <<combined, curated>> /\ step = "fixtures"
    BY <1>1 DEF WriteFixtures, Ends
  <2>2. WrittenFiles'
    BY <2>1 DEF BuildInv, Shape, ParsedSoFar, RewrittenSoFar, WrittenFiles,
         FromGitleaks, FromSpdb, FromNp, FromFixtures, FromHa, FromCustom, FromMerge, FromLimit,
         FromWrite, Steps, Resting, Inputs, Whole, Files, Input
  <2>. QED  BY <1>1, <2>1, <2>2, EndedKeeps
<1>2. CASE ~Ends("failed")
  BY <1>2 DEF WriteFixtures, BuildInv, Shape, ParsedSoFar, RewrittenSoFar, WrittenFiles,
         FromGitleaks, FromSpdb, FromNp, FromFixtures, FromHa, FromCustom, FromMerge, FromLimit,
         FromWrite, Steps, Resting, Inputs, Whole, Files, Input
<1>. QED  BY <1>1, <1>2

\* Before the merge every source was parsed.
LEMMA AllParsed ==
  ASSUME BuildInv, step \in FromMerge
  PROVE  /\ sources \in Parsable
         /\ work.spdb \o work.gl \o work.np \o work.ha \o work.custom = Offered(Inputs)
<1>1. Parses(Inputs)
  BY DEF Parses, BuildInv, Shape, ParsedSoFar, RewrittenSoFar, WrittenFiles,
         FromGitleaks, FromSpdb, FromNp, FromFixtures, FromHa, FromCustom, FromMerge, FromLimit,
         FromWrite, Steps, Resting, Inputs, Whole, Files, Input
<1>2. sources \in Parsable
  BY <1>1 DEF Parsable, Inputs, BuildInv, Shape
<1>3. /\ work.spdb = SpdbRules(Inputs) /\ work.gl = GitleaksRules(Inputs)
      /\ work.np = NpRules(Inputs) /\ work.ha = HandAuthoredRules(Inputs)
      /\ work.custom = CustomRules(Inputs)
  BY DEF BuildInv, ParsedSoFar, FromSpdb, FromNp, FromFixtures, FromHa, FromCustom
<1>. QED  BY <1>2, <1>3 DEF Offered

\* The merge, with later sources over earlier ones.
LEMMA MergeKeeps ==
  ASSUME BuildInv, Merge
  PROVE  BuildInv'
<1>1. /\ step = "merge"
      /\ final' = LastOfEachId(work.spdb \o work.gl \o work.np \o work.ha \o work.custom)
  BY Zenon DEF Merge, Rewrite
<1>2. final' = Merged(Inputs)
  BY <1>1, AllParsed DEF Merged, FromMerge
<1>3. step' = "email" /\ UNCHANGED <<work, limit, Files, Input>>
  BY Zenon DEF Merge, Rewrite
<1>. QED  BY <1>1, <1>2, <1>3 DEF BuildInv, Shape, ParsedSoFar, RewrittenSoFar, WrittenFiles,
         FromGitleaks, FromSpdb, FromNp, FromFixtures, FromHa, FromCustom, FromMerge, FromLimit,
         FromWrite, Steps, Resting, Inputs, Whole, Files, Input

\* The first rewriting step.
LEMMA InjectEmailKeywordKeeps ==
  ASSUME BuildInv, InjectEmailKeyword
  PROVE  BuildInv'
<1>1. step = "email" /\ step' = "prefixes" /\ UNCHANGED <<work, limit, Files, Input>>
      /\ final' = AllTriggered(final)
  BY Zenon DEF InjectEmailKeyword, Rewrite, AllTriggered, Triggered
<1>. QED  BY <1>1 DEF BuildInv, Shape, ParsedSoFar, RewrittenSoFar, WrittenFiles,
         FromGitleaks, FromSpdb, FromNp, FromFixtures, FromHa, FromCustom, FromMerge, FromLimit,
         FromWrite, Steps, Resting, Inputs, Whole, Files, Input

\* The second rewriting step.
LEMMA FillPrefixesKeeps ==
  ASSUME BuildInv, FillPrefixes
  PROVE  BuildInv'
<1>1. step = "prefixes" /\ step' = "validate" /\ UNCHANGED <<work, limit, Files, Input>>
      /\ final' = AllHeaded(final)
  BY Zenon DEF FillPrefixes, Rewrite, AllHeaded, Headed
<1>. QED  BY <1>1 DEF Ruleset, BuildInv, Shape, ParsedSoFar, RewrittenSoFar, WrittenFiles,
         FromGitleaks, FromSpdb, FromNp, FromFixtures, FromHa, FromCustom, FromMerge, FromLimit,
         FromWrite, Steps, Resting, Inputs, Whole, Files, Input

\* Validation stops the build or finds every rule valid.
LEMMA ValidateKeeps ==
  ASSUME BuildInv, Validate
  PROVE  BuildInv'
<1>1. CASE Ends("failed")
  <2>1. UNCHANGED Files /\ UNCHANGED Input /\ step' = "failed"
    BY <1>1 DEF Validate, Ends
  <2>2. WrittenFiles'
    BY <2>1, FilesStay DEF BuildInv, FromHa, FromCustom, FromMerge, FromLimit, FromWrite
  <2>. QED  BY <1>1, <2>1, <2>2, EndedKeeps
<1>2. CASE ~Ends("failed")
  <2>1. step = "validate" /\ step' = "limit" /\ UNCHANGED <<work, final, limit, Files, Input>>
        /\ \A r \in final : ValidRule(r)
    BY <1>2 DEF Validate
  <2>. QED  BY <2>1 DEF BuildInv, Shape, ParsedSoFar, RewrittenSoFar, WrittenFiles,
         FromGitleaks, FromSpdb, FromNp, FromFixtures, FromHa, FromCustom, FromMerge, FromLimit,
         FromWrite, Steps, Resting, Inputs, Whole, Files, Input
<1>. QED  BY <1>1, <1>2

\* A limit leaves rules out and changes none.
LEMMA ApplyLimitKeeps ==
  ASSUME BuildInv, ApplyLimit
  PROVE  BuildInv'
<1>1. step = "limit" /\ step' = "write" /\ UNCHANGED <<work, limit, Files, Input>>
      /\ final' = IF limit = Nothing THEN final ELSE Truncated(final, limit)
  BY Zenon DEF ApplyLimit, Rewrite
<1>2. final' \subseteq final
  BY <1>1 DEF Truncated
<1>. QED  BY <1>1, <1>2 DEF BuildInv, Shape, ParsedSoFar, RewrittenSoFar, WrittenFiles,
         FromGitleaks, FromSpdb, FromNp, FromFixtures, FromHa, FromCustom, FromMerge, FromLimit,
         FromWrite, Steps, Resting, Inputs, Whole, Files, Input

\* combined.yaml is written, whole or torn.
LEMMA WriteCombinedKeeps ==
  ASSUME BuildInv, WriteCombined
  PROVE  BuildInv'
<1>1. PICK how \in {"done", "failed"} : Ends(how)
  BY DEF WriteCombined
<1>2. /\ UNCHANGED Input /\ step' = how /\ combined' \in {final, Torn}
      /\ UNCHANGED <<fixtures, curated>> /\ step = "write"
  BY <1>1 DEF WriteCombined, Ends
<1>3. Built(final)
  <2>1. sources \in Parsable
    BY <1>2, AllParsed DEF FromMerge, FromLimit, FromWrite
  <2>2. final \subseteq Ruleset(Inputs) /\ \A r \in final : ValidRule(r)
    BY <1>2 DEF BuildInv, RewrittenSoFar, FromLimit, FromWrite
  <2>. QED  BY <2>1, <2>2 DEF Built, Inputs
<1>4. WrittenFiles'
  BY <1>2, <1>3 DEF BuildInv, Shape, ParsedSoFar, RewrittenSoFar, WrittenFiles,
         FromGitleaks, FromSpdb, FromNp, FromFixtures, FromHa, FromCustom, FromMerge, FromLimit,
         FromWrite, Steps, Resting, Inputs, Whole, Files, Input
<1>. QED  BY <1>1, <1>2, <1>4, EndedKeeps

\* A build that is killed leaves what it wrote.
LEMMA KilledKeeps ==
  ASSUME BuildInv, Killed
  PROVE  BuildInv'
<1>1. Ends("failed") /\ UNCHANGED Files /\ UNCHANGED Input /\ step' = "failed"
  BY DEF Killed, Ends
<1>2. WrittenFiles'
  BY <1>1, FilesStay DEF BuildInv, FromHa, FromCustom, FromMerge, FromLimit, FromWrite
<1>. QED  BY <1>1, <1>2, EndedKeeps

\* The input files are edited between builds only.
LEMMA EditKeeps ==
  ASSUME BuildInv, Edit
  PROVE  BuildInv'
  BY LimitsAssumption DEF Edit, BuildInv, Shape, ParsedSoFar, RewrittenSoFar, WrittenFiles,
         FromGitleaks, FromSpdb, FromNp, FromFixtures, FromHa, FromCustom, FromMerge, FromLimit,
         FromWrite, Steps, Resting, Inputs, Whole, Files, Input

\* curate_subset reads a whole file and writes another, whole or torn.
LEMMA CurateKeeps ==
  ASSUME BuildInv, Curate
  PROVE  BuildInv'
<1>1. Resting /\ Whole(combined) /\ curated' \in {Curated(combined), Torn}
      /\ UNCHANGED <<step, limit, work, final, fixtures, combined, Input>>
  BY Zenon DEF Curate, Whole
<1>2. Whole(curated') => \E rules : Built(rules) /\ curated' = Curated(rules)
  BY <1>1 DEF BuildInv, WrittenFiles, Whole
<1>. QED  BY <1>1, <1>2 DEF BuildInv, Shape, ParsedSoFar, RewrittenSoFar, WrittenFiles,
         FromGitleaks, FromSpdb, FromNp, FromFixtures, FromHa, FromCustom, FromMerge, FromLimit,
         FromWrite, Steps, Resting, Inputs, Whole, Files, Input

\* A step of something else.
LEMMA BuildStays ==
  ASSUME BuildInv, UNCHANGED vars
  PROVE  BuildInv'
  BY DEF vars, BuildInv, Shape, ParsedSoFar, RewrittenSoFar, WrittenFiles,
         FromGitleaks, FromSpdb, FromNp, FromFixtures, FromHa, FromCustom, FromMerge, FromLimit,
         FromWrite, Steps, Resting, Inputs, Whole, Files, Input

\* The invariant of the build is inductive.
LEMMA BuildNext ==
  ASSUME BuildInv, [Next]_vars
  PROVE  BuildInv'
  BY StartKeeps, LoadExclusionsKeeps, ParseGitleaksKeeps, ParseSpdbKeeps,
     ParseNoseyParkerKeeps, WriteFixturesKeeps, ParseHandAuthoredKeeps, ParseCustomKeeps,
     MergeKeeps, InjectEmailKeywordKeeps, FillPrefixesKeeps, ValidateKeeps, ApplyLimitKeeps,
     WriteCombinedKeeps, KilledKeeps, EditKeeps, CurateKeeps, BuildStays
     DEF Next, Build

--------------------------------------------------------------------------------
\* The gateway that loads the result.

\* A file that a build wrote has one rule of the schema per id.
LEMMA BuiltRuleSet ==
  ASSUME NEW S, Built(S)
  PROVE  RuleSet(S)
<1>1. PICK name \in Parsable : S \subseteq Ruleset(Snapshots[name])
  BY DEF Built
<1> DEFINE R == Ruleset(Snapshots[name])
<1>2. RuleSet(R) /\ S \in SUBSET R
  BY <1>1, MergedRuleSet
<1> HIDE DEF R
<1>. QED  BY <1>2, FewerRules

\* A curated rule.
Plainer(r) == [r EXCEPT !.prefix = <<>>, !.exclude = Nothing]

\* A curated file is a selection of those, with two fields reset.
LEMMA CuratedIs ==
  ASSUME NEW S
  PROVE  \E T \in SUBSET S : Curated(S) = {Plainer(r) : r \in T}
<1> DEFINE kept == {r \in S : r.source = "hand-authored" \/ r.subcategory # "generic"}
           picks == {r \in S \ kept : r.id \in DOMAIN VendorScore}
           Sooner(q, r) == \/ VendorScore[q.id] < VendorScore[r.id]
                           \/ /\ VendorScore[q.id] = VendorScore[r.id]
                              /\ Rank[q.id] < Rank[r.id]
           taken == {r \in picks :
                       Cardinality(kept) + Cardinality({q \in picks : Sooner(q, r)}) < Target}
<1>1. Curated(S) = {[r EXCEPT !.prefix = <<>>, !.exclude = Nothing] : r \in kept \cup taken}
  BY Zenon DEF Curated
<1>2. kept \cup taken \in SUBSET S
  OBVIOUS
<1> HIDE DEF kept, taken
<1>3. Curated(S) = {Plainer(r) : r \in kept \cup taken}
  BY <1>1, Zenon DEF Plainer
<1>. QED  BY <1>2, <1>3

\* Resetting the two fields leaves the others.
LEMMA PlainerIs ==
  ASSUME NEW r, IsRule(r)
  PROVE  /\ IsRule(Plainer(r)) /\ Plainer(r).exclude = Nothing /\ Plainer(r).prefix = << >>
         /\ \A f \in RuleFields \ {"prefix", "exclude"} : Plainer(r)[f] = r[f]
  BY EmptyIsString DEF Plainer, IsRule, RuleFields

\* So has a curated file, and its rules are those of the build in all other fields.
LEMMA CuratedRuleSet ==
  ASSUME NEW S, Built(S)
  PROVE  /\ RuleSet(Curated(S)) /\ \A r \in Curated(S) : r.prefix = << >>
         /\ \A r \in Curated(S) : \E q \in S :
               \A f \in RuleFields \ {"prefix", "exclude"} : r[f] = q[f]
<1>1. PICK T \in SUBSET S : Curated(S) = {Plainer(r) : r \in T}
  BY CuratedIs
<1>2. RuleSet(T) /\ RuleSet(S)
  BY BuiltRuleSet, FewerRules
<1> DEFINE f == [r \in T |-> Plainer(r)]
<1>3. \A r \in T : IsRule(f[r]) /\ f[r].exclude = Nothing /\ f[r].id = r.id
  <2>1. ASSUME NEW r \in T PROVE IsRule(f[r]) /\ f[r].exclude = Nothing /\ f[r].id = r.id
    <3>1. IsRule(r)
      BY <1>2 DEF RuleSet
    <3>. QED  BY <3>1, PlainerIs DEF RuleFields
  <2>. QED  BY <2>1
<1>4. f = [r \in T |-> f[r]] /\ {f[r] : r \in T} = Curated(S)
  BY <1>1
<1>5. RuleSet({f[r] : r \in T})
  <2> HIDE DEF f
  <2>. QED  BY <1>2, <1>3, <1>4, RewrittenRuleSet
<1>6. ASSUME NEW r \in Curated(S)
      PROVE  r.prefix = << >> /\ \E q \in S :
                \A g \in RuleFields \ {"prefix", "exclude"} : r[g] = q[g]
  <2>1. PICK q \in T : r = Plainer(q)
    BY <1>1
  <2>2. IsRule(q) /\ q \in S
    BY <1>2 DEF RuleSet
  <2>. QED  BY <2>1, <2>2, PlainerIs
<1>. QED  BY <1>4, <1>5, <1>6

\* Nothing is ever loaded but a whole file.
DeployInv ==
  /\ BuildInv
  /\ Whole(embedded) => Built(embedded)
  /\ loaded \in {NotLoaded, Panicked} \/ RuleSet(loaded)
  /\ redaction # Nothing => loaded \notin {NotLoaded, Panicked}

\* DeployInv holds before the first gateway.
LEMMA DeployInitInv == DeployInit => DeployInv
  BY BuildInit DEF DeployInit, DeployInv, Whole

\* It is kept by builds, by cargo build, by the start of a gateway and by a redaction.
LEMMA DeployStep == DeployInv /\ [DeployNext]_allVars => DeployInv'
<1> SUFFICES ASSUME DeployInv, [DeployNext]_allVars
             PROVE  DeployInv'
  OBVIOUS
<1>1. ASSUME UNCHANGED vars PROVE BuildInv'
  BY <1>1, BuildStays DEF DeployInv
<1>2. CASE Next /\ redaction' = Nothing /\ UNCHANGED <<embedded, loaded>>
  <2>1. BuildInv'
    BY <1>2, BuildNext DEF DeployInv
  <2>. QED  BY <1>2, <2>1 DEF DeployInv, Whole, NotLoaded, Panicked
<1>3. CASE Compile
  <2>1. UNCHANGED vars /\ embedded' = combined /\ loaded' = NotLoaded /\ redaction' = Nothing
    BY <1>3 DEF Compile
  <2>2. BuildInv'
    BY <1>1, <2>1
  <2>3. Whole(combined) => Built(combined)
    BY DEF DeployInv, BuildInv, WrittenFiles
  <2>. QED  BY <2>1, <2>2, <2>3 DEF DeployInv, Whole, NotLoaded, Panicked
<1>4. CASE StartGateway
  <2>1. PICK rules \in {embedded, combined, curated} :
            loaded' = IF Loadable(rules) /\ Compiled(rules) THEN rules ELSE Panicked
    BY <1>4 DEF StartGateway
  <2>2. UNCHANGED <<vars, embedded>> /\ redaction' = Nothing
    BY <1>4 DEF StartGateway
  <2>3. Whole(rules) => RuleSet(rules)
    BY BuiltRuleSet, CuratedRuleSet DEF DeployInv, BuildInv, WrittenFiles
  <2>4. loaded' \in {NotLoaded, Panicked} \/ RuleSet(loaded')
    BY <2>1, <2>3 DEF Loadable
  <2>5. BuildInv'
    BY <1>1, <2>2
  <2>. QED  BY <2>2, <2>4, <2>5 DEF DeployInv, Whole, NotLoaded, Panicked
<1>5. CASE Redact
  <2>1. UNCHANGED <<vars, embedded, loaded>> /\ loaded \notin {NotLoaded, Panicked}
    BY <1>5 DEF Redact
  <2>2. BuildInv'
    BY <1>1, <2>1
  <2>. QED  BY <2>1, <2>2 DEF DeployInv, Whole, NotLoaded, Panicked
<1>6. CASE UNCHANGED allVars
  <2>1. UNCHANGED <<vars, embedded, loaded, redaction>>
    BY <1>6 DEF allVars
  <2>2. BuildInv'
    BY <1>1, <2>1
  <2>. QED  BY <2>1, <2>2 DEF DeployInv, Whole, NotLoaded, Panicked
<1>. QED  BY <1>2, <1>3, <1>4, <1>5, <1>6 DEF DeployNext

\* DeployInv is an invariant.
LEMMA DeployInvHolds == DeploySpec => []DeployInv
  BY DeployInitInv, DeployStep, PTL DEF DeploySpec

\* The rules in memory are one per id at every step from the merge on.
LEMMA FinalRuleSet ==
  ASSUME BuildInv
  PROVE  RuleSet(final)
<1>1. CASE final = {}
  BY <1>1, FS_EmptySet DEF RuleSet, OnePerId
<1>2. CASE final # {}
  <2>1. step \in FromMerge
    BY <1>2 DEF BuildInv, Shape, Resting, RewrittenSoFar
  <2>2. sources \in Parsable
    BY <2>1, AllParsed
  <2>3. RuleSet(Merged(Inputs)) /\ RuleSet(AllTriggered(Merged(Inputs))) /\ RuleSet(Ruleset(Inputs))
    BY <2>2, MergedRuleSet DEF Inputs
  <2>4. step \in {"merge", "email", "prefixes", "validate", "limit", "write"}
    BY <2>1 DEF FromMerge, FromLimit, FromWrite
  <2>5. step # "merge"
    BY <1>2 DEF BuildInv, RewrittenSoFar, Steps, FromMerge
  <2>6. \/ final \in {Merged(Inputs), AllTriggered(Merged(Inputs))}
        \/ final \subseteq Ruleset(Inputs)
    BY <2>4, <2>5 DEF BuildInv, RewrittenSoFar
  <2>. QED  BY <2>3, <2>6, FewerRules
<1>. QED  BY <1>1, <1>2

\* Fixtures are of rules with examples.
LEMMA FixturesHaveExamples ==
  ASSUME NEW src, NEW f \in NpFixtures(src)
  PROVE  f.examples \cup f.negative # {}
  BY DEF NpFixtures

\* The invariant of the build implies its type invariant.
LEMMA BuildTypeOK ==
  ASSUME BuildInv
  PROVE  TypeOK
<1>1. RulesOK(final)
  BY FinalRuleSet, RuleSetOK
<1>2. Whole(combined) => RulesOK(combined)
  BY BuiltRuleSet, RuleSetOK DEF BuildInv, WrittenFiles
<1>3. Whole(curated) => RulesOK(curated) /\ \A r \in curated : r.prefix = << >>
  BY CuratedRuleSet, RuleSetOK DEF BuildInv, WrittenFiles
<1>4. Whole(fixtures) => \A f \in fixtures : f.examples \cup f.negative # {}
  BY FixturesHaveExamples DEF BuildInv, WrittenFiles
<1>. QED  BY <1>1, <1>2, <1>3, <1>4 DEF TypeOK, BuildInv, Shape

\* Every file that is written whole, the embedded one and the rules a gateway holds have one
\* rule of the schema per id, and no redaction is made without rules (run in
\* src/rule_pipeline.rs, NORMALIZED_RULES in src/detection/mod.rs).
THEOREM DeployTypeCorrect == DeploySpec => []DeployTypeOK
<1>1. DeployInv => DeployTypeOK
  <2> SUFFICES ASSUME DeployInv PROVE DeployTypeOK
    OBVIOUS
  <2>1. TypeOK
    BY BuildTypeOK DEF DeployInv
  <2>2. embedded \in {Missing, Torn} \/ RulesOK(embedded)
    BY BuiltRuleSet, RuleSetOK DEF DeployInv, Whole
  <2>3. loaded \in {NotLoaded, Panicked} \/ RulesOK(loaded)
    BY RuleSetOK DEF DeployInv
  <2>. QED  BY <2>1, <2>2, <2>3 DEF DeployTypeOK, DeployInv
<1>. QED  BY <1>1, DeployInvHolds, PTL

--------------------------------------------------------------------------------
\* What every written file says.

\* A file of rules: of a build, or curated from one.
BuiltFiles(rules) == Built(rules) \/ \E all : Built(all) /\ rules = Curated(all)

\* A rule of a written file, curated or not, and where it comes from.
LEMMA BuiltRuleComesFrom ==
  ASSUME NEW rules, BuiltFiles(rules), NEW r \in rules
  PROVE  \E name \in Parsable : \E q \in Ruleset(Snapshots[name]) :
            ValidRule(q) /\ \A f \in RuleFields \ {"prefix", "exclude"} : r[f] = q[f]
<1>1. ASSUME NEW all, Built(all), NEW q \in all
      PROVE  \E name \in Parsable : q \in Ruleset(Snapshots[name]) /\ ValidRule(q)
  BY <1>1 DEF Built
<1>2. CASE Built(rules)
  BY <1>1, <1>2
<1>3. CASE \E all : Built(all) /\ rules = Curated(all)
  <2>1. PICK all : Built(all) /\ rules = Curated(all)
    BY <1>3
  <2>2. PICK q \in all : \A f \in RuleFields \ {"prefix", "exclude"} : r[f] = q[f]
    BY <2>1, CuratedRuleSet
  <2>. QED  BY <1>1, <2>1, <2>2
<1>. QED  BY <1>2, <1>3 DEF BuiltFiles

\* There are no others.
LEMMA WrittenAreBuilt ==
  ASSUME DeployInv
  PROVE  \A rules \in {combined, curated, embedded} : Whole(rules) => BuiltFiles(rules)
  BY DEF DeployInv, BuildInv, WrittenFiles, BuiltFiles

\* In every file that is written whole, a rule for e-mail addresses has the keyword "@",
\* without which the keyword filter would never run its regex, whatever the input files
\* are and however builds are stopped (inject_email_keyword in src/rule_pipeline.rs).
THEOREM EmailRulesAlwaysTrigger == DeploySpec => []EmailRulesHaveTrigger
<1>1. DeployInv => EmailRulesHaveTrigger
  <2> SUFFICES ASSUME DeployInv, NEW rules \in {combined, curated}, Whole(rules),
                      NEW r \in rules, r.subcategory = "email"
               PROVE  "@" \in r.keywords
    BY DEF EmailRulesHaveTrigger
  <2>1. BuiltFiles(rules)
    BY WrittenAreBuilt
  <2>2. PICK name \in Parsable : \E q \in Ruleset(Snapshots[name]) :
            ValidRule(q) /\ \A f \in RuleFields \ {"prefix", "exclude"} : r[f] = q[f]
    BY <2>1, BuiltRuleComesFrom
  <2>3. PICK q \in Ruleset(Snapshots[name]) :
            ValidRule(q) /\ \A f \in RuleFields \ {"prefix", "exclude"} : r[f] = q[f]
    BY <2>2
  <2>4. r.subcategory = q.subcategory /\ r.keywords = q.keywords
    BY <2>3 DEF RuleFields
  <2>5. PICK o \in Merged(Snapshots[name]) :
            /\ \A f \in RuleFields \ {"keywords", "prefix"} : q[f] = o[f]
            /\ o.keywords \subseteq q.keywords
            /\ o.subcategory = "email" => "@" \in q.keywords
    BY RuleComesFrom
  <2>6. q.subcategory = o.subcategory
    BY <2>5 DEF RuleFields
  <2>. QED  BY <2>4, <2>5, <2>6
<1>. QED  BY <1>1, DeployInvHolds, PTL

\* What is offered is merged.
LEMMA OfferedIdKept ==
  ASSUME NEW name \in Parsable, NEW o \in ToSet(Offered(Snapshots[name]))
  PROVE  \E r \in Ruleset(Snapshots[name]) : r.id = o.id
<1> DEFINE s == Offered(Snapshots[name])
<1>1. IsSeq(s)
  BY OfferedIs DEF OfRules
<1>2. PICK i \in DOMAIN s : o = s[i]
  BY DEF ToSet
<1>3. PICK q \in LastOfEachId(s) : q.id = s[i].id
  <2> HIDE DEF s
  <2>. QED  BY <1>1, LastHasAllIds
<1>4. q \in Merged(Snapshots[name])
  BY DEF Merged
<1>. QED  BY <1>2, <1>3, <1>4, RuleIsKept

\* At the last step of a build without a limit, and nothing but that.
LEMMA WritesRuleset ==
  ASSUME BuildInv, step = "write", limit = Nothing
  PROVE  /\ sources \in Parsable
         /\ final = Ruleset(Snapshots[sources])
         /\ fixtures = NpFixtures(Snapshots[sources])
<1>1. step \in FromMerge /\ step \in FromHa
  BY DEF FromHa, FromCustom, FromMerge, FromLimit, FromWrite
<1>. QED  BY <1>1, AllParsed DEF BuildInv, RewrittenSoFar, WrittenFiles, Inputs

\* A build without a limit writes fixtures only for rules that it also writes: none is lost
\* in the merge, where another source may win its id, nor in the steps after it (run in
\* src/rule_pipeline.rs).
THEOREM FixturesAlwaysMatchRules == DeploySpec => []FixturesMatchRules
<1>1. DeployInv => FixturesMatchRules
  <2> SUFFICES ASSUME DeployInv, step = "write", limit = Nothing, NEW f \in fixtures
               PROVE  \E r \in final : f.id = r.id
    BY DEF FixturesMatchRules
  <2> DEFINE src == Snapshots[sources]
  <2>1. sources \in Parsable /\ final = Ruleset(src) /\ fixtures = NpFixtures(src)
    BY WritesRuleset DEF DeployInv
  <2>2. PICK q \in ToSet(NpIncluded(src)) : f.id = q.id
    BY <2>1 DEF NpFixtures
  <2>3. /\ DOMAIN NpRules(src) = DOMAIN NpIncluded(src)
        /\ \A i \in DOMAIN NpRules(src) : NpRules(src)[i].id = NpIncluded(src)[i].id
    BY <2>1, OffersOfRules, NpOfRules
  <2>4. PICK i \in DOMAIN NpRules(src) : f.id = NpRules(src)[i].id
    BY <2>2, <2>3 DEF ToSet
  <2>5. NpRules(src)[i] \in ToSet(NpRules(src))
    BY DEF ToSet
  <2>6. NpRules(src)[i] \in ToSet(Offered(src))
    BY <2>1, <2>5, OfferedIs
  <2>. QED  BY <2>1, <2>4, <2>6, OfferedIdKept
<1>. QED  BY <1>1, DeployInvHolds, PTL

\* No vendor brings a prefix.
LEMMA VendorsBringNoPrefix ==
  ASSUME NEW src
  PROVE  \A q \in ToSet(SpdbRules(src)) \cup ToSet(GitleaksRules(src)) \cup ToSet(NpRules(src)) :
            q.prefix = << >>
<1>1. \A id, source, row, confidence, regex, keywords, checksum :
        Normalized(id, source, row, confidence, regex, keywords, checksum).prefix = << >>
  BY DEF Normalized
<1>2. ASSUME NEW q \in ToSet(GitleaksRules(src)) PROVE q.prefix = << >>
  <2> DEFINE kept == Kept(src.gitleaks, {r \in ToSet(src.gitleaks) :
                                           Included(src, <<r.id>>) /\ r.regex # Nothing})
             t == GitleaksRules(src)
  <2>1. t = [i \in DOMAIN kept |->
               Normalized(<<"gl", kept[i].id>>, "gitleaks", gl_subcategory(kept[i].id),
                          infer_confidence_gitleaks(kept[i].regex), kept[i].regex,
                          kept[i].keywords, Nothing)]
    BY Zenon DEF GitleaksRules
  <2> HIDE DEF kept
  <2>2. PICK i \in DOMAIN t : q = t[i]
    BY DEF ToSet
  <2> HIDE DEF t
  <2>3. i \in DOMAIN kept
    BY <2>1
  <2>. QED  BY <1>1, <2>1, <2>2, <2>3
<1>3. ASSUME NEW q \in ToSet(SpdbRules(src)) PROVE q.prefix = << >>
  <2> DEFINE pats == parse_spdb_file(src.spdb)
             kept == Kept(pats, {p \in ToSet(pats) : /\ p.name \in DOMAIN SpdbAllowList
                                                     /\ Included(src, <<p.name>>)})
             Nth(i) == Cardinality({j \in 1..i : slugify(kept[j].name) = slugify(kept[i].name)})
             Id(i)  == <<"spdb", slugify(kept[i].name)>> \o
                          (IF Nth(i) = 1 THEN << >> ELSE <<ToString(Nth(i))>>)
             t == SpdbRules(src)
  <2>1. t = [i \in DOMAIN kept |->
               LET sub == spdb_subcategory(kept[i].name) IN
               Normalized(Id(i), "secrets-patterns-db", <<"pii", sub>>, kept[i].confidence,
                          kept[i].regex, {}, IF sub = "cc" THEN "luhn" ELSE Nothing)]
    BY Zenon DEF SpdbRules
  <2> HIDE DEF kept, Id
  <2>2. PICK i \in DOMAIN t : q = t[i]
    BY DEF ToSet
  <2> HIDE DEF t
  <2>3. i \in DOMAIN kept
    BY <2>1
  <2> DEFINE sub == spdb_subcategory(kept[i].name)
  <2>4. t[i] = Normalized(Id(i), "secrets-patterns-db", <<"pii", sub>>, kept[i].confidence,
                          kept[i].regex, {}, IF sub = "cc" THEN "luhn" ELSE Nothing)
    BY <2>1, <2>3
  <2>. QED  BY <1>1, <2>2, <2>4
<1>4. ASSUME NEW q \in ToSet(NpRules(src)) PROVE q.prefix = << >>
  <2> DEFINE kept == NpIncluded(src)
             t == NpRules(src)
  <2>1. t = [i \in DOMAIN kept |->
               Normalized(kept[i].id, "nosey-parker", np_subcategory(kept[i].id),
                          infer_confidence_np(kept[i].categories), kept[i].pattern, {}, Nothing)]
    BY Zenon DEF NpRules
  <2> HIDE DEF kept
  <2>2. PICK i \in DOMAIN t : q = t[i]
    BY DEF ToSet
  <2> HIDE DEF t
  <2>3. i \in DOMAIN kept
    BY <2>1
  <2>. QED  BY <1>1, <2>1, <2>2, <2>3
<1>. QED  BY <1>2, <1>3, <1>4

\* A prefix that was found in a regex is the head of everything the regex matches, however
\* its groups are nested or left open, unless a pipe lies outside all of them
\* (extract_literal_prefix in src/rule_pipeline.rs).
THEOREM PrefixAlwaysHeadsEveryMatch == DeploySpec => []PrefixHeadsEveryMatch
<1>1. DeployInv => PrefixHeadsEveryMatch
  <2> SUFFICES ASSUME DeployInv, step = "write", NEW r \in final,
                      r.prefix # << >>,
                      ~ \E c \in ToSet(HandAuthoredRules(Inputs)) \cup ToSet(CustomRules(Inputs)) :
                            c.id = r.id /\ c.prefix = r.prefix,
                      OuterPipes(strip_posix_comments(r.regex)) = {},
                      NEW w \in Words[strip_posix_comments(r.regex)]
               PROVE  IsPrefix(r.prefix, w)
    BY DEF PrefixHeadsEveryMatch
  <2> DEFINE src == Snapshots[sources]
             re == strip_posix_comments(r.regex)
  <2>1. sources \in Parsable /\ r \in Ruleset(src) /\ Inputs = src
    <3>1. step \in FromMerge
      BY DEF FromMerge, FromLimit, FromWrite
    <3>. QED  BY <3>1, AllParsed DEF DeployInv, BuildInv, RewrittenSoFar, Inputs
  <2> HIDE DEF src
  <2>2. PICK q \in AllTriggered(Merged(src)) : r = Headed(q)
    BY <2>1 DEF Ruleset, AllHeaded
  <2>3. PICK o \in Merged(src) : q = Triggered(o)
    BY <2>2 DEF AllTriggered
  <2>4. IsRule(o) /\ o \in ToSet(Offered(src))
    BY <2>1, MergedRuleSet, OfferedIs, LastRuleSet DEF RuleSet, Merged, src
  <2>5. IsRule(q) /\ q.id = o.id /\ q.prefix = o.prefix
    BY <2>3, <2>4, TriggeredIs DEF RuleFields
  <2>6. IsRule(r) /\ r.id = q.id /\ r.regex = q.regex
    BY <2>2, <2>5, HeadedIs DEF RuleFields
  <2>7. q.prefix = << >>
    <3>1. SUFFICES ASSUME q.prefix # << >> PROVE FALSE
      OBVIOUS
    <3>2. r.prefix = o.prefix /\ r.id = o.id
      BY <2>2, <2>5, <2>6, <3>1, Zenon DEF Headed
    <3>3. o \in ToSet(HandAuthoredRules(src)) \cup ToSet(CustomRules(src))
      <4>1. ToSet(Offered(src)) =
              ToSet(SpdbRules(src)) \cup ToSet(GitleaksRules(src)) \cup ToSet(NpRules(src))
              \cup ToSet(HandAuthoredRules(src)) \cup ToSet(CustomRules(src))
        BY <2>1, OfferedIs DEF src
      <4>2. o \notin ToSet(SpdbRules(src)) \cup ToSet(GitleaksRules(src)) \cup ToSet(NpRules(src))
        BY <2>5, <3>1, VendorsBringNoPrefix
      <4>. QED  BY <2>4, <4>1, <4>2
    <3>. QED  BY <2>1, <3>2, <3>3
  <2> HIDE DEF re
  <2>8. r.prefix = extract_literal_prefix[re]
    <3> DEFINE p == extract_literal_prefix[re]
    <3>1. r = [q EXCEPT !.prefix = p]
      BY <2>2, <2>6, <2>7, Zenon DEF Headed, re
    <3> HIDE DEF p
    <3>2. r.prefix = p
      BY <2>5, <3>1 DEF IsRule, RuleFields
    <3>. QED  BY <3>2 DEF p
  <2>9. re \in Regexes
    BY <2>6, StrippedIsRegex DEF IsRule, re
  <2>10. Heads(extract_literal_prefix[re], w)
    BY <2>9, PrefixHeads DEF re
  <2>11. extract_literal_prefix[re] \in Seq(Tokens) /\ w \in Seq(Tokens)
    <3>1. Seq(Literals) \subseteq Seq(Tokens)
      BY DEF Tokens
    <3>2. Words[re] \subseteq Seq(Tokens)
      BY <2>9, WordsWalk DEF Language
    <3>. QED  BY <2>9, <3>1, <3>2, ExtractionIsString DEF re
  <2>. QED  BY <2>8, <2>10, <2>11, HeadsIsPrefix
<1>. QED  BY <1>1, DeployInvHolds, PTL

\* Whatever the vendor files hold, the line parser finds in plain ones the ids and the
\* patterns that are written there, each with its own (parse_np_file in
\* src/rule_pipeline.rs): a line of an example that looks like the start of a rule costs
\* no rule, and a pattern's block ends where it ends.
THEOREM VendorFilesAlwaysReadAsWritten == DeploySpec => []VendorFilesReadAsWritten
<1>1. DeployInv => VendorFilesReadAsWritten
  <2> DEFINE src == Inputs
             all == UNION {WrittenRules(src.np[f]) : f \in DOMAIN src.np}
             read == {[id |-> r.id, pattern |-> r.regex] : r \in ToSet(work.np)}
  <2> SUFFICES ASSUME DeployInv, step = "fixtures", \A f \in DOMAIN src.np : Plain(src.np[f])
               PROVE  read = {w \in all : w.id \notin src.exclusions \cup {Nothing} /\ w.pattern # << >>}
    BY DEF VendorFilesReadAsWritten
  <2>1. work.np = NpRules(src) /\ NpFilesOK(src)
    <3>1. work.np = NpRules(src) /\ src.np # Malformed /\ sources \in DOMAIN Snapshots
      BY DEF DeployInv, BuildInv, Shape, ParsedSoFar, FromNp, FromFixtures, FromSpdb, FromHa,
             FromCustom, FromMerge, FromLimit, FromWrite, FromGitleaks
    <3>2. src.np = Malformed \/ NpFilesOK(src)
      BY <3>1, SnapshotsAssumption, Zenon DEF NpFilesOK, Inputs
    <3>. QED  BY <3>1, <3>2
  <2> HIDE DEF src
  <2>2. ASSUME NEW w
        PROVE  w \in read <=> w \in all /\ w.id \notin src.exclusions \cup {Nothing} /\ w.pattern # << >>
    <3>1. w \in read <=>
            /\ \E f \in DOMAIN src.np : w \in Pairs(parse_np_file(src.np[f]))
            /\ w.id \notin src.exclusions
      BY <2>1, NpPairs
    <3>2. ASSUME NEW f \in DOMAIN src.np
          PROVE  w \in Pairs(parse_np_file(src.np[f])) <=>
                   w \in WrittenRules(src.np[f]) /\ w.id # Nothing /\ w.pattern # << >>
      BY <2>1, ReadAsWritten DEF NpFilesOK
    <3>. QED  BY <3>1, <3>2
  <2> HIDE DEF all, read
  <2>3. read \subseteq {w \in all : w.id \notin src.exclusions \cup {Nothing} /\ w.pattern # << >>}
    BY <2>2
  <2>. QED  BY <2>2, <2>3
<1>. QED  BY <1>1, DeployInvHolds, PTL

\* Of the rules of one id the most important source's is taken.
HasId(s, id) == \E i \in DOMAIN s : s[i].id = id

\* Of five sources in a row, the last that has an id gives its rule.
LEMMA MergedFromLast ==
  ASSUME NEW a, NEW b, NEW c, NEW d, NEW e, OfRules(a), OfRules(b), OfRules(c), OfRules(d),
         OfRules(e), NEW r \in LastOfEachId(a \o b \o c \o d \o e)
  PROVE  \/ r \in ToSet(e)
         \/ r \in ToSet(d) /\ ~HasId(e, r.id)
         \/ r \in ToSet(c) /\ ~HasId(d, r.id) /\ ~HasId(e, r.id)
         \/ r \in ToSet(b) /\ ~HasId(c, r.id) /\ ~HasId(d, r.id) /\ ~HasId(e, r.id)
         \/ /\ r \in ToSet(a) /\ ~HasId(b, r.id) /\ ~HasId(c, r.id) /\ ~HasId(d, r.id)
            /\ ~HasId(e, r.id)
<1> DEFINE ab == a \o b
           abc == ab \o c
           abcd == abc \o d
<1>1. OfRules(ab) /\ OfRules(abc) /\ OfRules(abcd)
  BY CatOfRules
<1>2. ASSUME NEW s, OfRules(s) PROVE IsSeq(s) /\ LastOfEachId(s) \subseteq ToSet(s)
  BY <1>2, LastRuleSet DEF OfRules
<1>3. r \in LastOfEachId(abcd \o e)
  OBVIOUS
<1>4. r \in ToSet(e) \/ (r \in LastOfEachId(abcd) /\ ~HasId(e, r.id))
  <2> HIDE DEF abcd
  <2>. QED  BY <1>1, <1>2, <1>3, LastOfCat DEF HasId
<1>5. r \in LastOfEachId(abcd) => r \in ToSet(d) \/ (r \in LastOfEachId(abc) /\ ~HasId(d, r.id))
  <2> HIDE DEF abc
  <2>. QED  BY <1>1, <1>2, LastOfCat DEF HasId
<1>6. r \in LastOfEachId(abc) => r \in ToSet(c) \/ (r \in LastOfEachId(ab) /\ ~HasId(c, r.id))
  <2> HIDE DEF ab
  <2>. QED  BY <1>1, <1>2, LastOfCat DEF HasId
<1>7. r \in LastOfEachId(ab) => r \in ToSet(b) \/ (r \in ToSet(a) /\ ~HasId(b, r.id))
  BY <1>2, LastOfCat DEF HasId
<1>. QED  BY <1>4, <1>5, <1>6, <1>7

\* The source that HighestSourceWins names is that one.
LEMMA GreatestOffer ==
  ASSUME NEW S \in SUBSET (1..5), NEW k \in S, \A j \in S : j <= k
  PROVE  Max(S) = k
<1>1. Max(S) \in S /\ \A y \in S : Max(S) >= y
  <2>1. S # {} /\ 5 \in Nat
    OBVIOUS
  <2>. QED  BY <2>1, GreatestIs
<1> DEFINE m == Max(S)
<1>2. m \in S /\ m >= k /\ m <= k
  BY <1>1
<1> HIDE DEF m
<1>3. m = k
  BY <1>2
<1>. QED  BY <1>3 DEF m

\* Whatever the sources hold, the rule of an id in the result is one that the most important
\* of the sources with that id offers, in all fields that no later step rewrites
\* (the merge of src/rule_pipeline.rs).
THEOREM HighestSourceAlwaysWins == DeploySpec => []HighestSourceWins
<1>1. DeployInv => HighestSourceWins
  <2> SUFFICES ASSUME DeployInv, step = "write", limit = Nothing
               PROVE  HighestSourceWins
    BY DEF HighestSourceWins
  <2> DEFINE src == Snapshots[sources]
             offers == Offers(src)
             Offering(id) == {k \in 1..5 : \E i \in DOMAIN offers[k] : offers[k][i].id = id}
             ids == {o.id : o \in UNION {ToSet(offers[k]) : k \in 1..5}}
  <2>1. sources \in Parsable /\ final = Ruleset(src)
    BY WritesRuleset DEF DeployInv
  <2>2. /\ offers[1] = SpdbRules(src) /\ offers[2] = GitleaksRules(src)
        /\ offers[3] = NpRules(src) /\ offers[4] = HandAuthoredRules(src)
        /\ offers[5] = CustomRules(src)
    BY DEF Offers
  <2>3. /\ OfRules(offers[1]) /\ OfRules(offers[2]) /\ OfRules(offers[3])
        /\ OfRules(offers[4]) /\ OfRules(offers[5])
    BY <2>1, <2>2, OffersOfRules
  <2>4. Merged(src) = LastOfEachId(offers[1] \o offers[2] \o offers[3] \o offers[4] \o offers[5])
    BY <2>2 DEF Merged, Offered
  <2> HIDE DEF offers
  <2>5. UNION {ToSet(offers[k]) : k \in 1..5} = ToSet(Offered(src))
    <3>1. UNION {ToSet(offers[k]) : k \in 1..5} =
            ToSet(offers[1]) \cup ToSet(offers[2]) \cup ToSet(offers[3]) \cup ToSet(offers[4])
            \cup ToSet(offers[5])
      <4>1. 1..5 = {1, 2, 3, 4, 5}
        OBVIOUS
      <4>. QED  BY <4>1
    <3>. QED  BY <2>1, <2>2, <3>1, OfferedIs
  <2>6. ASSUME NEW o \in Merged(src) PROVE o \in ToSet(Offered(src))
    BY <2>1, OfferedIs, LastRuleSet DEF Merged
  <2>7. {r.id : r \in final} = ids
    <3>1. ASSUME NEW r \in final PROVE r.id \in ids
      <4>1. PICK o \in Merged(src) : \A f \in RuleFields \ {"keywords", "prefix"} : r[f] = o[f]
        BY <2>1, RuleComesFrom
      <4>2. r.id = o.id /\ o \in ToSet(Offered(src))
        BY <2>6, <4>1 DEF RuleFields
      <4>. QED  BY <2>5, <4>2
    <3>2. ASSUME NEW o \in ToSet(Offered(src)) PROVE o.id \in {r.id : r \in final}
      BY <2>1, OfferedIdKept
    <3>. QED  BY <2>5, <3>1, <3>2
  <2>8. ASSUME NEW o \in Merged(src)
        PROVE  o \in ToSet(offers[Max(Offering(o.id))])
    <3> DEFINE S == Offering(o.id)
    <3>1. \A k \in 1..5 : k \in S <=> HasId(offers[k], o.id)
      BY DEF HasId
    <3>2. \A k \in 1..5 : o \in ToSet(offers[k]) => k \in S
      BY DEF ToSet
    <3>3. PICK k \in 1..5 :
            o \in ToSet(offers[k]) /\ \A j \in 1..5 : j > k => ~HasId(offers[j], o.id)
      <4>1. \/ o \in ToSet(offers[5])
            \/ o \in ToSet(offers[4]) /\ ~HasId(offers[5], o.id)
            \/ o \in ToSet(offers[3]) /\ ~HasId(offers[4], o.id) /\ ~HasId(offers[5], o.id)
            \/ o \in ToSet(offers[2]) /\ ~HasId(offers[3], o.id) /\ ~HasId(offers[4], o.id)
               /\ ~HasId(offers[5], o.id)
            \/ /\ o \in ToSet(offers[1]) /\ ~HasId(offers[2], o.id) /\ ~HasId(offers[3], o.id)
               /\ ~HasId(offers[4], o.id) /\ ~HasId(offers[5], o.id)
        BY <2>3, <2>4, MergedFromLast
      <4>2. \A j \in 1..5 : j = 1 \/ j = 2 \/ j = 3 \/ j = 4 \/ j = 5
        OBVIOUS
      <4> DEFINE Q(k) == o \in ToSet(offers[k]) /\ \A j \in 1..5 : j > k => ~HasId(offers[j], o.id)
      <4>3. Q(1) \/ Q(2) \/ Q(3) \/ Q(4) \/ Q(5)
        BY <4>1, <4>2
      <4>4. 1 \in 1..5 /\ 2 \in 1..5 /\ 3 \in 1..5 /\ 4 \in 1..5 /\ 5 \in 1..5
        OBVIOUS
      <4> HIDE DEF Q
      <4>5. \E k \in 1..5 : Q(k)
        BY <4>3, <4>4
      <4>. QED  BY <4>5 DEF Q
    <3>4. S \in SUBSET (1..5) /\ k \in S
      BY <3>2, <3>3
    <3>5. \A j \in S : j <= k
      <4> HIDE DEF S
      <4>. QED  BY <3>1, <3>3, <3>4
    <3> HIDE DEF S
    <3>6. Max(S) = k
      BY <3>4, <3>5, GreatestOffer
    <3>. QED  BY <3>3, <3>6 DEF S
  <2>9. ASSUME NEW r \in final
        PROVE  \E o \in ToSet(offers[Max(Offering(r.id))]) :
                  /\ o.id = r.id /\ o.regex = r.regex /\ o.replacement = r.replacement
                  /\ o.source = r.source /\ o.keywords \subseteq r.keywords
    <3>1. PICK o \in Merged(src) : /\ \A f \in RuleFields \ {"keywords", "prefix"} : r[f] = o[f]
                                   /\ o.keywords \subseteq r.keywords
      BY <2>1, RuleComesFrom
    <3>2. /\ o.id = r.id /\ o.regex = r.regex /\ o.replacement = r.replacement
          /\ o.source = r.source
      BY <3>1 DEF RuleFields
    <3>3. o \in ToSet(offers[Max(Offering(r.id))])
      BY <2>8, <3>2
    <3> HIDE DEF Offering
    <3>. QED  BY <3>1, <3>2, <3>3
  <2> HIDE DEF Offering, ids
  <2>10. /\ {r.id : r \in final} = ids
         /\ \A r \in final : \E o \in ToSet(offers[Max(Offering(r.id))]) :
                  /\ o.id = r.id /\ o.regex = r.regex /\ o.replacement = r.replacement
                  /\ o.source = r.source /\ o.keywords \subseteq r.keywords
    BY <2>7, <2>9
  <2>. QED  BY <2>10, Zenon DEF HighestSourceWins, offers, Offering, ids, Inputs
<1>. QED  BY <1>1, DeployInvHolds, PTL

\* The two parsers that set the confidence and the checksum themselves.
LEMMA NormalizedDeserializes ==
  ASSUME NEW id, NEW source, NEW row, NEW confidence \in Confidences, NEW regex, NEW keywords
  PROVE  Deserializes(Normalized(id, source, row, confidence, regex, keywords, Nothing))
  BY DEF Normalized, Deserializes, ChecksumTypes

\* The rules that are made of gitleaks patterns load.
LEMMA GitleaksDeserialize ==
  ASSUME NEW src, NEW r \in ToSet(GitleaksRules(src))
  PROVE  Deserializes(r)
<1> DEFINE S    == {q \in ToSet(src.gitleaks) : Included(src, <<q.id>>) /\ q.regex # Nothing}
           kept == Kept(src.gitleaks, S)
           t    == GitleaksRules(src)
<1>1. t = [i \in DOMAIN kept |->
             Normalized(<<"gl", kept[i].id>>, "gitleaks", gl_subcategory(kept[i].id),
                        infer_confidence_gitleaks(kept[i].regex), kept[i].regex,
                        kept[i].keywords, Nothing)]
  BY Zenon DEF GitleaksRules
<1> HIDE DEF kept
<1>2. PICK i \in DOMAIN kept : r = t[i]
  BY <1>1 DEF ToSet
<1>3. infer_confidence_gitleaks(kept[i].regex) \in Confidences
  BY DEF infer_confidence_gitleaks, Confidences
<1>4. r = Normalized(<<"gl", kept[i].id>>, "gitleaks", gl_subcategory(kept[i].id),
                     infer_confidence_gitleaks(kept[i].regex), kept[i].regex,
                     kept[i].keywords, Nothing)
  BY <1>1, <1>2
<1>. QED  BY <1>3, <1>4, NormalizedDeserializes

\* The rules that are made of Nosey Parker patterns load.
LEMMA NpDeserialize ==
  ASSUME NEW src, NEW r \in ToSet(NpRules(src))
  PROVE  Deserializes(r)
<1> DEFINE kept == NpIncluded(src)
           t    == NpRules(src)
<1>1. t = [i \in DOMAIN kept |->
             Normalized(kept[i].id, "nosey-parker", np_subcategory(kept[i].id),
                        infer_confidence_np(kept[i].categories), kept[i].pattern, {}, Nothing)]
  BY Zenon DEF NpRules
<1> HIDE DEF kept
<1>2. PICK i \in DOMAIN kept : r = t[i]
  BY <1>1 DEF ToSet
<1>3. infer_confidence_np(kept[i].categories) \in Confidences
  BY DEF infer_confidence_np, Confidences
<1>4. r = Normalized(kept[i].id, "nosey-parker", np_subcategory(kept[i].id),
                     infer_confidence_np(kept[i].categories), kept[i].pattern, {}, Nothing)
  BY <1>1, <1>2
<1>. QED  BY <1>3, <1>4, NormalizedDeserializes

\* A rule that a source offers loads, or is from one of the three that copy.
LEMMA OfferDeserializes ==
  ASSUME NEW name \in Parsable, NEW o \in ToSet(Offered(Snapshots[name]))
  PROVE  Deserializes(o) \/ Fields(o) \in CopiedFields
<1> DEFINE src == Snapshots[name]
<1>1. name \in DOMAIN Snapshots /\ Parses(src)
  BY DEF Parsable
<1>2. \/ o \in ToSet(SpdbRules(src)) \/ o \in ToSet(GitleaksRules(src))
      \/ o \in ToSet(NpRules(src)) \/ o \in ToSet(HandAuthoredRules(src))
      \/ o \in ToSet(CustomRules(src))
  BY OfferedIs
<1>3. /\ Offers(src)[1] = SpdbRules(src) /\ Offers(src)[4] = HandAuthoredRules(src)
      /\ Offers(src)[5] = CustomRules(src)
  BY DEF Offers
<1>4. ASSUME NEW k \in {1, 4, 5}, o \in ToSet(Offers(src)[k])
      PROVE  Fields(o) \in CopiedFields
  <2> DEFINE c == <<name, k>>
  <2>1. /\ c \in {n \in DOMAIN Snapshots : Parses(Snapshots[n])} \X {1, 4, 5}
        /\ c[1] = name /\ c[2] = k
    BY <1>1
  <2> HIDE DEF c
  <2>. QED  BY <1>4, <2>1 DEF CopiedFields
<1>5. 1 \in {1, 4, 5} /\ 4 \in {1, 4, 5} /\ 5 \in {1, 4, 5}
  OBVIOUS
<1>. QED  BY <1>2, <1>3, <1>4, <1>5, GitleaksDeserialize, NpDeserialize

\* Of every file that is written whole each rule compiles, has a category and a replacement
\* that a gateway knows, and loads unless one of its two unchecked fields was copied from an
\* input: there is no other reason for a gateway to panic over its rules (validate_all of
\* src/rule_pipeline.rs against src/types/rule.rs).
THEOREM OnlyUncheckedFieldsMatter == DeploySpec => []OnlyUncheckedFieldsStopTheGateway
<1>1. DeployInv => OnlyUncheckedFieldsStopTheGateway
  <2> SUFFICES ASSUME DeployInv, NEW rules \in {combined, curated, embedded}, Whole(rules),
                      NEW r \in rules
               PROVE  /\ Balanced(strip_posix_comments(r.regex))
                      /\ r.category \in {"secret", "pii", "infra"}
                      /\ r.replacement \in DOMAIN Originals \cup {"passthrough"}
                      /\ Deserializes(r) \/ Fields(r) \in CopiedFields
    BY DEF OnlyUncheckedFieldsStopTheGateway, Compiled
  <2>1. BuiltFiles(rules)
    BY WrittenAreBuilt
  <2>2. PICK name \in Parsable : \E q \in Ruleset(Snapshots[name]) :
            ValidRule(q) /\ \A f \in RuleFields \ {"prefix", "exclude"} : r[f] = q[f]
    BY <2>1, BuiltRuleComesFrom
  <2>3. PICK q \in Ruleset(Snapshots[name]) :
            ValidRule(q) /\ \A f \in RuleFields \ {"prefix", "exclude"} : r[f] = q[f]
    BY <2>2
  <2>4. /\ r.regex = q.regex /\ r.category = q.category /\ r.replacement = q.replacement
        /\ r.id = q.id /\ r.confidence = q.confidence /\ r.checksum = q.checksum
    BY <2>3 DEF RuleFields
  <2>5. PICK o \in Merged(Snapshots[name]) :
            \A f \in RuleFields \ {"keywords", "prefix"} : q[f] = o[f]
    BY RuleComesFrom
  <2>6. o.id = q.id /\ o.confidence = q.confidence /\ o.checksum = q.checksum
    BY <2>5 DEF RuleFields
  <2>7. Deserializes(o) \/ Fields(o) \in CopiedFields
    BY OfferedIs, LastRuleSet, OfferDeserializes DEF Merged
  <2>8. Deserializes(r) \/ Fields(r) \in CopiedFields
    BY <2>4, <2>6, <2>7 DEF Deserializes, Fields
  <2>9. r.replacement \in DOMAIN Originals \cup {"passthrough"}
    BY <2>3, <2>4, OriginalsAssumption DEF ValidRule
  <2>. QED  BY <2>3, <2>4, <2>8, <2>9 DEF ValidRule, ValidCategories
<1>. QED  BY <1>1, DeployInvHolds, PTL

--------------------------------------------------------------------------------
\* The limit.

\* The elements before r in a strict total order L on S.
Below(S, L, r) == {q \in S : <<q, r>> \in L}

\* Without repetition, transitive and total.
StrictOrder(S, L) ==
  /\ \A r \in S : <<r, r>> \notin L
  /\ \A p, q, r \in S : <<p, q>> \in L /\ <<q, r>> \in L => <<p, r>> \in L
  /\ \A q, r \in S : q = r \/ <<q, r>> \in L \/ <<r, q>> \in L

\* How many are before an element is its place: 0 to the size of S less 1, each
\* place once.
PlaceIn(S, L, r) == Cardinality(Below(S, L, r))

\* A place is below the size of S, and later elements have later places.
LEMMA PlacesGrow ==
  ASSUME NEW S, IsFiniteSet(S), NEW L, StrictOrder(S, L), NEW r \in S
  PROVE  /\ PlaceIn(S, L, r) \in 0..Cardinality(S) - 1
         /\ \A q \in S : <<q, r>> \in L => PlaceIn(S, L, q) < PlaceIn(S, L, r)
<1> DEFINE B == Below(S, L, r)
<1>1. ASSUME NEW T, IsFiniteSet(T), NEW x \in T, NEW U \in SUBSET T, x \notin U
      PROVE  Cardinality(U) \in Nat /\ Cardinality(T) \in Nat /\ Cardinality(U) < Cardinality(T)
  <2>1. IsFiniteSet(U) /\ Cardinality(U) <= Cardinality(T) /\ (Cardinality(T) = Cardinality(U) => T = U)
    BY <1>1, FS_Subset
  <2>2. Cardinality(U) \in Nat /\ Cardinality(T) \in Nat
    BY <1>1, <2>1, FS_CardinalityType
  <2>. QED  BY <1>1, <2>1, <2>2
<1>2. B \in SUBSET S /\ r \notin B /\ IsFiniteSet(B)
  BY FS_Subset DEF Below, StrictOrder
<1>3. Cardinality(B) \in Nat /\ Cardinality(S) \in Nat /\ Cardinality(B) < Cardinality(S)
  <2> HIDE DEF B
  <2>. QED  BY <1>1, <1>2
<1>4. ASSUME NEW q \in S, <<q, r>> \in L
      PROVE  Cardinality(Below(S, L, q)) < Cardinality(B)
  <2> DEFINE U == Below(S, L, q)
  <2>1. U \in SUBSET B /\ q \in B /\ q \notin U
    BY <1>4 DEF Below, StrictOrder
  <2> HIDE DEF B, U
  <2>2. Cardinality(U) < Cardinality(B)
    BY <1>1, <1>2, <2>1
  <2>. QED  BY <2>2 DEF U
<1>. QED  BY <1>3, <1>4 DEF PlaceIn

\* So the places are 0, 1, ... each once: n elements have one below n, if there are as many.
LEMMA FirstPlaces ==
  ASSUME NEW S, IsFiniteSet(S), NEW L, StrictOrder(S, L), NEW n \in Nat
  PROVE  Cardinality({r \in S : PlaceIn(S, L, r) < n}) =
           IF Cardinality(S) < n THEN Cardinality(S) ELSE n
<1> DEFINE N == Cardinality(S)
           c == [r \in S |-> PlaceIn(S, L, r)]
           T == {r \in S : PlaceIn(S, L, r) < n}
           m == IF N < n THEN N ELSE n
<1>1. N \in Nat
  BY FS_CardinalityType
<1>2. \A r \in S : c[r] \in 0..N - 1 /\ \A q \in S : <<q, r>> \in L => c[q] < c[r]
  BY PlacesGrow
<1>3. \A q, r \in S : c[q] = c[r] => q = r
  <2>1. SUFFICES ASSUME NEW q \in S, NEW r \in S, c[q] = c[r], q # r PROVE FALSE
    OBVIOUS
  <2>2. <<q, r>> \in L \/ <<r, q>> \in L
    BY <2>1 DEF StrictOrder
  <2>3. c[q] < c[r] \/ c[r] < c[q]
    BY <1>2, <2>2
  <2>4. c[q] \in Int /\ c[r] \in Int
    BY <1>2
  <2> HIDE DEF c
  <2>. QED  BY <2>1, <2>3, <2>4
<1>4. c \in Injection(S, 0..N - 1)
  BY <1>2, <1>3 DEF Injection, IsInjective
<1>5. IsFiniteSet(0..N - 1) /\ Cardinality(0..N - 1) = N
  <2> HIDE DEF N
  <2>. QED  BY <1>1, FS_Interval
<1>6. c \in Surjection(S, 0..N - 1)
  <2>1. N = Cardinality(S)
    OBVIOUS
  <2> HIDE DEF c, N
  <2>. QED  BY <1>4, <1>5, <2>1, FS_Injection
<1>7. \A i \in 0..N - 1 : \E r \in S : c[r] = i
  BY <1>6 DEF Surjection
<1> DEFINE d == [r \in T |-> c[r]]
<1>8. d \in Bijection(T, 0..m - 1)
  <2>1. T \subseteq S /\ \A r \in S : r \in T <=> c[r] < n
    OBVIOUS
  <2>2. m \in Nat /\ m <= N /\ m <= n /\ (m = N \/ m = n)
    <3> HIDE DEF N
    <3>. QED  BY <1>1
  <2> HIDE DEF c, T, m, N
  <2>3. \A r \in T : d[r] \in 0..m - 1
    BY <1>1, <1>2, <2>1, <2>2
  <2>4. \A q, r \in T : d[q] = d[r] => q = r
    BY <1>3, <2>1
  <2>5. ASSUME NEW i \in 0..m - 1 PROVE \E r \in T : d[r] = i
    <3>1. i \in 0..N - 1 /\ i < n
      BY <1>1, <2>2
    <3>2. PICK r \in S : c[r] = i
      BY <1>7, <3>1
    <3>. QED  BY <2>1, <3>1, <3>2
  <2>. QED  BY <2>3, <2>4, <2>5 DEF Bijection, Injection, Surjection, IsInjective
<1>9. IsFiniteSet(T)
  <2>1. T \in SUBSET S
    OBVIOUS
  <2> HIDE DEF T
  <2>. QED  BY <2>1, FS_Subset
<1>10. Cardinality(T) = Cardinality(0..m - 1)
  <2> HIDE DEF T, d, m
  <2>1. ExistsBijection(T, 0..m - 1)
    BY <1>8 DEF ExistsBijection
  <2>. QED  BY <1>9, <2>1, FS_Bijection
<1>11. Cardinality(0..m - 1) = m
  <2>1. m \in Nat
    <3> HIDE DEF N
    <3>. QED  BY <1>1
  <2> HIDE DEF m
  <2>. QED  BY <2>1, FS_Interval
<1> HIDE DEF T, m
<1>. QED  BY <1>10, <1>11 DEF T, m

\* Rules whose ids and sources have a place in the alphabetical orders.
Ranked(S) ==
  /\ RuleSet(S)
  /\ \A r \in S : r.id \in DOMAIN Rank /\ r.source \in DOMAIN SourceRank

\* The sources that rules come from.
SourcesOf(S) == {r.source : r \in S}

\* The rules of a source, in the order of their ids.
OfSource(S, source) == {r \in S : r.source = source}
\* And their order.
ById(S, source) ==
  {p \in OfSource(S, source) \X OfSource(S, source) : Rank[p[1].id] < Rank[p[2].id]}

\* The rules in the order in which the sources, taking turns, give them.
ByTurn(S) ==
  {p \in S \X S : \/ Place(S, p[1]) < Place(S, p[2])
                  \/ /\ Place(S, p[1]) = Place(S, p[2])
                     /\ SourceRank[p[1].source] < SourceRank[p[2].source]}

\* The order of the ids is one of the rules of a source: no two have the same id.
LEMMA ByIdOrders ==
  ASSUME NEW S, Ranked(S), NEW source
  PROVE  StrictOrder(OfSource(S, source), ById(S, source))
<1> DEFINE T == OfSource(S, source)
           L == ById(S, source)
<1>1. \A r \in T : r \in S /\ Rank[r.id] \in Nat
  BY OrderAssumption DEF Ranked, OfSource
<1>2. \A q, r \in T : Rank[q.id] = Rank[r.id] => q = r
  BY <1>1, OrderAssumption DEF Ranked, RuleSet, OnePerId
<1>3. \A q, r \in T : <<q, r>> \in L <=> Rank[q.id] < Rank[r.id]
  BY DEF ById
<1> HIDE DEF T, L
<1>4. StrictOrder(T, L)
  BY <1>1, <1>2, <1>3 DEF StrictOrder
<1>. QED  BY <1>4 DEF T, L

\* Place is the place of a rule in this order.
LEMMA PlaceIsPlaceIn ==
  ASSUME NEW S, NEW r \in S
  PROVE  Place(S, r) = PlaceIn(OfSource(S, r.source), ById(S, r.source), r)
<1>1. {q \in S : q.source = r.source /\ Rank[q.id] < Rank[r.id]}
        = Below(OfSource(S, r.source), ById(S, r.source), r)
  BY DEF Below, OfSource, ById
<1>. QED  BY <1>1 DEF Place, PlaceIn

\* No two rules of a source have the same place.
LEMMA PlaceIs ==
  ASSUME NEW S, Ranked(S), NEW r \in S
  PROVE  /\ Place(S, r) \in Nat
         /\ \A q \in S : q.source = r.source /\ Place(S, q) = Place(S, r) => q = r
<1> DEFINE T == OfSource(S, r.source)
           L == ById(S, r.source)
<1>1. StrictOrder(T, L)
  BY ByIdOrders
<1>2. IsFiniteSet(T) /\ r \in T
  <2>1. T \in SUBSET S /\ r \in T
    BY DEF OfSource
  <2> HIDE DEF T
  <2>. QED  BY <2>1, FS_Subset DEF Ranked, RuleSet
<1>3. \A q \in T : PlaceIn(T, L, q) \in Nat
                   /\ \A p \in T : <<p, q>> \in L => PlaceIn(T, L, p) < PlaceIn(T, L, q)
  <2>1. Cardinality(T) \in Nat
    BY <1>2, FS_CardinalityType
  <2> HIDE DEF T, L
  <2>2. ASSUME NEW q \in T
        PROVE  PlaceIn(T, L, q) \in Nat
               /\ \A p \in T : <<p, q>> \in L => PlaceIn(T, L, p) < PlaceIn(T, L, q)
    BY <1>1, <1>2, <2>1, PlacesGrow
  <2>. QED  BY <2>2
<1>4. Place(S, r) = PlaceIn(T, L, r)
  BY PlaceIsPlaceIn
<1>5. ASSUME NEW q \in S, q.source = r.source, Place(S, q) = Place(S, r), q # r
      PROVE  FALSE
  <2>1. q \in T /\ Place(S, q) = PlaceIn(T, L, q)
    BY <1>5, PlaceIsPlaceIn DEF OfSource
  <2> HIDE DEF T, L
  <2>2. <<q, r>> \in L \/ <<r, q>> \in L
    BY <1>1, <1>2, <1>5, <2>1 DEF StrictOrder
  <2>3. \/ PlaceIn(T, L, q) < PlaceIn(T, L, r)
        \/ PlaceIn(T, L, r) < PlaceIn(T, L, q)
    BY <1>2, <1>3, <2>1, <2>2
  <2>4. PlaceIn(T, L, q) = PlaceIn(T, L, r) /\ PlaceIn(T, L, r) \in Nat
    BY <1>2, <1>3, <1>4, <1>5, <2>1
  <2>. QED  BY <2>3, <2>4
<1> HIDE DEF T, L
<1>. QED  BY <1>2, <1>3, <1>4, <1>5

\* The turns order all rules: two rules with one place have different sources.
LEMMA ByTurnOrders ==
  ASSUME NEW S, Ranked(S)
  PROVE  StrictOrder(S, ByTurn(S))
<1> DEFINE p == [r \in S |-> Place(S, r)]
           k == [r \in S |-> SourceRank[r.source]]
           L == ByTurn(S)
<1>1. \A r \in S : p[r] \in Nat /\ k[r] \in Nat
  BY PlaceIs, OrderAssumption DEF Ranked
<1>2. \A q, r \in S : p[q] = p[r] /\ k[q] = k[r] => q = r
  <2>1. SUFFICES ASSUME NEW q \in S, NEW r \in S, p[q] = p[r], k[q] = k[r] PROVE q = r
    OBVIOUS
  <2>2. q.source = r.source
    BY <2>1, OrderAssumption DEF Ranked
  <2>3. Place(S, q) = Place(S, r)
    BY <2>1
  <2>. QED  BY <2>2, <2>3, PlaceIs
<1>3. \A q, r \in S : <<q, r>> \in L <=> (p[q] < p[r] \/ (p[q] = p[r] /\ k[q] < k[r]))
  BY DEF ByTurn
<1> HIDE DEF p, k, L
<1>4. StrictOrder(S, L)
  BY <1>1, <1>2, <1>3 DEF StrictOrder
<1>. QED  BY <1>4 DEF L

\* Turn is the place of a rule in this order.
LEMMA TurnIsPlaceIn ==
  ASSUME NEW S, NEW r \in S
  PROVE  Turn(S, r) = PlaceIn(S, ByTurn(S), r)
<1>1. {q \in S : \/ Place(S, q) < Place(S, r)
                 \/ /\ Place(S, q) = Place(S, r)
                    /\ SourceRank[q.source] < SourceRank[r.source]}
        = Below(S, ByTurn(S), r)
  BY DEF Below, ByTurn
<1>. QED  BY <1>1 DEF Turn, PlaceIn

\* How many rules a limit allows: the first is taken before anything is counted.
Room(n) == IF n = 0 THEN 1 ELSE n

\* As many rules are kept as there is room for.
LEMMA TruncatedCount ==
  ASSUME NEW S, Ranked(S), NEW n \in Nat
  PROVE  Cardinality(Truncated(S, n)) =
           IF Cardinality(S) < Room(n) THEN Cardinality(S) ELSE Room(n)
<1> DEFINE L == ByTurn(S)
           m == Room(n)
<1>1. {r \in S : Turn(S, r) < m} = {r \in S : PlaceIn(S, L, r) < m}
  BY TurnIsPlaceIn
<1>2. Truncated(S, n) = {r \in S : Turn(S, r) < m}
  BY DEF Truncated, Room
<1>3. StrictOrder(S, L) /\ IsFiniteSet(S) /\ m \in Nat
  BY ByTurnOrders DEF Ranked, RuleSet, Room
<1> HIDE DEF L, m
<1>4. Cardinality({r \in S : PlaceIn(S, L, r) < m}) = IF Cardinality(S) < m THEN Cardinality(S) ELSE m
  BY <1>3, FirstPlaces
<1>. QED  BY <1>1, <1>2, <1>4 DEF m

\* The first rule of a source comes before every second one.
LEMMA TruncatedSources ==
  ASSUME NEW S, Ranked(S), NEW n \in Nat, Cardinality(SourcesOf(S)) <= Room(n)
  PROVE  SourcesOf(Truncated(S, n)) = SourcesOf(S)
<1> DEFINE m == Room(n)
           All == SourcesOf(S)
<1>1. IsFiniteSet(S)
  BY DEF Ranked, RuleSet
<1>2. IsFiniteSet(All) /\ Cardinality(All) \in Nat
  <2> DEFINE f == [r \in S |-> r.source]
  <2>1. f \in Surjection(S, All)
    BY DEF Surjection, SourcesOf
  <2> HIDE DEF f, All
  <2>. QED  BY <1>1, <2>1, FS_Surjection, FS_CardinalityType
<1>3. ASSUME NEW s \in All
      PROVE  \E r \in S : r.source = s /\ Turn(S, r) < m
  <2> DEFINE T == OfSource(S, s)
             L == ById(S, s)
  <2>1. T \in SUBSET S /\ T # {}
    BY <1>3 DEF SourcesOf, OfSource
  <2>2. StrictOrder(T, L)
    BY ByIdOrders
  <2> HIDE DEF T, L
  <2>3. IsFiniteSet(T) /\ Cardinality(T) \in Nat /\ Cardinality(T) # 0
    BY <1>1, <2>1, FS_Subset, FS_CardinalityType, FS_EmptySet
  <2>4. Cardinality({r \in T : PlaceIn(T, L, r) < 1}) = 1
    BY <2>2, <2>3, FirstPlaces
  <2>5. {r \in T : PlaceIn(T, L, r) < 1} # {}
    BY <2>4, FS_EmptySet
  <2>6. PICK r \in T : PlaceIn(T, L, r) < 1
    BY <2>5
  <2>7. r \in S /\ r.source = s
    BY <2>1 DEF T, OfSource
  <2>8. Place(S, r) = 0
    <3>1. Place(S, r) = PlaceIn(T, L, r)
      BY <2>7, PlaceIsPlaceIn DEF T, L
    <3>2. Place(S, r) \in Nat
      BY <2>7, PlaceIs
    <3>. QED  BY <2>6, <3>1, <3>2
  <2> DEFINE B == {q \in S : \/ Place(S, q) < Place(S, r)
                             \/ /\ Place(S, q) = Place(S, r)
                                /\ SourceRank[q.source] < SourceRank[r.source]}
             D == All \ {s}
             g == [q \in B |-> q.source]
  <2>9. \A q \in B : q \in S /\ Place(S, q) = 0 /\ SourceRank[q.source] < SourceRank[s]
    <3>1. ASSUME NEW q \in B PROVE q \in S /\ Place(S, q) = 0 /\ SourceRank[q.source] < SourceRank[s]
      <4>1. q \in S
        OBVIOUS
      <4>2. Place(S, q) \in Nat
        BY <4>1, PlaceIs
      <4>. QED  BY <2>7, <2>8, <4>1, <4>2
    <3>. QED  BY <3>1
  <2>10. Turn(S, r) = Cardinality(B)
    BY DEF Turn
  <2> HIDE DEF B
  <2>11. g \in Injection(B, D)
    <3>1. ASSUME NEW q \in B PROVE g[q] \in D
      <4>1. q.source \in All /\ SourceRank[s] \in Nat
        BY <2>7, <2>9, OrderAssumption DEF SourcesOf, Ranked
      <4>2. q.source # s
        BY <2>9, <4>1
      <4>. QED  BY <4>1, <4>2
    <3>2. ASSUME NEW q \in B, NEW x \in B, g[q] = g[x] PROVE q = x
      BY <2>9, <3>2, PlaceIs
    <3>. QED  BY <3>1, <3>2 DEF Injection, IsInjective
  <2>12. IsFiniteSet(D) /\ Cardinality(D) < Cardinality(All) /\ Cardinality(D) \in Nat
    <3>1. D \in SUBSET All /\ D # All
      BY <1>3
    <3> HIDE DEF D, All
    <3>2. IsFiniteSet(D) /\ Cardinality(D) <= Cardinality(All) /\ Cardinality(D) # Cardinality(All)
      BY <1>2, <3>1, FS_Subset
    <3>3. Cardinality(D) \in Nat
      BY <3>2, FS_CardinalityType
    <3>. QED  BY <1>2, <3>2, <3>3
  <2>13. Cardinality(B) <= Cardinality(D) /\ Cardinality(B) \in Nat
    <3> HIDE DEF g, D
    <3>1. IsFiniteSet(B) /\ Cardinality(B) <= Cardinality(D)
      BY <2>11, <2>12, FS_Injection
    <3>. QED  BY <3>1, FS_CardinalityType
  <2>14. m \in Nat /\ Cardinality(All) <= m
    BY DEF Room
  <2> HIDE DEF D, m, All
  <2>15. Turn(S, r) < m
    BY <1>2, <2>10, <2>12, <2>13, <2>14
  <2>. QED  BY <2>7, <2>15
<1>4. Truncated(S, n) = {r \in S : Turn(S, r) < m}
  BY DEF Truncated, Room
<1> HIDE DEF m
<1>. QED  BY <1>3, <1>4 DEF SourcesOf

\* The rules of a build have the ids and the sources of the merged ones.
LEMMA RulesetIs ==
  ASSUME NEW name \in Parsable
  PROVE  /\ Ranked(Ruleset(Snapshots[name]))
         /\ Cardinality(Ruleset(Snapshots[name])) = Cardinality(Merged(Snapshots[name]))
         /\ SourcesOf(Ruleset(Snapshots[name])) = SourcesOf(Merged(Snapshots[name]))
<1> DEFINE src == Snapshots[name]
           R == Ruleset(src)
           M == Merged(src)
<1>1. RuleSet(R) /\ RuleSet(M)
  BY MergedRuleSet
<1>2. ASSUME NEW r \in R PROVE \E o \in M : r.id = o.id /\ r.source = o.source
  <2>1. PICK o \in M : \A f \in RuleFields \ {"keywords", "prefix"} : r[f] = o[f]
    BY RuleComesFrom
  <2>. QED  BY <2>1 DEF RuleFields
<1>3. ASSUME NEW o \in M PROVE \E r \in R : r.id = o.id /\ r.source = o.source
  <2>1. PICK r \in R : r.id = o.id
    BY RuleIsKept
  <2>2. PICK q \in M : r.id = q.id /\ r.source = q.source
    BY <1>2
  <2>3. q = o
    BY <1>1, <2>1, <2>2 DEF RuleSet, OnePerId
  <2>. QED  BY <2>1, <2>2, <2>3
<1>4. ASSUME NEW o \in M PROVE o.id \in DOMAIN Rank /\ o.source \in DOMAIN SourceRank
  <2>1. o \in ToSet(Offered(src))
    <3>1. OfRules(Offered(src))
      BY OfferedIs
    <3>. QED  BY <3>1, LastRuleSet DEF Merged
  <2>2. \/ o \in ToSet(SpdbRules(src)) \/ o \in ToSet(GitleaksRules(src))
        \/ o \in ToSet(NpRules(src)) \/ o \in ToSet(HandAuthoredRules(src))
        \/ o \in ToSet(CustomRules(src))
    BY <2>1, OfferedIs
  <2>3. \E k \in 1..5 : o \in ToSet(Offers(src)[k])
    BY <2>2 DEF Offers
  <2>4. name \in DOMAIN Snapshots /\ Parses(Snapshots[name])
    BY DEF Parsable
  <2>. QED  BY <2>3, <2>4, OrderAssumption
<1>5. {r.id : r \in R} = {o.id : o \in M}
  BY <1>2, <1>3
<1>6. SourcesOf(R) = SourcesOf(M)
  BY <1>2, <1>3 DEF SourcesOf
<1>7. /\ Cardinality({r.id : r \in R}) = Cardinality(R)
      /\ Cardinality({r.id : r \in M}) = Cardinality(M)
  BY <1>1, RuleSetOK DEF RulesOK
<1>8. Ranked(R)
  BY <1>1, <1>2, <1>4 DEF Ranked
<1> HIDE DEF R, M
<1>. QED  BY <1>5, <1>6, <1>7, <1>8 DEF R, M

\* A limited ruleset has as many rules as --limit allows, one at least, and a rule of every
\* source if there is room for one of each, whatever the sources hold (the round-robin in
\* run of src/rule_pipeline.rs): no vendor's rules crowd out another's.
THEOREM LimitAlwaysTakesFromEverySource == DeploySpec => []LimitTakesFromEverySource
<1>1. DeployInv => LimitTakesFromEverySource
  <2> SUFFICES ASSUME DeployInv, step = "write", limit # Nothing
               PROVE  LimitTakesFromEverySource
    BY DEF LimitTakesFromEverySource
  <2> DEFINE R == Ruleset(Inputs)
             M == Merged(Inputs)
  <2>1. sources \in Parsable
    BY AllParsed DEF DeployInv, FromMerge, FromLimit, FromWrite
  <2>2. final = Truncated(R, limit)
    BY DEF DeployInv, BuildInv, RewrittenSoFar
  <2>3. limit \in Nat
    BY LimitsAssumption DEF DeployInv, BuildInv, Shape
  <2>4. Ranked(R) /\ Cardinality(R) = Cardinality(M) /\ SourcesOf(R) = SourcesOf(M)
    BY <2>1, RulesetIs DEF Inputs
  <2>5. M = LastOfEachId(SpdbRules(Inputs) \o GitleaksRules(Inputs) \o NpRules(Inputs)
                           \o HandAuthoredRules(Inputs) \o CustomRules(Inputs))
    BY DEF Merged, Offered
  <2> HIDE DEF R
  <2>6. Cardinality(final) =
          IF Cardinality(R) < Room(limit) THEN Cardinality(R) ELSE Room(limit)
    BY <2>2, <2>3, <2>4, TruncatedCount
  <2>7. Cardinality(SourcesOf(R)) <= Room(limit) => SourcesOf(final) = SourcesOf(R)
    BY <2>2, <2>3, <2>4, TruncatedSources
  <2> HIDE DEF M
  <2>8. /\ Cardinality(final) =
             IF Cardinality(M) < Room(limit) THEN Cardinality(M) ELSE Room(limit)
        /\ Cardinality(SourcesOf(M)) <= Room(limit) => SourcesOf(final) = SourcesOf(M)
    BY <2>4, <2>6, <2>7
  <2>. QED  BY <2>5, <2>8 DEF LimitTakesFromEverySource, SourcesOf, Room
<1>. QED  BY <1>1, DeployInvHolds, PTL

--------------------------------------------------------------------------------
\* Texts of the generators.

\* What a generator puts into a text of its own is told apart from the match.
Clean == FixedWords \cup {Fresh}

\* Such text has no letter or digit of the match.
LEMMA CleanIsClean == Clean \cap Alnum = {} /\ Fresh \in Clean /\ Digits \subseteq Alnum
  BY FakeValuesAssumption DEF Clean, Alnum

\* Random characters.
LEMMA FreshIsClean ==
  ASSUME NEW n \in Nat
  PROVE  Fresh_(n) \in Seq(Clean) /\ Len(Fresh_(n)) = n
<1> DEFINE f == Fresh_(n)
<1>1. f \in [1..n -> Clean]
  BY CleanIsClean DEF Fresh_
<1> HIDE DEF f
<1>2. f \in Seq(Clean) /\ Len(f) = n
  BY <1>1, FunctionIsString
<1>. QED  BY <1>2 DEF f

\* Two such texts in a row.
LEMMA CleanCat ==
  ASSUME NEW s \in Seq(Clean), NEW t \in Seq(Clean)
  PROVE  s \o t \in Seq(Clean)
  BY ConcatIs

\* Texts of a few words.
LEMMA CleanWords ==
  /\ \A x \in Clean : <<x>> \in Seq(Clean)
  /\ \A x, y \in Clean : <<x, y>> \in Seq(Clean)
  /\ \A x, y, z \in Clean : <<x, y, z>> \in Seq(Clean)
  /\ \A w, x, y, z \in Clean : <<w, x, y, z>> \in Seq(Clean)
  OBVIOUS

\* The words the code uses.
LEMMA FixedIsClean ==
  {"a name", "@", "example.com", "example", "+1-555-010-", "+1-555-010-0000", "000-00-",
   "a 9", "-", "192.0.2.", "198.51.100.", "203.0.113.", "AKIABLEEP", "ghp_BLEEP",
   "github_pat_", "_", "header", ".", "fixed claims", "fresh claims", "uuid", "a 0"}
   \cup AwsPrefixes \cup GithubHeads \subseteq Clean
  BY DEF Clean, FixedWords

\* The place of the "@" in an address, or 0.
LEMMA HandleIs ==
  ASSUME NEW s, IsSeq(s)
  PROVE  SelectInSeq(s, LAMBDA c : c = "@") \in 0..Len(s) /\ Len(s) \in Nat
<1> DEFINE I == {i \in 1..Len(s) : s[i] = "@"}
           n == Len(s)
<1>1. n \in Nat
  BY DEF IsSeq
<1>2. SelectInSeq(s, LAMBDA c : c = "@") = IF I # {} THEN Min(I) ELSE 0
  BY Zenon DEF SelectInSeq
<1>3. I # {} => Min(I) \in I
  <2>1. SUFFICES ASSUME I # {} PROVE Min(I) \in I
    OBVIOUS
  <2>2. I \in SUBSET Nat
    OBVIOUS
  <2> HIDE DEF I
  <2>3. PICK m \in I : \A y \in I : m <= y
    BY <2>1, <2>2, LeastNumber, Zenon
  <2>. QED  BY <2>3 DEF Min
<1>. QED  BY <1>1, <1>2, <1>3

\* The texts that are made without the match.
LEMMA EmailIsClean ==
  ASSUME NEW original, IsSeq(original), NEW visible \in BOOLEAN
  PROVE  fake_email(original, visible) \in Seq(Clean)
<1> DEFINE handle == SelectInSeq(original, LAMBDA c : c = "@")
           k == IF handle = 0 THEN Len(original) ELSE handle - 1
           n == Clamp(k, 5, 24)
<1>1. fake_email(original, visible) =
        IF visible THEN <<"a name", "@", "example.com">>
        ELSE Fresh_(n) \o <<"@", "example">>
  BY Zenon DEF fake_email
<1>2. n \in Nat
  <2>1. handle \in 0..Len(original) /\ Len(original) \in Nat
    BY HandleIs
  <2> HIDE DEF handle
  <2>2. k \in Nat
    BY <2>1
  <2> HIDE DEF k
  <2>. QED  BY <2>2 DEF Clamp
<1> HIDE DEF n
<1>3. <<"a name", "@", "example.com">> \in Seq(Clean) /\ <<"@", "example">> \in Seq(Clean)
  <2>1. {"a name", "@", "example.com", "example"} \subseteq Clean
    BY FixedIsClean
  <2>. QED  BY <2>1, CleanWords
<1>4. Fresh_(n) \o <<"@", "example">> \in Seq(Clean)
  BY <1>2, <1>3, FreshIsClean, CleanCat
<1>. QED  BY <1>1, <1>3, <1>4

\* A fake social security number.
LEMMA SsnIsClean ==
  ASSUME NEW visible \in BOOLEAN
  PROVE  fake_ssn(visible) \in Seq(Clean)
<1>1. <<"000-00-">> \in Seq(Clean) /\ <<"a 9">> \in Seq(Clean) /\ <<"-">> \in Seq(Clean)
  <2>1. {"000-00-", "a 9", "-"} \subseteq Clean
    BY FixedIsClean
  <2>. QED  BY <2>1, CleanWords
<1>2. Fresh_(2) \in Seq(Clean) /\ Fresh_(4) \in Seq(Clean)
  BY FreshIsClean
<1>3. <<"000-00-">> \o Fresh_(4) \in Seq(Clean)
  BY <1>1, <1>2, CleanCat
<1>4. <<"a 9">> \o Fresh_(2) \o <<"-">> \o Fresh_(2) \o <<"-">> \o Fresh_(4) \in Seq(Clean)
  BY <1>1, <1>2, CleanCat
<1>. QED  BY <1>3, <1>4 DEF fake_ssn

\* A fake IPv4 address, of one of the documentation networks.
LEMMA Ipv4IsClean ==
  ASSUME NEW visible \in BOOLEAN, NEW fake \in fake_ipv4(visible)
  PROVE  fake \in Seq(Clean)
<1>1. {"192.0.2.", "198.51.100.", "203.0.113."} \subseteq Clean
  BY FixedIsClean
<1>2. \A net \in {"192.0.2.", "198.51.100.", "203.0.113."} : <<net, Fresh>> \in Seq(Clean)
  BY <1>1, CleanWords, CleanIsClean
<1>. QED  BY <1>2 DEF fake_ipv4

\* A fake AWS key: of the match only a known prefix is taken.
LEMMA AwsKeyIsClean ==
  ASSUME NEW original, NEW visible \in BOOLEAN
  PROVE  fake_aws_key(original, visible) \in Seq(Clean)
<1> DEFINE prefix == IF original # <<>> /\ original[1] \in AwsPrefixes THEN original[1] ELSE "AKIA"
<1>1. fake_aws_key(original, visible) =
        IF visible THEN <<"AKIABLEEP">> \o Fresh_(11)
        ELSE <<prefix>> \o Fresh_(IF prefix = "A3T" THEN 17 ELSE 16)
  BY Zenon DEF fake_aws_key
<1>2. prefix \in Clean /\ "AKIABLEEP" \in Clean
  <2>1. prefix \in AwsPrefixes
    BY DEF AwsPrefixes
  <2>. QED  BY <2>1, FixedIsClean
<1> HIDE DEF prefix
<1>3. <<prefix>> \in Seq(Clean) /\ <<"AKIABLEEP">> \in Seq(Clean)
  BY <1>2, CleanWords
<1>4. Fresh_(11) \in Seq(Clean) /\ Fresh_(17) \in Seq(Clean) /\ Fresh_(16) \in Seq(Clean)
  BY FreshIsClean
<1>5. /\ <<"AKIABLEEP">> \o Fresh_(11) \in Seq(Clean)
      /\ <<prefix>> \o Fresh_(17) \in Seq(Clean) /\ <<prefix>> \o Fresh_(16) \in Seq(Clean)
  BY <1>3, <1>4, CleanCat
<1>. QED  BY <1>1, <1>5

\* A fake GitHub token: of the match only a known prefix is taken.
LEMMA GithubPatIsClean ==
  ASSUME NEW original, NEW visible \in BOOLEAN
  PROVE  fake_github_pat(original, visible) \in Seq(Clean)
<1> DEFINE head == IF original = <<>> THEN "" ELSE original[1]
<1> DEFINE f == fake_github_pat(original, visible)
<1>1. visible => f = <<"ghp_BLEEP">> \o Fresh_(31)
  BY Zenon DEF fake_github_pat
<1>8. ~visible /\ head = "github_pat_" => f = <<head>> \o Fresh_(22) \o <<"_">> \o Fresh_(82)
  <2>1. "github_pat_" \notin GithubHeads
    BY DEF GithubHeads
  <2>. QED  BY <2>1, Zenon DEF fake_github_pat
<1>9. ~visible /\ head # "github_pat_" /\ head \in GithubHeads => f = <<head>> \o Fresh_(36)
  BY Zenon DEF fake_github_pat
<1>10. ~visible /\ head # "github_pat_" /\ head \notin GithubHeads => f = <<"ghp_">> \o Fresh_(36)
  BY Zenon DEF fake_github_pat
<1> HIDE DEF head, f
<1>2. "github_pat_" \in Clean /\ "ghp_BLEEP" \in Clean /\ "_" \in Clean /\ "ghp_" \in Clean
      /\ GithubHeads \subseteq Clean
  BY FixedIsClean DEF GithubHeads
<1>3. /\ <<"ghp_BLEEP">> \in Seq(Clean) /\ <<"_">> \in Seq(Clean) /\ <<"ghp_">> \in Seq(Clean)
      /\ head = "github_pat_" \/ head \in GithubHeads => <<head>> \in Seq(Clean)
  BY <1>2, CleanWords
<1>4. /\ Fresh_(31) \in Seq(Clean) /\ Fresh_(22) \in Seq(Clean) /\ Fresh_(82) \in Seq(Clean)
      /\ Fresh_(36) \in Seq(Clean)
  BY FreshIsClean
<1>5. <<"ghp_BLEEP">> \o Fresh_(31) \in Seq(Clean) /\ <<"ghp_">> \o Fresh_(36) \in Seq(Clean)
  BY <1>3, <1>4, CleanCat
<1>6. head = "github_pat_" =>
        <<head>> \o Fresh_(22) \o <<"_">> \o Fresh_(82) \in Seq(Clean)
  BY <1>3, <1>4, CleanCat
<1>7. head \in GithubHeads => <<head>> \o Fresh_(36) \in Seq(Clean)
  BY <1>3, <1>4, CleanCat
<1>. QED  BY <1>1, <1>8, <1>9, <1>10, <1>5, <1>6, <1>7 DEF f

\* A fake JWT.
LEMMA JwtIsClean ==
  ASSUME NEW visible \in BOOLEAN
  PROVE  fake_jwt(visible) \in Seq(Clean)
<1> DEFINE claims == IF visible THEN "fixed claims" ELSE "fresh claims"
<1>1. claims \in Clean /\ "header" \in Clean /\ "." \in Clean
  BY FixedIsClean
<1>2. fake_jwt(visible) = <<"header", ".", claims, ".">> \o Fresh_(43)
  BY DEF fake_jwt
<1> HIDE DEF claims
<1>3. <<"header", ".", claims, ".">> \in Seq(Clean)
  BY <1>1, CleanWords
<1>4. Fresh_(43) \in Seq(Clean)
  BY FreshIsClean
<1>. QED  BY <1>2, <1>3, <1>4, CleanCat

\* A fake UUID.
LEMMA UuidIsClean == fake_uuid \in Seq(Clean)
<1>1. <<"uuid">> \in Seq(Clean)
  BY FixedIsClean, CleanWords
<1>. QED  BY <1>1, FreshIsClean, CleanCat DEF fake_uuid

\* Encrypted digits.
LEMMA FpeIsClean ==
  ASSUME NEW original, IsSeq(original)
  PROVE  fake_fpe_numeric(original) \in Seq(Clean)
<1> DEFINE D == {i \in DOMAIN original : original[i] \in Digits}
           digits == Cardinality(D)
<1>1. digits \in Nat
  <2>1. DOMAIN original = 1..Len(original) /\ Len(original) \in Nat
    BY SeqIsString
  <2>2. IsFiniteSet(1..Len(original))
    BY <2>1, FS_Interval
  <2>3. IsFiniteSet(D)
    BY <2>1, <2>2, FS_Subset
  <2> HIDE DEF D
  <2>. QED  BY <2>3, FS_CardinalityType
<1>2. /\ digits = 0 => fake_fpe_numeric(original) = <<"a 0">>
      /\ digits # 0 /\ digits < 7 => fake_fpe_numeric(original) = fake_generic_random(original)
      /\ digits # 0 /\ ~(digits < 7) => fake_fpe_numeric(original) = Fresh_(digits)
  BY Zenon DEF fake_fpe_numeric
<1> HIDE DEF digits
<1>3. <<"a 0">> \in Seq(Clean)
  BY FixedIsClean, CleanWords
<1>4. Fresh_(digits) \in Seq(Clean) /\ fake_generic_random(original) \in Seq(Clean)
  BY <1>1, SeqIsString, FreshIsClean DEF fake_generic_random
<1>. QED  BY <1>2, <1>3, <1>4

--------------------------------------------------------------------------------
\* Texts and connection strings made from the match.

\* The texts that are made from the match: of the rest behind the head nothing stays
\* but separators.
NoAlnum(s) == /\ s \in Seq(ToSet(s)) /\ ToSet(s) \cap Alnum = {}

\* A text made without the match has nothing of it.
LEMMA CleanHasNoAlnum ==
  ASSUME NEW s \in Seq(Clean)
  PROVE  NoAlnum(s)
<1>1. ToSet(s) \subseteq Clean
  BY SequenceRange
<1>2. IsSeq(s)
  BY LenProperties DEF IsSeq
<1>3. s \in Seq(ToSet(s))
  BY <1>2, SeqIsString
<1>. QED  BY <1>1, <1>3, CleanIsClean DEF NoAlnum

\* Behind the head of an API key letters and digits are drawn, separators stay, and so does
\* the length.
LEMMA ApiKeyIs ==
  ASSUME NEW s, IsSeq(s), NEW visible \in BOOLEAN
  PROVE  /\ NoAlnum(fake_api_key(s, visible))
         /\ ~visible /\ s # << >> => Len(fake_api_key(s, visible)) = Len(s)
<1>1. CASE visible \/ s = << >>
  <2>1. fake_api_key(s, visible) = Fresh_(32)
    BY <1>1 DEF fake_api_key
  <2>2. Fresh_(32) \in Seq(Clean)
    BY FreshIsClean
  <2>. QED  BY <1>1, <2>1, <2>2, CleanHasNoAlnum
<1>2. CASE ~visible /\ s # << >>
  <2> DEFINE f == fake_api_key(s, visible)
  <2>1. f = [i \in DOMAIN s |-> IF s[i] \in Alnum THEN Fresh ELSE s[i]]
    BY <1>2 DEF fake_api_key
  <2>2. s \in Seq(ToSet(s))
    BY SeqIsString
  <2> HIDE DEF f
  <2>3. f = [i \in DOMAIN s |-> f[i]]
    BY <2>1
  <2>4. f \in Seq(ToSet(f)) /\ Len(f) = Len(s) /\ DOMAIN f = DOMAIN s
    BY <2>2, <2>3, MappedIsSeq
  <2>5. ASSUME NEW i \in DOMAIN f PROVE f[i] \notin Alnum
    BY <2>1, <2>4, CleanIsClean
  <2>6. ToSet(f) \cap Alnum = {}
    BY <2>5 DEF ToSet
  <2>. QED  BY <1>2, <2>4, <2>6 DEF f, NoAlnum
<1>. QED  BY <1>1, <1>2

\* A shapeless secret is drawn anew, at its length.
LEMMA GenericIs ==
  ASSUME NEW s, IsSeq(s)
  PROVE  /\ NoAlnum(fake_generic_random(s)) /\ Len(fake_generic_random(s)) = Len(s)
<1>1. fake_generic_random(s) \in Seq(Clean) /\ Len(fake_generic_random(s)) = Len(s)
  BY SeqIsString, FreshIsClean DEF fake_generic_random
<1>. QED  BY <1>1, CleanHasNoAlnum

\* The digits of a phone number.
LEMMA PhoneIs ==
  ASSUME NEW original, IsSeq(original), NEW visible \in BOOLEAN
  PROVE  ToSet(fake_phone(original, visible)) \cap Digits = {}
<1> DEFINE f == fake_phone(original, visible)
<1>1. visible => f = <<"+1-555-010-">> \o Fresh_(4)
  BY Zenon DEF fake_phone
<1>2. ~visible /\ original = << >> => f = <<"+1-555-010-0000">>
  BY Zenon DEF fake_phone
<1>3. ~visible /\ original # << >> =>
        f = [i \in DOMAIN original |-> IF original[i] \in Digits THEN Fresh ELSE original[i]]
  BY Zenon DEF fake_phone
<1> HIDE DEF f
<1>4. <<"+1-555-010-">> \o Fresh_(4) \in Seq(Clean) /\ <<"+1-555-010-0000">> \in Seq(Clean)
  <2>1. {"+1-555-010-", "+1-555-010-0000"} \subseteq Clean
    BY FixedIsClean
  <2>2. <<"+1-555-010-">> \in Seq(Clean) /\ <<"+1-555-010-0000">> \in Seq(Clean)
    BY <2>1, CleanWords
  <2>. QED  BY <2>2, FreshIsClean, CleanCat
<1>5. f \in Seq(Clean) => ToSet(f) \cap Digits = {}
  BY CleanHasNoAlnum, CleanIsClean DEF NoAlnum
<1>6. ~visible /\ original # << >> => ToSet(f) \cap Digits = {}
  BY <1>3, CleanIsClean DEF ToSet
<1>. QED  BY <1>1, <1>2, <1>4, <1>5, <1>6 DEF f

\* Connection strings.
Credentials == {"user", "password", "@user", "@password"}

\* All fields with one of these keys are drawn anew.
Hides(o, keys) == \A i \in DOMAIN o.fields : o.fields[i].key \in keys => o.fields[i].val = Fresh

\* Redrawing the fields with some keys hides them.
LEMMA RedrawnHides ==
  ASSUME NEW o, IsConnection(o), NEW keys, NEW K,
         \A i \in DOMAIN o.fields : o.fields[i].key \in K => o.fields[i].key \in keys
  PROVE  Hides(Redrawn(o, keys), K)
<1> DEFINE s == o.fields
           n == [i \in DOMAIN s |-> IF s[i].key \in keys THEN [s[i] EXCEPT !.val = Fresh] ELSE s[i]]
           d == [o EXCEPT !.fields = n]
<1>1. Redrawn(o, keys) = d
  BY Zenon DEF Redrawn
<1>2. \A i \in DOMAIN s : DOMAIN s[i] = {"key", "val"} /\ (s[i].key \in K => s[i].key \in keys)
  BY DEF IsConnection
<1>3. "fields" \in DOMAIN o
  BY DEF IsConnection
<1>4. ASSUME NEW i \in DOMAIN n
      PROVE  n[i].key = s[i].key /\ (s[i].key \in keys => n[i].val = Fresh)
  <2>1. i \in DOMAIN s /\ DOMAIN s[i] = {"key", "val"}
    BY <1>2
  <2>2. n[i] = IF s[i].key \in keys THEN [s[i] EXCEPT !.val = Fresh] ELSE s[i]
    OBVIOUS
  <2> HIDE DEF n, s
  <2>. QED  BY <2>1, <2>2
<1>5. DOMAIN n = DOMAIN s
  OBVIOUS
<1> HIDE DEF n, s
<1>6. d.fields = n
  BY <1>3
<1> HIDE DEF d
<1>. QED  BY <1>1, <1>2, <1>4, <1>5, <1>6 DEF Hides

\* Nothing is left of a fabricated string.
LEMMA FabricatedHides ==
  ASSUME NEW o, IsConnection(o), NEW K
  PROVE  Hides(Fabricated(o), K)
<1>1. Fabricated(o).fields = << >>
  BY DEF Fabricated, IsConnection
<1>. QED  BY <1>1 DEF Hides

\* A URL of a database: its authority and the credentials of its query.
LEMMA DbUrlHides ==
  ASSUME NEW o, IsConnection(o)
  PROVE  Hides(fake_db_url(o), Credentials)
<1> DEFINE keys == Userinfo \cup {"@host", "password", "pwd", "pass", "user", "username", "uid"}
<1>1. Credentials \subseteq keys
  BY DEF Credentials, Userinfo
<1>2. fake_db_url(o) = IF o.parses THEN Redrawn(o, keys) ELSE Fabricated(o)
  BY Zenon DEF fake_db_url
<1> HIDE DEF keys
<1>. QED  BY <1>1, <1>2, RedrawnHides, FabricatedHides

\* Without an authority there are two kinds of credentials left.
LEMMA DbPairsHide ==
  ASSUME NEW o, IsConnection(o), ~o.scheme \/ o.tns
  PROVE  /\ Hides(fake_db_adonet(o), Credentials)
         /\ Hides(fake_db_libpq(o), Credentials)
         /\ o.tns => Hides(fake_db_oracle(o), Credentials)
<1>1. \A i \in DOMAIN o.fields :
         o.fields[i].key \in Credentials => o.fields[i].key \in {"user", "password"}
  BY DEF IsConnection, Credentials, Userinfo
<1>2. ASSUME NEW keys, {"user", "password"} \subseteq keys
      PROVE  Hides(Redrawn(o, keys), Credentials)
  <2> DEFINE K == Credentials
  <2>1. \A i \in DOMAIN o.fields : o.fields[i].key \in K => o.fields[i].key \in keys
    BY <1>1, <1>2
  <2> HIDE DEF K
  <2>2. Hides(Redrawn(o, keys), K)
    BY <2>1, RedrawnHides
  <2>. QED  BY <2>2 DEF K
<1>3. Hides(fake_db_adonet(o), Credentials)
  BY <1>2 DEF fake_db_adonet
<1>4. Hides(fake_db_libpq(o), Credentials)
  BY <1>2 DEF fake_db_libpq
<1>5. Hides(fake_db_oracle(o), Credentials)
  BY <1>2 DEF fake_db_oracle
<1>. QED  BY <1>3, <1>4, <1>5

\* Whatever format classify_db_conn finds, its generator hides the credentials.
LEMMA DbConnHides ==
  ASSUME NEW o, IsConnection(o), NEW visible \in BOOLEAN
  PROVE  Hides(fake_db_conn(o, visible), Credentials)
<1> DEFINE format == classify_db_conn(o)
           f == fake_db_conn(o, visible)
           rest == IF o.semicolons /\ o.fields # << >>
                   THEN IF o.driver THEN "Odbc" ELSE "AdoNet"
                   ELSE IF Len(o.fields) >= 2 THEN "LibpqKv" ELSE "Unknown"
<1>1. /\ o.jdbc => format = "Jdbc"
      /\ ~o.jdbc /\ o.tns => format = "OracleTns"
      /\ ~o.jdbc /\ ~o.tns /\ o.scheme => format = "Url"
  BY Zenon DEF classify_db_conn
<1>2. ~o.jdbc /\ ~o.tns /\ ~o.scheme => format = rest
  BY Zenon DEF classify_db_conn
<1>3. rest \in {"Odbc", "AdoNet", "LibpqKv", "Unknown"}
  OBVIOUS
<1> HIDE DEF format, rest
<1>4. format \in {"Jdbc", "OracleTns", "Url", "Odbc", "AdoNet", "LibpqKv", "Unknown"}
  BY <1>1, <1>2, <1>3
<1>5. CASE visible \/ format = "Unknown"
  <2>1. f = Fabricated(o)
    BY <1>5, Zenon DEF fake_db_conn, format
  <2>. QED  BY <2>1, FabricatedHides
<1>6. CASE ~visible /\ format = "Url"
  <2>1. f = fake_db_url(o)
    BY <1>6, Zenon DEF fake_db_conn, format
  <2>. QED  BY <2>1, DbUrlHides
<1>7. CASE ~visible /\ format = "Jdbc"
  <2>1. f = fake_db_jdbc(o)
    BY <1>7, Zenon DEF fake_db_conn, format
  <2>2. fake_db_jdbc(o) = IF o.scheme THEN fake_db_url(o)
                          ELSE IF o.semicolons /\ o.fields # << >> THEN fake_db_adonet(o)
                          ELSE Fabricated(o)
    BY DEF fake_db_jdbc
  <2> HIDE DEF f
  <2>3. Hides(f, Credentials)
    BY <2>1, <2>2, DbUrlHides, DbPairsHide, FabricatedHides
  <2>. QED  BY <2>3 DEF f
<1>8. CASE ~visible /\ format \in {"AdoNet", "Odbc", "LibpqKv"}
  <2>1. ~o.scheme
    BY <1>1, <1>8
  <2>2. format \in {"AdoNet", "Odbc"} => f = fake_db_adonet(o)
    BY <1>8, Zenon DEF fake_db_conn, format
  <2>3. format = "LibpqKv" => f = fake_db_libpq(o)
    BY <1>8, Zenon DEF fake_db_conn, format
  <2> HIDE DEF f
  <2>4. Hides(f, Credentials)
    BY <1>8, <2>1, <2>2, <2>3, DbPairsHide
  <2>. QED  BY <2>4 DEF f
<1>9. CASE ~visible /\ format = "OracleTns"
  <2>1. o.tns
    BY <1>1, <1>2, <1>3, <1>9
  <2>2. f = fake_db_oracle(o)
    BY <1>9, Zenon DEF fake_db_conn, format
  <2>. QED  BY <2>1, <2>2, DbPairsHide
<1>. QED  BY <1>4, <1>5, <1>6, <1>7, <1>8, <1>9

\* The authority of a URL that parses, or that is fabricated.
LEMMA UrlCredHides ==
  ASSUME NEW o, IsConnection(o), NEW visible \in BOOLEAN, o.parses \/ ~visible
  PROVE  Hides(fake_url_cred(o, visible), Userinfo)
<1>1. CASE o.parses
  <2>1. fake_url_cred(o, visible) = Redrawn(o, Userinfo)
    BY <1>1 DEF fake_url_cred
  <2>. QED  BY <2>1, RedrawnHides
<1>2. CASE ~o.parses
  <2>1. fake_url_cred(o, visible) = Fabricated(o)
    BY <1>2 DEF fake_url_cred
  <2>. QED  BY <2>1, FabricatedHides
<1>. QED  BY <1>1, <1>2

--------------------------------------------------------------------------------
\* The fakes of loaded rules.

\* The head that a fake keeps, and the rest that is replaced.
HeadAndRest(head, rest, original, prefix, visible) ==
  /\ head \in Seq(Literals)
  /\ head = IF ~visible /\ IsStrictPrefix(prefix, original) THEN prefix ELSE << >>
  /\ IsSeq(rest) /\ Len(head) + Len(rest) = Len(original)
  /\ original # << >> => rest # << >>

\* with_literal_prefix gives such a head.
LEMMA HeadIs ==
  ASSUME NEW original, IsSeq(original), NEW prefix \in Seq(Literals), NEW visible \in BOOLEAN,
         NEW head, head = with_literal_prefix(original, prefix, visible),
         NEW rest, rest = SubSeq(original, Len(head) + 1, Len(original))
  PROVE  HeadAndRest(head, rest, original, prefix, visible)
<1> DEFINE A == ToSet(original)
           n == Len(original)
           k == Len(head)
<1>1. original \in Seq(A) /\ n \in Nat /\ DOMAIN original = 1..n
  BY SeqIsString
<1>2. head = IF ~visible /\ IsStrictPrefix(prefix, original) THEN prefix ELSE << >>
  BY DEF with_literal_prefix
<1>3. head \in Seq(Literals) /\ k \in Nat
  BY <1>2
<1>4. IsStrictPrefix(prefix, original) => Len(prefix) < n
  <2>1. SUFFICES ASSUME Len(prefix) <= n,
                        SubSeq(prefix, 1, Len(prefix)) = SubSeq(original, 1, Len(prefix)),
                        prefix # original, Len(prefix) = n
                 PROVE  FALSE
    BY <1>1 DEF IsStrictPrefix, IsPrefix
  <2>2. SubSeq(prefix, 1, Len(prefix)) = prefix
    OBVIOUS
  <2>3. SubSeq(original, 1, n) = original
    <3> HIDE DEF A
    <3>. QED  BY <1>1
  <2>. QED  BY <2>1, <2>2, <2>3
<1>5. k <= n /\ (original # << >> => k < n)
  <2>1. original # << >> => n > 0
    <3> HIDE DEF A
    <3>. QED  BY <1>1
  <2>. QED  BY <1>1, <1>2, <1>4, <2>1
<1>6. rest \in Seq(A) /\ Len(rest) = n - k
  <2> HIDE DEF A
  <2>1. rest = Drop(original, k) /\ k \in 0..n
    BY <1>1, <1>3, <1>5 DEF Drop
  <2> HIDE DEF k
  <2>. QED  BY <1>1, <2>1, DropIs
<1>7. IsSeq(rest)
  <2> HIDE DEF A
  <2>. QED  BY <1>6, LenProperties DEF IsSeq
<1>8. original # << >> => rest # << >>
  <2>1. original # << >> => n - k > 0
    <3> HIDE DEF n, k
    <3>. QED  BY <1>1, <1>3, <1>5
  <2>2. Len(<< >>) = 0
    OBVIOUS
  <2> HIDE DEF n, k
  <2>3. original # << >> => Len(rest) # 0
    BY <1>1, <1>3, <1>6, <2>1
  <2>. QED  BY <2>2, <2>3, Zenon
<1>9. k + Len(rest) = n
  <2> HIDE DEF n, k, A
  <2>. QED  BY <1>1, <1>3, <1>6
<1>. QED  BY <1>2, <1>3, <1>7, <1>8, <1>9 DEF HeadAndRest

\* A fake with a head is the head and what is made of the rest.
LEMMA FakeWithHead ==
  ASSUME NEW head \in Seq(Literals), NEW t, t \in Seq(ToSet(t)), NEW fake, fake = head \o t
  PROVE  /\ Len(fake) = Len(head) + Len(t)
         /\ SubSeq(fake, Len(head) + 1, Len(fake)) = t
         /\ IsPrefix(head, fake)
<1> DEFINE A == Literals \cup ToSet(t)
<1>1. head \in Seq(A) /\ t \in Seq(A)
  <2>1. Literals \subseteq A /\ ToSet(t) \subseteq A
    OBVIOUS
  <2> HIDE DEF A
  <2>. QED  BY <2>1, WiderString
<1> HIDE DEF A
<1>2. fake = Cat(head, t)
  BY DEF Cat
<1>3. /\ fake \in Seq(A) /\ Len(fake) = Len(head) + Len(t)
      /\ Take(fake, Len(head)) = head /\ Drop(fake, Len(head)) = t
  BY <1>1, <1>2, CatIs
<1>4. SubSeq(head, 1, Len(head)) = head
  OBVIOUS
<1>5. Len(head) \in Nat /\ Len(t) \in Nat
  BY <1>1, LenProperties
<1>6. Len(head) <= Len(fake)
  BY <1>3, <1>5
<1>. QED  BY <1>3, <1>4, <1>6 DEF Take, Drop, IsPrefix

\* The two replacement types that keep a head.
HeadTypes == {"faker_api_key", "generic_random"}

\* Their fakes are a head and a text with nothing of the match.
LEMMA HeadedFake ==
  ASSUME NEW type \in HeadTypes, NEW prefix \in Seq(Literals), NEW visible \in BOOLEAN,
         NEW original, IsSeq(original), NEW fake \in generate(type, original, prefix, visible)
  PROVE  \E head, t :
           /\ head = IF ~visible /\ IsStrictPrefix(prefix, original) THEN prefix ELSE << >>
           /\ head \in Seq(Literals)
           /\ NoAlnum(t) /\ fake = head \o t
           /\ ~visible /\ original # << >> => Len(head) + Len(t) = Len(original)
<1> DEFINE head == with_literal_prefix(original, prefix, visible)
           rest == SubSeq(original, Len(head) + 1, Len(original))
<1>1. /\ head \in Seq(Literals)
      /\ head = IF ~visible /\ IsStrictPrefix(prefix, original) THEN prefix ELSE << >>
      /\ IsSeq(rest) /\ Len(head) + Len(rest) = Len(original)
      /\ original # << >> => rest # << >>
  <2>1. head = with_literal_prefix(original, prefix, visible)
        /\ rest = SubSeq(original, Len(head) + 1, Len(original))
    OBVIOUS
  <2> HIDE DEF head, rest
  <2>2. HeadAndRest(head, rest, original, prefix, visible)
    BY <2>1, HeadIs
  <2>. QED  BY <2>2 DEF HeadAndRest
<1>2. CASE type = "faker_api_key"
  <2>1. fake = head \o fake_api_key(rest, visible)
    <3>1. fake \in {head \o fake_api_key(rest, visible)}
      BY <1>2, Zenon DEF generate
    <3>. QED  BY <3>1
  <2> HIDE DEF head, rest
  <2> DEFINE t == fake_api_key(rest, visible)
  <2>2. NoAlnum(t) /\ (~visible /\ rest # << >> => Len(t) = Len(rest))
    BY <1>1, ApiKeyIs
  <2> HIDE DEF t
  <2>3. ~visible /\ original # << >> => Len(head) + Len(t) = Len(original)
    BY <1>1, <2>2
  <2>. QED  BY <1>1, <2>1, <2>2, <2>3 DEF t
<1>3. CASE type = "generic_random"
  <2>1. fake = head \o fake_generic_random(rest)
    <3>1. fake \in {head \o fake_generic_random(rest)}
      BY <1>3, Zenon DEF generate
    <3>. QED  BY <3>1
  <2> HIDE DEF head, rest
  <2> DEFINE t == fake_generic_random(rest)
  <2>2. NoAlnum(t) /\ Len(t) = Len(rest)
    BY <1>1, GenericIs
  <2> HIDE DEF t
  <2>3. ~visible /\ original # << >> => Len(head) + Len(t) = Len(original)
    BY <1>1, <2>2
  <2>. QED  BY <1>1, <2>1, <2>2, <2>3 DEF t
<1>. QED  BY <1>2, <1>3 DEF HeadTypes

\* The fakes of the other texts have nothing of the match.
LEMMA TextFake ==
  ASSUME NEW type \in TextTypes \ HeadTypes, NEW prefix, NEW visible \in BOOLEAN,
         NEW original, IsSeq(original), NEW fake \in generate(type, original, prefix, visible)
  PROVE  fake \in Seq(Clean)
<1>1. CASE type = "faker_email"
  <2>1. fake \in {fake_email(original, visible)}
    BY <1>1, Zenon DEF generate
  <2>. QED  BY <2>1, EmailIsClean
<1>2. CASE type = "faker_ssn"
  <2>1. fake \in {fake_ssn(visible)}
    BY <1>2, Zenon DEF generate
  <2>. QED  BY <2>1, SsnIsClean
<1>3. CASE type = "faker_ipv4"
  <2>1. fake \in fake_ipv4(visible)
    BY <1>3, Zenon DEF generate
  <2>. QED  BY <2>1, Ipv4IsClean
<1>4. CASE type = "faker_aws_key"
  <2>1. fake \in {fake_aws_key(original, visible)}
    BY <1>4, Zenon DEF generate
  <2>. QED  BY <2>1, AwsKeyIsClean
<1>5. CASE type = "faker_github_pat"
  <2>1. fake \in {fake_github_pat(original, visible)}
    BY <1>5, Zenon DEF generate
  <2>. QED  BY <2>1, GithubPatIsClean
<1>6. CASE type = "faker_jwt"
  <2>1. fake \in {fake_jwt(visible)}
    BY <1>6, Zenon DEF generate
  <2>. QED  BY <2>1, JwtIsClean
<1>7. CASE type = "faker_uuid"
  <2>1. fake \in {fake_uuid}
    BY <1>7, Zenon DEF generate
  <2>. QED  BY <2>1, UuidIsClean
<1>8. CASE type = "fpe_numeric"
  <2>1. fake \in {fake_fpe_numeric(original)}
    BY <1>8, Zenon DEF generate
  <2>. QED  BY <2>1, FpeIsClean
<1>. QED  BY <1>1, <1>2, <1>3, <1>4, <1>5, <1>6, <1>7, <1>8 DEF TextTypes, HeadTypes

\* The match of a loaded rule and one of its fakes.
Made(type, prefix, visible, original, fake) ==
  /\ prefix \in Seq(Literals) /\ visible \in BOOLEAN
  /\ original \in Originals[type]
  /\ fake \in generate(type, original, prefix, visible)

\* What PrefixKept and NoSecretSurvives rest on: a fake is one that generate may return.
RedactionInv ==
  redaction # Nothing =>
    Made(redaction.type, redaction.prefix, redaction.visible, redaction.original, redaction.fake)

\* There is no redaction at first.
LEMMA RedactionInit == DeployInit => RedactionInv
  BY DEF DeployInit, RedactionInv

\* A redaction uses a rule that is loaded, whose prefix is literals by DeployInv.
LEMMA RedactionStep ==
  DeployInv /\ RedactionInv /\ [DeployNext]_allVars => RedactionInv'
<1> SUFFICES ASSUME DeployInv, RedactionInv, [DeployNext]_allVars
             PROVE  RedactionInv'
  OBVIOUS
<1>1. CASE redaction' = Nothing
  BY <1>1 DEF RedactionInv
<1>2. CASE UNCHANGED redaction
  BY <1>2 DEF RedactionInv
<1>3. CASE Redact
  <2>1. PICK r \in loaded, visible \in BOOLEAN :
          \E original \in Originals[r.replacement] :
            \E fake \in generate(r.replacement, original, r.prefix, visible) :
              redaction' = [type |-> r.replacement, prefix |-> r.prefix,
                            visible |-> visible, original |-> original, fake |-> fake]
    BY <1>3, Zenon DEF Redact
  <2>2. PICK original \in Originals[r.replacement] :
          \E fake \in generate(r.replacement, original, r.prefix, visible) :
            redaction' = [type |-> r.replacement, prefix |-> r.prefix,
                          visible |-> visible, original |-> original, fake |-> fake]
    BY <2>1, Zenon
  <2>3. PICK fake \in generate(r.replacement, original, r.prefix, visible) :
          redaction' = [type |-> r.replacement, prefix |-> r.prefix,
                        visible |-> visible, original |-> original, fake |-> fake]
    BY <2>2, Zenon
  <2>4. loaded \notin {NotLoaded, Panicked}
    BY <1>3, Zenon DEF Redact
  <2>5. RuleSet(loaded)
    BY <2>4 DEF DeployInv
  <2>6. r.prefix \in Seq(Literals)
    BY <2>5 DEF RuleSet, IsRule
  <2>7. Made(r.replacement, r.prefix, visible, original, fake)
    BY <2>6, Zenon DEF Made
  <2> DEFINE type == r.replacement
             prefix == r.prefix
  <2>8. /\ redaction'.type = type /\ redaction'.prefix = prefix
        /\ redaction'.visible = visible /\ redaction'.original = original
        /\ redaction'.fake = fake
    BY <2>3
  <2>9. Made(type, prefix, visible, original, fake)
    BY <2>7
  <2> HIDE DEF type, prefix
  <2>10. Made(redaction'.type, redaction'.prefix, redaction'.visible,
              redaction'.original, redaction'.fake)
    BY <2>8, <2>9, Zenon
  <2>. QED  BY <2>10, Zenon DEF RedactionInv
<1>. QED  BY <1>1, <1>2, <1>3 DEF DeployNext, Compile, StartGateway, allVars

\* RedactionInv is an invariant.
LEMMA RedactionInvHolds == DeploySpec => []RedactionInv
  BY RedactionInit, RedactionStep, DeployInvHolds, DeployInitInv, PTL DEF DeploySpec

\* The texts that a rule matches are sequences.
LEMMA TextOriginals ==
  ASSUME NEW type \in TextTypes \cup {"faker_phone"}, NEW original \in Originals[type]
  PROVE  IsSeq(original)
  BY OriginalsAssumption

\* What with_literal_prefix leaves in front of the fake.
HeadKept(type, prefix, visible, original, fake) ==
  type \in HeadTypes =>
    \E head :
      /\ head = IF ~visible /\ IsStrictPrefix(prefix, original) THEN prefix ELSE << >>
      /\ IsPrefix(head, fake)
      /\ NoAlnum(SubSeq(fake, Len(head) + 1, Len(fake)))
      /\ ~visible /\ original # << >> => Len(fake) = Len(original)

\* The prefix of the rule is kept if the match begins with it.
LEMMA MadeKeepsHead ==
  ASSUME NEW type, NEW prefix, NEW visible, NEW original, NEW fake,
         Made(type, prefix, visible, original, fake)
  PROVE  HeadKept(type, prefix, visible, original, fake)
<1> SUFFICES ASSUME type \in HeadTypes
             PROVE  \E head :
               /\ head = IF ~visible /\ IsStrictPrefix(prefix, original) THEN prefix ELSE << >>
               /\ IsPrefix(head, fake)
               /\ NoAlnum(SubSeq(fake, Len(head) + 1, Len(fake)))
               /\ ~visible /\ original # << >> => Len(fake) = Len(original)
  BY DEF HeadKept
<1>1. /\ prefix \in Seq(Literals) /\ visible \in BOOLEAN
      /\ fake \in generate(type, original, prefix, visible)
  BY DEF Made
<1>2. IsSeq(original)
  BY TextOriginals DEF Made, HeadTypes, TextTypes
<1>3. PICK head, t :
        /\ head = IF ~visible /\ IsStrictPrefix(prefix, original) THEN prefix ELSE << >>
        /\ head \in Seq(Literals)
        /\ NoAlnum(t) /\ fake = head \o t
        /\ ~visible /\ original # << >> => Len(head) + Len(t) = Len(original)
  BY <1>1, <1>2, HeadedFake
<1>4. /\ Len(fake) = Len(head) + Len(t)
      /\ SubSeq(fake, Len(head) + 1, Len(fake)) = t
      /\ IsPrefix(head, fake)
  BY <1>3, FakeWithHead DEF NoAlnum
<1>. QED  BY <1>3, <1>4

\* A realistic fake of a match that begins with its rule's literal prefix begins with it
\* as well, and is as long as the match, whatever the rules and the match
\* (with_literal_prefix in src/replacement/replacers.rs): the rule matches its own fakes.
THEOREM PrefixAlwaysKept == DeploySpec => []PrefixKept
<1>1. RedactionInv => PrefixKept
  <2> SUFFICES ASSUME RedactionInv, redaction # Nothing, redaction.type \in HeadTypes,
                      ~redaction.visible, redaction.original # << >>
               PROVE  /\ Len(redaction.fake) = Len(redaction.original)
                      /\ IsStrictPrefix(redaction.prefix, redaction.original) =>
                             IsPrefix(redaction.prefix, redaction.fake)
    BY DEF PrefixKept, HeadTypes
  <2>1. HeadKept(redaction.type, redaction.prefix, redaction.visible,
                 redaction.original, redaction.fake)
    BY MadeKeepsHead DEF RedactionInv
  <2>. QED  BY <2>1 DEF HeadKept
<1>. QED  BY <1>1, RedactionInvHolds, PTL

\* NoSecretSurvives of one replacement.
Hidden(type, prefix, visible, original, fake) ==
  LET kept == IF type \in HeadTypes /\ ~visible /\ IsStrictPrefix(prefix, original)
              THEN Len(prefix) ELSE 0
  IN /\ type \in TextTypes => ToSet(SubSeq(fake, kept + 1, Len(fake))) \cap Alnum = {}
     /\ type = "faker_phone" => ToSet(fake) \cap Digits = {}
     /\ type = "faker_db_conn" => Hides(fake, Credentials)
     /\ type = "faker_url_cred" /\ (original.parses \/ ~visible) => Hides(fake, Userinfo)

\* Every generator hides what it should, by the dispatch on the type.
LEMMA MadeHides ==
  ASSUME NEW type, NEW prefix, NEW visible, NEW original, NEW fake,
         Made(type, prefix, visible, original, fake)
  PROVE  Hidden(type, prefix, visible, original, fake)
<1> DEFINE kept == IF type \in HeadTypes /\ ~visible /\ IsStrictPrefix(prefix, original)
                   THEN Len(prefix) ELSE 0
<1>1. /\ prefix \in Seq(Literals) /\ visible \in BOOLEAN /\ original \in Originals[type]
      /\ fake \in generate(type, original, prefix, visible)
  BY DEF Made
<1>2. CASE type \in HeadTypes
  <2>1. PICK head :
          /\ head = IF ~visible /\ IsStrictPrefix(prefix, original) THEN prefix ELSE << >>
          /\ NoAlnum(SubSeq(fake, Len(head) + 1, Len(fake)))
    BY <1>2, MadeKeepsHead DEF HeadKept
  <2>2. kept = Len(head)
    BY <1>2, <2>1
  <2>3. ToSet(SubSeq(fake, kept + 1, Len(fake))) \cap Alnum = {}
    BY <2>1, <2>2 DEF NoAlnum
  <2>. QED  BY <1>2, <2>3 DEF Hidden, HeadTypes
<1>3. CASE type \in TextTypes \ HeadTypes
  <2>1. fake \in Seq(Clean)
    BY <1>1, <1>3, TextOriginals, TextFake
  <2>2. SubSeq(fake, 1, Len(fake)) = fake
    BY <2>1
  <2>3. NoAlnum(fake)
    BY <2>1, CleanHasNoAlnum
  <2>4. kept = 0
    BY <1>3
  <2>5. ToSet(SubSeq(fake, kept + 1, Len(fake))) \cap Alnum = {}
    <3>1. kept + 1 = 1 /\ ToSet(fake) \cap Alnum = {}
      BY <2>3, <2>4 DEF NoAlnum
    <3> HIDE DEF kept
    <3>. QED  BY <2>2, <3>1
  <2>. QED  BY <1>3, <2>5 DEF Hidden, TextTypes
<1>4. CASE type = "faker_phone"
  <2>1. fake \in {fake_phone(original, visible)}
    BY <1>1, <1>4, Zenon DEF generate
  <2>2. IsSeq(original)
    BY <1>1, <1>4, TextOriginals
  <2>3. ToSet(fake) \cap Digits = {}
    BY <1>1, <2>1, <2>2, PhoneIs
  <2>. QED  BY <1>4, <2>3 DEF Hidden, TextTypes
<1>5. CASE type = "faker_db_conn"
  <2>1. fake \in {fake_db_conn(original, visible)}
    BY <1>1, <1>5, Zenon DEF generate
  <2>2. IsConnection(original)
    BY <1>1, <1>5, OriginalsAssumption
  <2>3. Hides(fake, Credentials)
    BY <1>1, <2>1, <2>2, DbConnHides
  <2>. QED  BY <1>5, <2>3 DEF Hidden, TextTypes
<1>6. CASE type = "faker_url_cred"
  <2>1. fake \in {fake_url_cred(original, visible)}
    BY <1>1, <1>6, Zenon DEF generate
  <2>2. IsConnection(original)
    BY <1>1, <1>6, OriginalsAssumption
  <2>3. original.parses \/ ~visible => Hides(fake, Userinfo)
    BY <1>1, <2>1, <2>2, UrlCredHides
  <2>. QED  BY <1>6, <2>3 DEF Hidden, TextTypes
<1>7. CASE type \notin TextTypes \cup {"faker_phone", "faker_db_conn", "faker_url_cred"}
  BY <1>7 DEF Hidden
<1>. QED  BY <1>2, <1>3, <1>4, <1>5, <1>6, <1>7

\* Whatever the rules, the match and the draws, nothing of a match that could identify it
\* is in its fake: no letter or digit behind the rule's prefix, no digit of a phone
\* number, no user name or password of a connection string (the generators of
\* src/replacement/replacers.rs).
THEOREM NoSecretEverSurvives == DeploySpec => []NoSecretSurvives
<1>1. RedactionInv => NoSecretSurvives
  <2> SUFFICES ASSUME RedactionInv, redaction # Nothing
               PROVE  NoSecretSurvives
    BY DEF NoSecretSurvives
  <2>1. Hidden(redaction.type, redaction.prefix, redaction.visible,
               redaction.original, redaction.fake)
    BY MadeHides DEF RedactionInv
  <2>. QED  BY <2>1 DEF Hidden, Hides, HeadTypes, Credentials, NoSecretSurvives
<1>. QED  BY <1>1, RedactionInvHolds, PTL

================================================================================
