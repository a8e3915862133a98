-------------------------- MODULE Dictionary_proofs --------------------------
(***************************************************************************)
(* Proofs about Dictionary, for any number of callers, any batches and any *)
(* bounds.  All of them rest on one inductive invariant, IInv.             *)
(***************************************************************************)
EXTENDS Dictionary, NaturalsInduction, WellFoundedInduction, TLAPS

-----------------------------------------------------------------------------
(***************************************************************************)
(* Lemmas about the helpers                                                *)
(***************************************************************************)

\* A nonempty set of naturals has a least element.
LEMMA LeastNatural ==
  ASSUME NEW S \in SUBSET Nat, S # {}
  PROVE  \E i \in S : \A j \in S : i <= j
<1>1. PICK i \in S : \A j \in S : ~(<<j, i>> \in OpToRel(<, Nat))
  BY NatLessThanWellFounded, WFMin
<1>2. i \in Nat /\ \A j \in S : j \in Nat
  OBVIOUS
<1>3. \A j \in S : ~(j < i)
  BY <1>1, <1>2, Zenon DEF OpToRel
<1>. QED  BY <1>2, <1>3

\* FirstOf picks one of the matching redactions.
LEMMA FirstOfMatches ==
  ASSUME NEW b \in Seq(Pair), NEW D \in SUBSET DOMAIN b, NEW key, NEW k,
         Matches(b, D, key, k) # {}
  PROVE  /\ FirstOf(b, D, key, k) \in D
         /\ b[FirstOf(b, D, key, k)] \in Pair
         /\ b[FirstOf(b, D, key, k)][key] = k
<1>1. Matches(b, D, key, k) \in SUBSET Nat
  BY DEF Matches
<1>2. \E i \in Matches(b, D, key, k) : \A j \in Matches(b, D, key, k) : i <= j
  BY <1>1, LeastNatural
<1>3. FirstOf(b, D, key, k) \in Matches(b, D, key, k)
  BY <1>2 DEF FirstOf
<1>. QED  BY <1>3 DEF Matches

\* or_insert on MAP: bindings stay, every recorded fake becomes bound, and a
\* new binding is one of the recorded redactions.
LEMMA OrInsertFwd ==
  ASSUME NEW m \in [Fake -> Original \cup {None}], NEW b \in Seq(Pair),
         NEW n, n = OrInsert(m, b, "fake", "original")
  PROVE
         /\ n \in [Fake -> Original \cup {None}]
         /\ \A f \in Fake : m[f] # None => n[f] = m[f]
         /\ \A i \in DOMAIN b : n[b[i].fake] # None
         /\ \A f \in Fake : n[f] # m[f] => [fake |-> f, original |-> n[f]] \in Pair
<1> DEFINE first(f) == FirstOf(b, DOMAIN b, "fake", f)
<1>0. DOMAIN m = Fake  OBVIOUS
<1>1. n = [f \in Fake |-> IF m[f] = None /\ Matches(b, DOMAIN b, "fake", f) # {}
                           THEN b[first(f)].original ELSE m[f]]
  BY <1>0 DEF OrInsert
<1>2. ASSUME NEW f \in Fake, Matches(b, DOMAIN b, "fake", f) # {}
      PROVE  b[first(f)] \in Pair /\ b[first(f)].fake = f
  BY <1>2, FirstOfMatches
<1>3. ASSUME NEW f \in Fake, Matches(b, DOMAIN b, "fake", f) # {}
      PROVE  /\ b[first(f)].original \in Original
             /\ b[first(f)].original # None
             /\ [fake |-> f, original |-> b[first(f)].original] \in Pair
  <2>1. b[first(f)] = [fake |-> f, original |-> b[first(f)].original]
    BY <1>2, <1>3, DictionaryAssumption
  <2>. QED  BY <1>2, <1>3, <2>1, DictionaryAssumption
<1>4. ASSUME NEW i \in DOMAIN b
      PROVE  b[i].fake \in Fake /\ Matches(b, DOMAIN b, "fake", b[i].fake) # {}
  BY DictionaryAssumption DEF Matches
<1> HIDE DEF first
<1>. QED  BY <1>1, <1>3, <1>4, ZenonT(60)

\* The same for REVERSE.
LEMMA OrInsertRev ==
  ASSUME NEW m \in [Original -> Fake \cup {None}], NEW b \in Seq(Pair),
         NEW n, n = OrInsert(m, b, "original", "fake")
  PROVE
         /\ n \in [Original -> Fake \cup {None}]
         /\ \A o \in Original : m[o] # None => n[o] = m[o]
         /\ \A o \in Original :
              n[o] # m[o] => \E i \in DOMAIN b : b[i] = [fake |-> n[o], original |-> o]
<1> DEFINE first(o) == FirstOf(b, DOMAIN b, "original", o)
<1>0. DOMAIN m = Original  OBVIOUS
<1>1. n = [o \in Original |-> IF m[o] = None /\ Matches(b, DOMAIN b, "original", o) # {}
                               THEN b[first(o)].fake ELSE m[o]]
  BY <1>0 DEF OrInsert
<1>2. ASSUME NEW o \in Original, Matches(b, DOMAIN b, "original", o) # {}
      PROVE  /\ first(o) \in DOMAIN b
             /\ b[first(o)] \in Pair
             /\ b[first(o)].original = o
  BY <1>2, FirstOfMatches
<1>3. ASSUME NEW o \in Original, Matches(b, DOMAIN b, "original", o) # {}
      PROVE  /\ b[first(o)].fake \in Fake
             /\ first(o) \in DOMAIN b
             /\ b[first(o)] = [fake |-> b[first(o)].fake, original |-> o]
  BY <1>2, <1>3, DictionaryAssumption
<1> HIDE DEF first
<1>4. ASSUME NEW o \in Original, n[o] # m[o]
      PROVE  \E i \in DOMAIN b : b[i] = [fake |-> n[o], original |-> o]
  <2>1. Matches(b, DOMAIN b, "original", o) # {} /\ n[o] = b[first(o)].fake
    BY <1>1, <1>4
  <2>. QED  BY <1>3, <2>1
<1>5. n \in [Original -> Fake \cup {None}] /\ \A o \in Original : m[o] # None => n[o] = m[o]
  BY <1>1, <1>3
<1>. QED  BY <1>4, <1>5

-----------------------------------------------------------------------------
(***************************************************************************)
(* The inductive invariant                                                 *)
(***************************************************************************)

\* Calls run only while the statics are set, and outside that the maps are empty.
OpenInv ==
  dict # "open" =>
    /\ \A c \in Caller : pc[c] = "idle"
    /\ fwd = NoFwd /\ rev = NoRev /\ lock = None

\* The holder of the database mutex is the caller that is clearing the maps,
\* and whoever records at that time knows it overlaps a reset.
LockInv ==
  /\ \A c \in Caller : pc[c] \in Clearing => lock = c
  /\ lock # None =>
       /\ lock \in Caller /\ pc[lock] \in Clearing
       /\ rows = NoRows /\ owed = {}
       /\ \A c \in Caller : pc[c] \in Recording => overlap[c]

\* Past its MAP update, a call that no reset overlapped finds its fakes bound.
VisibleInv ==
  \A c \in Caller :
    pc[c] \in {"rev", "db"} /\ ~overlap[c] =>
      \A i \in DOMAIN batch[c] : fwd[batch[c][i].fake] # None

\* Every binding is one of the redactions that can be recorded.
SoundInv ==
  /\ \A f \in Fake : fwd[f] # None => [fake |-> f, original |-> fwd[f]] \in Pair
  /\ \A f \in Fake : rows[f] # None => [fake |-> f, original |-> rows[f].original] \in Pair
  /\ \A o \in Original : rev[o] # None => [fake |-> rev[o], original |-> o] \in Pair

\* Before the first reset nothing is lost from memory.
FreshInv ==
  resets = 0 =>
    /\ lock = None
    /\ \A c \in Caller : ~overlap[c]
    /\ \A o \in Original : rev[o] # None => fwd[rev[o]] # None
    /\ dict = "open" => \A f \in Fake : rows[f] # None => fwd[f] # None

IInv == TypeOK /\ OpenInv /\ LockInv /\ VisibleInv /\ SoundInv /\ FreshInv /\ CompletedIsDurable

-----------------------------------------------------------------------------

\* What the invariant says of the redactions a caller carries.
LEMMA BatchIsSeq ==
  ASSUME TypeOK, NEW c \in Caller
  PROVE  /\ batch[c] \in Seq(Pair)
         /\ \A i \in DOMAIN batch[c] : batch[c][i] \in Pair /\ batch[c][i].fake \in Fake
                                       /\ batch[c][i].original \in Original
<1>1. batch[c] \in Seq(Pair)
  <2>1. batch[c] \in Batch \cup {<< >>}
    BY DEF TypeOK
  <2>2. << >> \in Seq(Pair)
    OBVIOUS
  <2>. QED  BY <2>1, <2>2, DictionaryAssumption
<1>. QED  BY <1>1, DictionaryAssumption

\* What the transaction does to the table: it only binds, a saved redaction
\* leaves its fake bound, and a new row stores one of the batch's redactions.
LEMMA DbInserts ==
  ASSUME TypeOK, NEW c \in Caller, NEW saved \in SUBSET DOMAIN batch[c],
         rows' = Inserted(batch[c], saved, stamp[c])
  PROVE  /\ rows' \in [Fake -> Row \cup {None}]
         /\ \A f \in Fake : rows[f] # None => rows'[f] = rows[f]
         /\ \A i \in saved : rows'[batch[c][i].fake] # None
         /\ \A f \in Fake : rows[f] = None /\ rows'[f] # None =>
              \E i \in DOMAIN batch[c] :
                 batch[c][i] = [fake |-> f, original |-> rows'[f].original]
<1> DEFINE first(f) == FirstOf(batch[c], saved, "fake", f)
<1>0. batch[c] \in Seq(Pair) /\ stamp[c] \in 0..MaxClock
  BY BatchIsSeq DEF TypeOK
<1>1. ASSUME NEW f \in Fake, Matches(batch[c], saved, "fake", f) # {}
      PROVE  /\ first(f) \in saved
             /\ batch[c][first(f)] \in Pair
             /\ batch[c][first(f)].fake = f
  BY <1>0, <1>1, FirstOfMatches
<1>2. ASSUME NEW f \in Fake, Matches(batch[c], saved, "fake", f) # {}
      PROVE  /\ first(f) \in DOMAIN batch[c]
             /\ batch[c][first(f)] = [fake |-> f, original |-> batch[c][first(f)].original]
             /\ [original |-> batch[c][first(f)].original, created |-> stamp[c]] \in Row
             /\ [original |-> batch[c][first(f)].original, created |-> stamp[c]] # None
  BY <1>0, <1>1, <1>2, DictionaryAssumption DEF Row
<1>3. ASSUME NEW i \in saved
      PROVE  batch[c][i].fake \in Fake /\ Matches(batch[c], saved, "fake", batch[c][i].fake) # {}
  BY <1>3, BatchIsSeq DEF Matches
<1>4. rows' = [f \in Fake |->
                 IF rows[f] = None /\ Matches(batch[c], saved, "fake", f) # {}
                   THEN [original |-> batch[c][first(f)].original, created |-> stamp[c]]
                   ELSE rows[f]]
  BY DEF Inserted
<1> HIDE DEF first
<1>5. rows \in [Fake -> Row \cup {None}]
  BY DEF TypeOK
<1>6. rows' \in [Fake -> Row \cup {None}]
  BY <1>2, <1>4, <1>5
<1>7. ASSUME NEW f \in Fake, rows[f] = None, rows'[f] # None
      PROVE  \E i \in DOMAIN batch[c] : batch[c][i] = [fake |-> f, original |-> rows'[f].original]
  <2>1. Matches(batch[c], saved, "fake", f) # {}
    BY <1>4, <1>7
  <2>2. rows'[f].original = batch[c][first(f)].original
    BY <1>4, <1>7, <2>1
  <2>. QED  BY <1>2, <2>1, <2>2
<1>8. \A i \in saved : rows'[batch[c][i].fake] # None
  BY <1>2, <1>3, <1>4
<1>9. \A f \in Fake : rows[f] # None => rows'[f] = rows[f]
  BY <1>4
<1>. QED  BY <1>6, <1>7, <1>8, <1>9

-----------------------------------------------------------------------------
(***************************************************************************)
(* Type correctness                                                        *)
(***************************************************************************)

LEMMA TypeInit == Init => TypeOK
  BY DictionaryAssumption
     DEF Init, TypeOK, NoFwd, NoRev, NoRows

LEMMA TypeStep == TypeOK /\ [Next]_vars => TypeOK'
<1> SUFFICES ASSUME TypeOK, [Next]_vars PROVE TypeOK'
  OBVIOUS
<1> USE DictionaryAssumption DEF TypeOK
<1>1. CASE Open
  BY <1>1 DEF Open, Row, calls, ghosts
<1>2. CASE OpenFails
  BY <1>2 DEF OpenFails, maps, calls, ghosts
<1>3. CASE Crash
  BY <1>3 DEF Crash, NoFwd, NoRev
<1>4. CASE Tick
  BY <1>4 DEF Tick, maps, calls, ghosts
<1>5. ASSUME NEW c \in Caller, NEW b \in Batch, RecordBatch(c, b) PROVE TypeOK'
  BY <1>5 DEF RecordBatch, maps, Recording
<1>6. ASSUME NEW c \in Caller, RecordMap(c) PROVE TypeOK'
  <2>1. fwd' \in [Fake -> Original \cup {None}]
    BY <1>6, BatchIsSeq, OrInsertFwd DEF RecordMap
  <2>. QED  BY <1>6, <2>1 DEF RecordMap, ghosts, Recording
<1>7. ASSUME NEW c \in Caller, RecordRev(c) PROVE TypeOK'
  <2>1. rev' \in [Original -> Fake \cup {None}]
    BY <1>7, BatchIsSeq, OrInsertRev DEF RecordRev
  <2>. QED  BY <1>7, <2>1 DEF RecordRev, ghosts, Recording
<1>8. ASSUME NEW c \in Caller, RecordDb(c) PROVE TypeOK'
  <2>1. rows' \in [Fake -> Row \cup {None}]
    <3>1. PICK saved \in SUBSET DOMAIN batch[c] : rows' = Inserted(batch[c], saved, stamp[c])
      BY <1>8 DEF RecordDb
    <3>. QED  BY <3>1, DbInserts
  <2>2. owed' \subseteq Pair
    BY <1>8, BatchIsSeq DEF RecordDb
  <2>. QED  BY <1>8, <2>1, <2>2 DEF RecordDb, maps
<1>9. ASSUME NEW c \in Resetter, ResetAll(c) PROVE TypeOK'
  BY <1>9 DEF ResetAll, maps, NoRows, Clearing
<1>10. ASSUME NEW c \in Caller, ClearMap(c) PROVE TypeOK'
  BY <1>10 DEF ClearMap, NoFwd, ghosts, Clearing
<1>11. ASSUME NEW c \in Caller, ClearRev(c) PROVE TypeOK'
  BY <1>11 DEF ClearRev, NoRev, ghosts
<1>12. CASE UNCHANGED vars
  BY <1>12 DEF vars
<1>. QED
  BY <1>1, <1>2, <1>3, <1>4, <1>5, <1>6, <1>7, <1>8, <1>9, <1>10, <1>11, <1>12 DEF Next

\* Every variable keeps its type: the types of record_batch's three updates rest
\* on FirstOf finding a redaction of the batch.
THEOREM TypeCorrect == Spec => []TypeOK
  BY TypeInit, TypeStep, PTL DEF Spec

-----------------------------------------------------------------------------
(***************************************************************************)
(* The invariant holds initially and every step keeps it                   *)
(***************************************************************************)

LEMMA InvInit == Init => IInv
<1> SUFFICES ASSUME Init PROVE IInv
  OBVIOUS
<1>1. TypeOK
  BY TypeInit
<1>2. OpenInv /\ LockInv /\ VisibleInv /\ SoundInv /\ FreshInv /\ CompletedIsDurable
  BY DEF Init, OpenInv, LockInv, VisibleInv, SoundInv, FreshInv, CompletedIsDurable,
         Recording, Clearing, NoFwd, NoRev, NoRows
<1>. QED  BY <1>1, <1>2 DEF IInv

LEMMA InvStep == IInv /\ [Next]_vars => IInv'
<1> SUFFICES ASSUME IInv, [Next]_vars PROVE IInv'
  OBVIOUS
<1>0. TypeOK /\ TypeOK'
  BY TypeStep DEF IInv
<1> USE DictionaryAssumption, <1>0
<1> DEFINE Rest == OpenInv /\ LockInv /\ VisibleInv /\ SoundInv /\ FreshInv /\ CompletedIsDurable
<1>a. Rest
  BY DEF IInv
<1>1. CASE Open
  <2>1. /\ dict = "down" /\ dict' = "open"
        /\ fwd' = [f \in Fake |-> IF rows[f] = None THEN None ELSE rows[f].original]
        /\ Warmed(rev')
        /\ UNCHANGED <<rows, lock, pc, batch, stamp, clock, resets, owed, overlap>>
    BY <1>1 DEF Open, calls, ghosts
  <2>2. \A f \in Fake : rows[f] # None => rows[f].original \in Original /\ rows[f].original # None
    BY DEF TypeOK, Row
  <2>3. \A f \in Fake : /\ fwd'[f] # None => rows[f] # None /\ fwd'[f] = rows[f].original
                        /\ rows[f] # None => fwd'[f] # None
    BY <2>1, <2>2
  <2>4. \A o \in Original : rev'[o] # None =>
           /\ rev'[o] \in Fake /\ rows[rev'[o]] # None /\ rows[rev'[o]].original = o
    BY <2>1 DEF Warmed, Oldest, FakesOf
  <2>5. OpenInv' /\ LockInv'
    BY <1>a, <2>1 DEF OpenInv, LockInv, Recording, Clearing
  <2>6. VisibleInv'
    BY <1>a, <2>1 DEF VisibleInv, OpenInv
  <2>7. SoundInv'
    BY <1>a, <2>1, <2>3, <2>4 DEF SoundInv
  <2>8. FreshInv'
    BY <1>a, <2>1, <2>3, <2>4 DEF FreshInv
  <2>9. CompletedIsDurable'
    BY <1>a, <2>1, <2>3 DEF CompletedIsDurable, TypeOK
  <2>. QED  BY <2>5, <2>6, <2>7, <2>8, <2>9 DEF IInv
<1>2. CASE OpenFails
  BY <1>a, <1>2 DEF OpenFails, maps, calls, ghosts, IInv, OpenInv, LockInv, VisibleInv,
                     SoundInv, FreshInv, CompletedIsDurable
<1>3. CASE Crash
  <2>1. /\ dict' = "down" /\ fwd' = NoFwd /\ rev' = NoRev /\ lock' = None
        /\ \A c \in Caller : pc'[c] = "idle" /\ ~overlap'[c]
        /\ UNCHANGED <<rows, owed, resets>>
    BY <1>3 DEF Crash
  <2>2. OpenInv' /\ LockInv' /\ VisibleInv'
    BY <2>1 DEF OpenInv, LockInv, VisibleInv, Recording, Clearing
  <2>3. SoundInv' /\ FreshInv'
    BY <1>a, <2>1 DEF SoundInv, FreshInv, NoFwd, NoRev
  <2>4. CompletedIsDurable'
    BY <1>a, <2>1 DEF CompletedIsDurable
  <2>. QED  BY <2>2, <2>3, <2>4 DEF IInv
<1>4. CASE Tick
  BY <1>a, <1>4 DEF Tick, maps, calls, ghosts, IInv, OpenInv, LockInv, VisibleInv,
                     SoundInv, FreshInv, CompletedIsDurable
<1>5. ASSUME NEW c \in Caller, NEW b \in Batch, RecordBatch(c, b) PROVE IInv'
  <2>1. /\ dict = "open" /\ pc[c] = "idle" /\ pc'[c] = "map"
        /\ \A d \in Caller \ {c} : pc'[d] = pc[d] /\ batch'[d] = batch[d] /\ overlap'[d] = overlap[d]
        /\ overlap'[c] = (lock # None)
        /\ UNCHANGED <<dict, fwd, rev, rows, lock, resets, owed>>
    BY <1>5 DEF RecordBatch, maps, TypeOK
  <2>2. OpenInv' /\ SoundInv' /\ CompletedIsDurable'
    BY <1>a, <2>1 DEF OpenInv, SoundInv, CompletedIsDurable
  <2>3. LockInv'
    BY <1>a, <2>1 DEF LockInv, Recording, Clearing
  <2>4. VisibleInv'
    BY <1>a, <2>1 DEF VisibleInv
  <2>5. FreshInv'
    BY <1>a, <2>1 DEF FreshInv
  <2>. QED  BY <2>2, <2>3, <2>4, <2>5 DEF IInv
<1>6. ASSUME NEW c \in Caller, RecordMap(c) PROVE IInv'
  <2>1. /\ pc[c] = "map" /\ pc'[c] = "rev"
        /\ \A d \in Caller \ {c} : pc'[d] = pc[d]
        /\ fwd' = OrInsert(fwd, batch[c], "fake", "original")
        /\ UNCHANGED <<dict, rev, rows, lock, batch, resets, owed, overlap>>
    BY <1>6 DEF RecordMap, ghosts, TypeOK
  <2>2. /\ \A f \in Fake : fwd[f] # None => fwd'[f] = fwd[f]
        /\ \A i \in DOMAIN batch[c] : fwd'[batch[c][i].fake] # None
        /\ \A f \in Fake : fwd'[f] # fwd[f] => [fake |-> f, original |-> fwd'[f]] \in Pair
    <3>1. fwd \in [Fake -> Original \cup {None}] /\ batch[c] \in Seq(Pair)
      BY BatchIsSeq DEF TypeOK
    <3>2. fwd' = OrInsert(fwd, batch[c], "fake", "original")
      BY <2>1
    <3>. QED  BY <3>1, <3>2, OrInsertFwd
  <2>3. OpenInv' /\ LockInv'
    BY <1>a, <2>1 DEF OpenInv, LockInv, Recording, Clearing
  <2>4. VisibleInv'
    BY <1>a, <2>1, <2>2, BatchIsSeq DEF VisibleInv
  <2>5. SoundInv'
    BY <1>a, <2>1, <2>2 DEF SoundInv
  <2>6. FreshInv'
    BY <1>a, <2>1, <2>2 DEF FreshInv, TypeOK
  <2>7. CompletedIsDurable'
    BY <1>a, <2>1, <2>2 DEF CompletedIsDurable, TypeOK
  <2>. QED  BY <2>3, <2>4, <2>5, <2>6, <2>7 DEF IInv
<1>7. ASSUME NEW c \in Caller, RecordRev(c) PROVE IInv'
  <2>1. /\ pc[c] = "rev" /\ pc'[c] = "db"
        /\ \A d \in Caller \ {c} : pc'[d] = pc[d]
        /\ rev' = OrInsert(rev, batch[c], "original", "fake")
        /\ UNCHANGED <<dict, fwd, rows, lock, batch, resets, owed, overlap>>
    BY <1>7 DEF RecordRev, ghosts, TypeOK
  <2>2. /\ \A o \in Original : rev[o] # None => rev'[o] = rev[o]
        /\ \A o \in Original : rev'[o] # rev[o] =>
             \E i \in DOMAIN batch[c] : batch[c][i] = [fake |-> rev'[o], original |-> o]
    <3>1. rev \in [Original -> Fake \cup {None}] /\ batch[c] \in Seq(Pair)
      BY BatchIsSeq DEF TypeOK
    <3>2. rev' = OrInsert(rev, batch[c], "original", "fake")
      BY <2>1
    <3>. QED  BY <3>1, <3>2, OrInsertRev
  <2>3. OpenInv' /\ LockInv'
    BY <1>a, <2>1 DEF OpenInv, LockInv, Recording, Clearing
  <2>4. VisibleInv' /\ CompletedIsDurable'
    BY <1>a, <2>1 DEF VisibleInv, CompletedIsDurable
  <2>5. SoundInv'
    BY <1>a, <2>1, <2>2, BatchIsSeq DEF SoundInv
  <2>6. ASSUME resets = 0, NEW o \in Original, rev'[o] # None
        PROVE  fwd[rev'[o]] # None
    <3>1. CASE rev'[o] = rev[o]
      BY <1>a, <2>6, <3>1 DEF FreshInv
    <3>2. CASE rev'[o] # rev[o]
      <4>1. PICK i \in DOMAIN batch[c] : batch[c][i] = [fake |-> rev'[o], original |-> o]
        BY <2>2, <3>2
      <4>2. fwd[batch[c][i].fake] # None
        BY <1>a, <2>1, <2>6 DEF FreshInv, VisibleInv
      <4>. QED  BY <4>1, <4>2
    <3>. QED  BY <3>1, <3>2
  <2>7. FreshInv'
    BY <1>a, <2>1, <2>6 DEF FreshInv
  <2>. QED  BY <2>3, <2>4, <2>5, <2>7 DEF IInv
<1>8. ASSUME NEW c \in Caller, RecordDb(c) PROVE IInv'
  <2>1. PICK saved \in SUBSET DOMAIN batch[c] :
          /\ rows' = Inserted(batch[c], saved, stamp[c])
          /\ owed' = IF overlap[c] THEN owed ELSE owed \cup {batch[c][i] : i \in saved}
    BY <1>8 DEF RecordDb
  <2>2. /\ pc[c] = "db" /\ lock = None /\ pc'[c] = "idle" /\ ~overlap'[c]
        /\ \A d \in Caller \ {c} : pc'[d] = pc[d] /\ batch'[d] = batch[d] /\ overlap'[d] = overlap[d]
        /\ UNCHANGED <<dict, fwd, rev, lock, resets>>
    BY <1>8 DEF RecordDb, maps, TypeOK
  <2>3. /\ \A f \in Fake : rows[f] # None => rows'[f] = rows[f]
        /\ \A i \in saved : rows'[batch[c][i].fake] # None
        /\ \A f \in Fake : rows[f] = None /\ rows'[f] # None =>
             \E i \in DOMAIN batch[c] : batch[c][i] = [fake |-> f, original |-> rows'[f].original]
    BY <2>1, DbInserts
  <2>4. OpenInv' /\ LockInv'
    BY <1>a, <2>2 DEF OpenInv, LockInv, Recording, Clearing
  <2>5. VisibleInv'
    BY <1>a, <2>2 DEF VisibleInv
  <2>6. SoundInv'
    BY <1>a, <2>2, <2>3, BatchIsSeq DEF SoundInv
  <2>7. FreshInv'
    <3>1. ASSUME resets = 0, NEW f \in Fake, rows[f] = None, rows'[f] # None
          PROVE  fwd[f] # None
      <4>1. PICK i \in DOMAIN batch[c] : batch[c][i] = [fake |-> f, original |-> rows'[f].original]
        BY <2>3, <3>1
      <4>2. fwd[batch[c][i].fake] # None
        BY <1>a, <2>2, <3>1 DEF FreshInv, VisibleInv
      <4>. QED  BY <4>1, <4>2
    <3>. QED  BY <1>a, <2>2, <2>3, <3>1 DEF FreshInv
  <2>8. CompletedIsDurable'
    <3>1. ASSUME NEW p \in owed'
          PROVE  rows'[p.fake] # None /\ (dict = "open" => fwd[p.fake] # None)
      <4>0. p.fake \in Fake
        BY <3>1 DEF TypeOK
      <4>1. CASE p \in owed
        BY <1>a, <2>3, <4>0, <4>1 DEF CompletedIsDurable
      <4>2. CASE p \notin owed
        <5>1. ~overlap[c] /\ \E i \in saved : p = batch[c][i]
          BY <2>1, <3>1, <4>2
        <5>. QED  BY <1>a, <2>2, <2>3, <5>1 DEF VisibleInv
      <4>. QED  BY <4>1, <4>2
    <3>. QED  BY <2>2, <3>1 DEF CompletedIsDurable
  <2>. QED  BY <2>4, <2>5, <2>6, <2>7, <2>8 DEF IInv
<1>9. ASSUME NEW c \in Resetter, ResetAll(c) PROVE IInv'
  <2>1. /\ dict = "open" /\ pc[c] = "idle" /\ lock = None
        /\ rows' = NoRows /\ lock' = c /\ owed' = {} /\ resets' = resets + 1
        /\ c \in Caller /\ pc'[c] = "clear_map"
        /\ \A d \in Caller \ {c} : pc'[d] = pc[d]
        /\ \A d \in Caller : pc[d] \in Recording => overlap'[d]
        /\ UNCHANGED <<dict, fwd, rev, batch>>
    BY <1>9 DEF ResetAll, maps, TypeOK
  <2>2. OpenInv' /\ LockInv'
    BY <1>a, <2>1 DEF OpenInv, LockInv, Recording, Clearing
  <2>3. VisibleInv'
    <3>1. \A d \in Caller : pc'[d] \in {"rev", "db"} => overlap'[d]
      BY <2>1 DEF Recording
    <3>. QED  BY <3>1 DEF VisibleInv
  <2>4. SoundInv'
    BY <1>a, <2>1 DEF SoundInv, NoRows
  <2>5. FreshInv' /\ CompletedIsDurable'
    BY <2>1 DEF FreshInv, CompletedIsDurable, TypeOK
  <2>. QED  BY <2>2, <2>3, <2>4, <2>5 DEF IInv
<1>10. ASSUME NEW c \in Caller, ClearMap(c) PROVE IInv'
  <2>1. /\ pc[c] = "clear_map" /\ pc'[c] = "clear_rev" /\ fwd' = NoFwd
        /\ \A d \in Caller \ {c} : pc'[d] = pc[d]
        /\ UNCHANGED <<dict, rev, rows, lock, batch, resets, owed, overlap>>
    BY <1>10 DEF ClearMap, ghosts, TypeOK
  <2>2. lock = c /\ lock # None
    BY <1>a, <2>1 DEF LockInv, Clearing
  <2>3. OpenInv' /\ LockInv'
    BY <1>a, <2>1, <2>2 DEF OpenInv, LockInv, Recording, Clearing
  <2>4. VisibleInv'
    BY <1>a, <2>1, <2>2 DEF VisibleInv, LockInv, Recording
  <2>5. SoundInv'
    BY <1>a, <2>1 DEF SoundInv, NoFwd
  <2>6. FreshInv' /\ CompletedIsDurable'
    BY <1>a, <2>1, <2>2 DEF FreshInv, CompletedIsDurable, LockInv
  <2>. QED  BY <2>3, <2>4, <2>5, <2>6 DEF IInv
<1>11. ASSUME NEW c \in Caller, ClearRev(c) PROVE IInv'
  <2>1. /\ pc[c] = "clear_rev" /\ pc'[c] = "idle" /\ rev' = NoRev /\ lock' = None
        /\ \A d \in Caller \ {c} : pc'[d] = pc[d]
        /\ UNCHANGED <<dict, fwd, rows, batch, resets, owed, overlap>>
    BY <1>11 DEF ClearRev, ghosts, TypeOK
  <2>2. lock = c /\ lock # None
    BY <1>a, <2>1 DEF LockInv, Clearing
  <2>3. OpenInv' /\ LockInv'
    BY <1>a, <2>1, <2>2 DEF OpenInv, LockInv, Recording, Clearing
  <2>4. VisibleInv'
    BY <1>a, <2>1 DEF VisibleInv
  <2>5. SoundInv'
    BY <1>a, <2>1 DEF SoundInv, NoRev
  <2>6. FreshInv' /\ CompletedIsDurable'
    BY <1>a, <2>1, <2>2 DEF FreshInv, CompletedIsDurable
  <2>. QED  BY <2>3, <2>4, <2>5, <2>6 DEF IInv
<1>12. CASE UNCHANGED vars
  BY <1>a, <1>12 DEF vars, IInv, OpenInv, LockInv, VisibleInv, SoundInv, FreshInv,
                      CompletedIsDurable
<1>. QED
  BY <1>1, <1>2, <1>3, <1>4, <1>5, <1>6, <1>7, <1>8, <1>9, <1>10, <1>11, <1>12 DEF Next

LEMMA Invariance == Spec => []IInv
  BY InvInit, InvStep, PTL DEF Spec

-----------------------------------------------------------------------------
(***************************************************************************)
(* What the invariant gives                                                *)
(***************************************************************************)

\* A completed, reset-free record_batch survives every crash and restart: its
\* fakes stay on disk, and in memory whenever the dictionary is open.
THEOREM CompletedSurvives == Spec => []CompletedIsDurable
<1>1. IInv => CompletedIsDurable
  BY DEF IInv
<1>. QED  BY <1>1, Invariance, PTL

\* Unless two originals drew the same fake, what is restored is the original
\* that was recorded.
THEOREM CompletedIsFaithful == Spec => []CompletedIsExact
<1>1. IInv => CompletedIsExact
  <2> SUFFICES ASSUME IInv, UniqueFakes, NEW p \in owed
               PROVE  /\ rows[p.fake].original = p.original
                      /\ dict = "open" => fwd[p.fake] = p.original
    BY DEF CompletedIsExact
  <2>1. p \in Pair /\ p.fake \in Fake
    BY DictionaryAssumption DEF IInv, TypeOK
  <2>2. rows[p.fake] # None /\ (dict = "open" => fwd[p.fake] # None)
    BY DEF IInv, CompletedIsDurable
  <2>3. ASSUME NEW o, [fake |-> p.fake, original |-> o] \in Pair
        PROVE  o = p.original
    BY <2>1, <2>3 DEF UniqueFakes
  <2>. QED  BY <2>1, <2>2, <2>3 DEF IInv, SoundInv
<1>. QED  BY <1>1, Invariance, PTL

\* No row appears between the DELETE of a reset and the end of its clears.
THEOREM ResetIsExclusive == Spec => []ResetHoldsTheDisk
<1>1. IInv => ResetHoldsTheDisk
  BY DEF IInv, LockInv, ResetHoldsTheDisk
<1>. QED  BY <1>1, Invariance, PTL

\* Before the first reset, whatever is on disk is visible in memory.
THEOREM MemoryIsFirst == Spec => []MemoryBeforeDisk
<1>1. IInv => MemoryBeforeDisk
  BY DEF IInv, FreshInv, MemoryBeforeDisk
<1>. QED  BY <1>1, Invariance, PTL

\* Before the first reset, a canonical fake is always restorable, and to its own
\* original unless originals share fakes.
THEOREM CanonicalIsRestorable == Spec => []CanonicalRoundTrips
<1>1. IInv => CanonicalRoundTrips
  <2> SUFFICES ASSUME IInv, resets = 0, NEW o \in Original, rev[o] # None
               PROVE  fwd[rev[o]] # None /\ (UniqueFakes => fwd[rev[o]] = o)
    BY DEF CanonicalRoundTrips
  <2>1. fwd[rev[o]] # None
    BY DEF IInv, FreshInv
  <2>2. rev[o] \in Fake
    BY DEF IInv, TypeOK
  <2>3. /\ [fake |-> rev[o], original |-> o] \in Pair
        /\ [fake |-> rev[o], original |-> fwd[rev[o]]] \in Pair
    BY <2>1, <2>2 DEF IInv, SoundInv
  <2>4. ASSUME UniqueFakes PROVE fwd[rev[o]] = o
    BY <2>3, <2>4 DEF UniqueFakes
  <2>. QED  BY <2>1, <2>4
<1>. QED  BY <1>1, Invariance, PTL

-----------------------------------------------------------------------------
(***************************************************************************)
(* Each of the three stores implements WriteOnceStore                      *)
(***************************************************************************)

LEMMA StoresInit == Init => ForwardMap!Init /\ ReverseMap!Init /\ Table!Init
  BY DEF Init, NoFwd, NoRev, NoRows, ForwardMap!Init, ForwardMap!Empty, ReverseMap!Init,
         ReverseMap!Empty, Table!Init, Table!Empty

\* Every step binds new keys of MAP or empties it.
LEMMA ForwardStep == IInv /\ IInv' /\ [Next]_vars => [ForwardMap!Next]_fwd
<1> SUFFICES ASSUME IInv, IInv', [Next]_vars, fwd' # fwd PROVE ForwardMap!Bind \/ ForwardMap!Wipe
  BY DEF ForwardMap!Next
<1>0. TypeOK /\ TypeOK'
  BY DEF IInv
<1>1. CASE Open
  BY <1>0, <1>1 DEF Open, IInv, OpenInv, NoFwd, ForwardMap!Bind, TypeOK
<1>2. CASE Crash
  BY <1>2 DEF Crash, NoFwd, ForwardMap!Wipe, ForwardMap!Empty
<1>3. ASSUME NEW c \in Caller, RecordMap(c) PROVE ForwardMap!Bind
  <2>1. fwd \in [Fake -> Original \cup {None}] /\ batch[c] \in Seq(Pair)
    BY <1>0, BatchIsSeq DEF TypeOK
  <2>2. fwd' = OrInsert(fwd, batch[c], "fake", "original")
    BY <1>3 DEF RecordMap
  <2>3. fwd' \in [Fake -> Original \cup {None}] /\ \A f \in Fake : fwd[f] # None => fwd'[f] = fwd[f]
    BY <2>1, <2>2, OrInsertFwd
  <2>. QED  BY <2>3 DEF ForwardMap!Bind
<1>4. ASSUME NEW c \in Caller, ClearMap(c) PROVE ForwardMap!Wipe
  BY <1>4 DEF ClearMap, NoFwd, ForwardMap!Wipe, ForwardMap!Empty
<1>. QED
  BY <1>1, <1>2, <1>3, <1>4 DEF Next, OpenFails, Tick, RecordBatch, RecordRev, RecordDb,
     ResetAll, ClearRev, maps, vars

\* Every step binds new keys of REVERSE or empties it.
LEMMA ReverseStep == IInv /\ IInv' /\ [Next]_vars => [ReverseMap!Next]_rev
<1> SUFFICES ASSUME IInv, IInv', [Next]_vars, rev' # rev PROVE ReverseMap!Bind \/ ReverseMap!Wipe
  BY DEF ReverseMap!Next
<1>0. TypeOK /\ TypeOK'
  BY DEF IInv
<1>1. CASE Open
  BY <1>0, <1>1 DEF Open, IInv, OpenInv, NoRev, ReverseMap!Bind, TypeOK
<1>2. CASE Crash
  BY <1>2 DEF Crash, NoRev, ReverseMap!Wipe, ReverseMap!Empty
<1>3. ASSUME NEW c \in Caller, RecordRev(c) PROVE ReverseMap!Bind
  <2>1. rev \in [Original -> Fake \cup {None}] /\ batch[c] \in Seq(Pair)
    BY <1>0, BatchIsSeq DEF TypeOK
  <2>2. rev' = OrInsert(rev, batch[c], "original", "fake")
    BY <1>3 DEF RecordRev
  <2>3. rev' \in [Original -> Fake \cup {None}] /\ \A o \in Original : rev[o] # None => rev'[o] = rev[o]
    BY <2>1, <2>2, OrInsertRev
  <2>. QED  BY <2>3 DEF ReverseMap!Bind
<1>4. ASSUME NEW c \in Caller, ClearRev(c) PROVE ReverseMap!Wipe
  BY <1>4 DEF ClearRev, NoRev, ReverseMap!Wipe, ReverseMap!Empty
<1>. QED
  BY <1>1, <1>2, <1>3, <1>4 DEF Next, OpenFails, Tick, RecordBatch, RecordMap, RecordDb,
     ResetAll, ClearMap, maps, vars

\* Every step binds new keys of the table or empties it.
LEMMA DiskStep == IInv /\ IInv' /\ [Next]_vars => [Table!Next]_rows
<1> SUFFICES ASSUME IInv, IInv', [Next]_vars, rows' # rows PROVE Table!Bind \/ Table!Wipe
  BY DEF Table!Next
<1>0. TypeOK
  BY DEF IInv
<1>1. ASSUME NEW c \in Caller, RecordDb(c) PROVE Table!Bind
  <2>1. PICK saved \in SUBSET DOMAIN batch[c] : rows' = Inserted(batch[c], saved, stamp[c])
    BY <1>1 DEF RecordDb
  <2>. QED  BY <1>0, <2>1, DbInserts DEF Table!Bind
<1>2. ASSUME NEW c \in Resetter, ResetAll(c) PROVE Table!Wipe
  BY <1>2 DEF ResetAll, NoRows, Table!Wipe, Table!Empty
<1>. QED
  BY <1>1, <1>2 DEF Next, Open, OpenFails, Crash, Tick, RecordBatch, RecordMap, RecordRev,
     ClearMap, ClearRev, maps, vars

\* MAP, REVERSE and the table each implement the write-once store: no
\* interleaving rebinds a key or loses a single one.
THEOREM StoresRefine == Spec => StoresAreWriteOnce
<1>1. Spec => []IInv /\ [][Next]_vars
  BY Invariance, PTL DEF Spec
<1>2. Spec => ForwardMap!Spec
  BY <1>1, StoresInit, ForwardStep, PTL DEF Spec, ForwardMap!Spec
<1>3. Spec => ReverseMap!Spec
  BY <1>1, StoresInit, ReverseStep, PTL DEF Spec, ReverseMap!Spec
<1>4. Spec => Table!Spec
  BY <1>1, StoresInit, DiskStep, PTL DEF Spec, Table!Spec
<1>. QED  BY <1>2, <1>3, <1>4 DEF StoresAreWriteOnce

=============================================================================
