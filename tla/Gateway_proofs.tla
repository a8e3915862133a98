--------------------------- MODULE Gateway_proofs ---------------------------
(***************************************************************************)
(* Proofs about Gateway, for any number of requests, any bodies and any    *)
(* draws.  Gateway is shown to implement Dictionary first, which brings    *)
(* the inductive invariant of Dictionary_proofs to bear on its states.     *)
(***************************************************************************)
EXTENDS Gateway, Dictionary_proofs, Substitution_proofs

-----------------------------------------------------------------------------
(***************************************************************************)
(* The dictionary inside the gateway behaves as Dictionary says            *)
(***************************************************************************)

LEMMA RequestsCall == Request \subseteq Caller /\ Resetter \subseteq Caller
  BY GatewayAssumption

\* A step of the gateway is a step of the dictionary or leaves it alone.
LEMMA DictionaryStep == [GatewayNext]_gvars => [Next]_vars
<1> SUFFICES ASSUME [GatewayNext]_gvars PROVE [Next]_vars
  OBVIOUS
<1>1. CASE InDictionary
  BY <1>1 DEF InDictionary, Next, Running
<1>2. CASE Down
  BY <1>2 DEF Down, Next
<1>3. ASSUME NEW r \in Request, Persist(r) PROVE [Next]_vars
  <2>1. CASE RecordBatch(r, redactions[r])
    <3>1. redactions[r] \in Batch /\ r \in Caller
      BY <2>1, RequestsCall DEF RecordBatch
    <3>. QED  BY <2>1, <3>1 DEF Next
  <2>. QED  BY <1>3, <2>1 DEF Persist
<1>4. ASSUME NEW r \in Request,
             Replace(r) \/ Forward(r) \/ Answer(r) \/ Finish(r) \/ \E b \in Body : Receive(r, b)
      PROVE  UNCHANGED vars
  BY <1>4 DEF Replace, Forward, Answer, Finish, Receive
<1>5. CASE UNCHANGED gvars
  BY <1>5 DEF gvars
<1>. QED  BY <1>1, <1>2, <1>3, <1>4, <1>5 DEF GatewayNext

\* Whatever the handlers do, the dictionary they share goes through the steps of
\* Dictionary only, so that every theorem about it holds in the gateway.
THEOREM GatewayImplementsDictionary == GatewaySpec => Spec
<1>1. GatewayInit => Init
  BY DEF GatewayInit
<1>. QED  BY <1>1, DictionaryStep, PTL DEF GatewaySpec, Spec

-----------------------------------------------------------------------------
(***************************************************************************)
(* The inductive invariant of the handlers                                 *)
(***************************************************************************)

\* A clone that is not in use carries nothing, and none is in use while the
\* process is down.
IdleInv ==
  /\ \A r \in Request : stage[r] = "idle" => redactions[r] = << >> /\ dedup[r] = NoRev
  /\ dict = "down" => forwarded = {} /\ \A r \in Request : stage[r] = "idle"

\* The dedup map holds possible redactions, and in a whole body the redactions
\* made so far are exactly what it answers.
DedupInv ==
  \A r \in Request :
    /\ \A o \in Original : dedup[r][o] # None => [fake |-> dedup[r][o], original |-> o] \in Pair
    /\ route[r] = "whole" =>
         \A i \in DOMAIN redactions[r] :
           dedup[r][redactions[r][i].original] = redactions[r][i].fake

\* A request that is inside record_batch records its own redactions; once it has
\* come back they are bound, and so is whatever was forwarded.
PersistInv ==
  /\ \A r \in Request :
       pc[r] \in Recording => stage[r] = "persist" /\ batch[r] = redactions[r]
  /\ dict = "open" /\ resets = 0 =>
       /\ \A r \in Request : stage[r] = "persist" /\ pc[r] = "idle" =>
            \A i \in DOMAIN redactions[r] : fwd[redactions[r][i].fake] # None
       /\ \A p \in forwarded : fwd[p.fake] # None

GInv == IInv /\ GatewayTypeOK /\ IdleInv /\ DedupInv /\ PersistInv

\* The redactions of a request are pairs of a fake and an original.
LEMMA RedactionIsPair ==
  ASSUME GatewayTypeOK, NEW r \in Request, NEW i \in DOMAIN redactions[r]
  PROVE  /\ redactions[r][i] \in Pair
         /\ redactions[r][i].fake \in Fake
         /\ redactions[r][i].original \in Original
  BY DictionaryAssumption DEF GatewayTypeOK

\* Whichever way a fake is chosen, it is a possible one for the secret.
LEMMA FakeIsPossible ==
  ASSUME GInv, NEW r \in Request, NEW o \in Original, NEW f \in Fakes(r, o)
  PROVE  f \in Fake /\ [fake |-> f, original |-> o] \in Pair
<1>1. CASE dedup[r][o] # None
  BY <1>1, DictionaryAssumption DEF Fakes, GInv, DedupInv, GatewayTypeOK
<1>2. CASE dedup[r][o] = None /\ rev[o] # None
  BY <1>2 DEF Fakes, GInv, IInv, SoundInv, TypeOK
<1>3. CASE dedup[r][o] = None /\ rev[o] = None
  BY <1>3, GatewayAssumption DEF Fakes
<1>. QED  BY <1>1, <1>2, <1>3

\* While the dictionary stays open and no reset happens, MAP only grows.
LEMMA MapGrows ==
  ASSUME IInv, Next, dict = "open", dict' = "open", resets' = 0
  PROVE  \A f \in Fake : fwd[f] # None => fwd'[f] # None
<1>0. TypeOK /\ resets = 0
  BY DEF IInv, TypeOK, Next, Open, OpenFails, Crash, Tick, RecordBatch, RecordMap, RecordRev,
         RecordDb, ResetAll, ClearMap, ClearRev
<1>1. ASSUME NEW c \in Caller, RecordMap(c)
      PROVE  \A f \in Fake : fwd[f] # None => fwd'[f] # None
  <2>1. fwd \in [Fake -> Original \cup {None}] /\ batch[c] \in Seq(Pair)
    BY <1>0, BatchIsSeq DEF TypeOK
  <2>2. fwd' = OrInsert(fwd, batch[c], "fake", "original")
    BY <1>1 DEF RecordMap
  <2>. QED  BY <2>1, <2>2, OrInsertFwd
<1>2. ASSUME NEW c \in Caller, ClearMap(c) PROVE FALSE
  BY <1>0, <1>2, DictionaryAssumption DEF ClearMap, IInv, LockInv, FreshInv, Clearing
<1>. QED
  BY <1>1, <1>2 DEF Next, Open, OpenFails, Crash, Tick, RecordBatch, RecordRev, RecordDb,
     ResetAll, ClearRev, maps

LEMMA GInvInit == GatewayInit => GInv
<1> SUFFICES ASSUME GatewayInit PROVE GInv
  OBVIOUS
<1>1. IInv
  BY InvInit DEF GatewayInit
<1>2. GatewayTypeOK
  BY DictionaryAssumption DEF GatewayInit, GatewayTypeOK, Stage, Route, NoRev, NoFwd
<1>3. IdleInv /\ DedupInv /\ PersistInv
  BY RequestsCall, DictionaryAssumption
     DEF GatewayInit, Init, IdleInv, DedupInv, PersistInv, Recording, NoRev
<1>. QED  BY <1>1, <1>2, <1>3 DEF GInv

\* Steps of the handlers.
LEMMA ReceiveKeeps ==
  ASSUME GInv, IInv', NEW r \in Request, NEW b \in Body, Receive(r, b)
  PROVE  GInv'
<1>1. /\ b.route \in Route /\ b.secrets \in Seq(Original)
      /\ stage[r] = "idle" /\ dict # "down"
      /\ UNCHANGED <<vars, dedup, redactions, snap, mode, forwarded>>
  BY GatewayAssumption DEF Receive
<1>2. GatewayTypeOK'
  BY <1>1 DEF Receive, GInv, GatewayTypeOK, Stage
<1>3. IdleInv'
  BY <1>1 DEF Receive, GInv, GatewayTypeOK, IdleInv, vars
<1>4. DedupInv'
  BY <1>1 DEF Receive, GInv, GatewayTypeOK, IdleInv, DedupInv, vars
<1>5. PersistInv'
  BY <1>1 DEF Receive, GInv, GatewayTypeOK, PersistInv, vars
<1>. QED  BY <1>2, <1>3, <1>4, <1>5 DEF GInv

LEMMA ReplaceKeeps ==
  ASSUME GInv, IInv', NEW r \in Request, Replace(r)
  PROVE  GInv'
<1> DEFINE o == Head(todo[r])
<1>0. GatewayTypeOK /\ IdleInv /\ DedupInv /\ PersistInv
  BY DEF GInv
<1>1. /\ stage[r] = "scan" /\ todo[r] # << >>
      /\ o \in Original /\ Tail(todo[r]) \in Seq(Original)
      /\ UNCHANGED <<vars, stage, route, snap, mode, forwarded>>
      /\ todo' = [todo EXCEPT ![r] = Tail(@)]
  BY <1>0 DEF Replace, GatewayTypeOK
<1>2. PICK f \in Fakes(r, o) :
        /\ redactions' = [redactions EXCEPT ![r] = Append(@, [fake |-> f, original |-> o])]
        /\ dedup' = IF route[r] = "whole" THEN [dedup EXCEPT ![r][o] = f] ELSE dedup
  BY DEF Replace
<1>3. f \in Fake /\ [fake |-> f, original |-> o] \in Pair
  BY <1>1, <1>2, FakeIsPossible
<1>4. redactions'[r] = Append(redactions[r], [fake |-> f, original |-> o])
      /\ \A q \in Request \ {r} : redactions'[q] = redactions[q]
  BY <1>0, <1>2 DEF GatewayTypeOK
<1>5. redactions[r] \in Seq(Pair) /\ redactions'[r] \in Seq(Pair)
  BY <1>0, <1>3, <1>4 DEF GatewayTypeOK
<1>6. dedup' \in [Request -> [Original -> Fake \cup {None}]]
  <2>1. dedup \in [Request -> [Original -> Fake \cup {None}]]
    BY <1>0 DEF GatewayTypeOK
  <2>2. dedup[r] \in [Original -> Fake \cup {None}]
    BY <2>1
  <2>3. [dedup[r] EXCEPT ![o] = f] \in [Original -> Fake \cup {None}]
    BY <1>3, <2>2
  <2>4. dedup' = dedup \/ dedup' = [dedup EXCEPT ![r] = [dedup[r] EXCEPT ![o] = f]]
    BY <1>2
  <2>. QED  BY <2>1, <2>3, <2>4
<1>7. GatewayTypeOK'
  <2>1. todo' \in [Request -> Seq(Original)]
    BY <1>0, <1>1 DEF GatewayTypeOK
  <2>2. redactions' \in [Request -> Seq(Pair)]
    BY <1>0, <1>2, <1>4, <1>5 DEF GatewayTypeOK
  <2>. QED  BY <1>0, <1>1, <1>6, <2>1, <2>2 DEF GatewayTypeOK
<1>8. IdleInv'
  BY <1>0, <1>1, <1>2, <1>4 DEF IdleInv, GatewayTypeOK, vars
<1>9. DedupInv'
  <2>1. \A q \in Request \ {r} : dedup'[q] = dedup[q]
    BY <1>0, <1>2 DEF GatewayTypeOK
  <2>2. \A p \in Original : dedup'[r][p] = dedup[r][p] \/ (p = o /\ dedup'[r][p] = f)
    BY <1>0, <1>2 DEF GatewayTypeOK
  <2>3. ASSUME route[r] = "whole", NEW i \in DOMAIN redactions'[r]
        PROVE  dedup'[r][redactions'[r][i].original] = redactions'[r][i].fake
    <3>0. dedup'[r] = [dedup[r] EXCEPT ![o] = f]
      BY <1>0, <1>2, <2>3 DEF GatewayTypeOK
    <3>1. dedup'[r][o] = f
      BY <1>0, <1>1, <3>0 DEF GatewayTypeOK
    <3>2. CASE i = Len(redactions[r]) + 1
      <4>1. redactions'[r][i] = [fake |-> f, original |-> o]
        BY <1>4, <1>5, <3>2
      <4>. QED  BY <3>1, <4>1
    <3>3. CASE i # Len(redactions[r]) + 1
      <4>1. i \in DOMAIN redactions[r] /\ redactions'[r][i] = redactions[r][i]
        BY <1>4, <1>5, <2>3, <3>3
      <4>2. dedup[r][redactions[r][i].original] = redactions[r][i].fake
        BY <1>0, <2>3, <4>1 DEF DedupInv
      <4>3. redactions[r][i].fake \in Fake /\ redactions[r][i].original \in Original
        BY <1>0, <4>1, RedactionIsPair
      <4>4. CASE redactions[r][i].original = o
        <5>1. dedup[r][o] # None
          BY <4>2, <4>3, <4>4, DictionaryAssumption
        <5>2. f = dedup[r][o]
          BY <1>2, <5>1 DEF Fakes
        <5>. QED  BY <3>1, <4>1, <4>2, <4>4, <5>2
      <4>5. CASE redactions[r][i].original # o
        BY <1>0, <3>0, <4>1, <4>2, <4>3, <4>5 DEF GatewayTypeOK
      <4>. QED  BY <4>4, <4>5
    <3>. QED  BY <3>2, <3>3
  <2>4. ASSUME NEW q \in Request, NEW p \in Original, dedup'[q][p] # None
        PROVE  [fake |-> dedup'[q][p], original |-> p] \in Pair
    BY <1>0, <1>3, <2>1, <2>2, <2>4 DEF DedupInv
  <2>5. ASSUME NEW q \in Request, route'[q] = "whole", NEW i \in DOMAIN redactions'[q]
        PROVE  dedup'[q][redactions'[q][i].original] = redactions'[q][i].fake
    <3>1. route[q] = "whole"
      BY <1>1, <2>5
    <3>2. CASE q = r
      BY <2>3, <3>1, <3>2
    <3>3. CASE q # r
      BY <1>0, <1>4, <2>1, <3>1, <3>3 DEF DedupInv
    <3>. QED  BY <3>2, <3>3
  <2>. QED  BY <2>4, <2>5 DEF DedupInv
<1>10. PersistInv'
  <2>1. pc[r] \notin Recording
    BY <1>0, <1>1 DEF PersistInv
  <2>. QED  BY <1>0, <1>1, <1>4, <2>1 DEF PersistInv, vars
<1>. QED  BY <1>7, <1>8, <1>9, <1>10 DEF GInv

LEMMA PersistKeeps ==
  ASSUME GInv, IInv', NEW r \in Request, Persist(r)
  PROVE  GInv'
<1>0. TypeOK /\ OpenInv /\ GatewayTypeOK /\ IdleInv /\ DedupInv /\ PersistInv
  BY DEF GInv, IInv
<1>1. /\ stage[r] = "scan" /\ stage' = [stage EXCEPT ![r] = "persist"]
      /\ UNCHANGED <<route, todo, dedup, redactions, snap, mode, forwarded>>
  BY DEF Persist
<1>2. GatewayTypeOK'
  BY <1>0, <1>1 DEF GatewayTypeOK, Stage
<1>3. dict' = dict /\ resets' = resets /\ fwd' = fwd
  BY DEF Persist, RecordBatch, vars, maps
<1>4. IdleInv'
  BY <1>0, <1>1, <1>3 DEF IdleInv, GatewayTypeOK
<1>5. DedupInv'
  BY <1>0, <1>1 DEF DedupInv
<1>6. ASSUME dict = "open" PROVE PersistInv'
  <2>1. /\ pc' = [pc EXCEPT ![r] = "map"]
        /\ batch' = [batch EXCEPT ![r] = redactions[r]]
    BY <1>6 DEF Persist, RecordBatch
  <2>2. /\ pc'[r] = "map" /\ batch'[r] = redactions[r] /\ stage'[r] = "persist"
        /\ \A q \in Request \ {r} : pc'[q] = pc[q] /\ batch'[q] = batch[q] /\ stage'[q] = stage[q]
    BY <1>0, <1>1, <2>1, RequestsCall DEF TypeOK, GatewayTypeOK
  <2>3. redactions' = redactions /\ forwarded' = forwarded
    BY <1>1
  <2>4. \A q \in Request : pc'[q] \in Recording => stage'[q] = "persist" /\ batch'[q] = redactions'[q]
    BY <1>0, <2>2, <2>3 DEF PersistInv
  <2>5. ASSUME dict' = "open", resets' = 0
        PROVE  /\ \A q \in Request : stage'[q] = "persist" /\ pc'[q] = "idle" =>
                    \A i \in DOMAIN redactions'[q] : fwd'[redactions'[q][i].fake] # None
               /\ \A p \in forwarded' : fwd'[p.fake] # None
    BY <1>0, <1>3, <2>2, <2>3, <2>5 DEF PersistInv
  <2>. QED  BY <2>4, <2>5 DEF PersistInv
<1>7. ASSUME dict # "open" PROVE PersistInv'
  <2>1. \A q \in Request : pc'[q] = "idle"
    BY <1>0, <1>7, RequestsCall DEF Persist, vars, OpenInv
  <2>2. dict' # "open" /\ \A q \in Request : pc'[q] \notin Recording
    BY <1>3, <1>7, <2>1 DEF Recording
  <2>. QED  BY <2>2 DEF PersistInv
<1>. QED  BY <1>2, <1>4, <1>5, <1>6, <1>7 DEF GInv

LEMMA ForwardKeeps ==
  ASSUME GInv, IInv', NEW r \in Request, Forward(r)
  PROVE  GInv'
<1>0. GatewayTypeOK /\ IdleInv /\ DedupInv /\ PersistInv
  BY DEF GInv
<1>1. /\ stage[r] = "persist" /\ pc[r] = "idle"
      /\ stage' = [stage EXCEPT ![r] = "upstream"]
      /\ forwarded' = forwarded \cup {redactions[r][i] : i \in DOMAIN redactions[r]}
      /\ UNCHANGED <<vars, route, todo, dedup, redactions, snap, mode>>
  BY DEF Forward
<1>2. forwarded' \subseteq Pair
  BY <1>0, <1>1, RedactionIsPair DEF GatewayTypeOK
<1>3. GatewayTypeOK'
  BY <1>0, <1>1, <1>2 DEF GatewayTypeOK, Stage
<1>4. IdleInv'
  BY <1>0, <1>1 DEF IdleInv, GatewayTypeOK, vars
<1>5. DedupInv'
  BY <1>0, <1>1 DEF DedupInv
<1>6. PersistInv'
  <2>1. \A q \in Request : stage'[q] = "persist" => stage[q] = "persist" /\ q # r
    BY <1>0, <1>1 DEF GatewayTypeOK
  <2>2. \A q \in Request : pc[q] \in Recording => q # r /\ stage'[q] = stage[q]
    BY <1>0, <1>1 DEF GatewayTypeOK, Recording
  <2>3. ASSUME dict = "open", resets = 0, NEW p \in forwarded' PROVE fwd[p.fake] # None
    BY <1>0, <1>1, <2>3 DEF PersistInv
  <2>. QED  BY <1>0, <1>1, <2>1, <2>2, <2>3 DEF PersistInv, vars
<1>. QED  BY <1>3, <1>4, <1>5, <1>6 DEF GInv

LEMMA AnswerKeeps ==
  ASSUME GInv, IInv', NEW r \in Request, Answer(r)
  PROVE  GInv'
<1>0. TypeOK /\ GatewayTypeOK /\ IdleInv /\ DedupInv /\ PersistInv
  BY DEF GInv, IInv
<1>1. /\ stage[r] = "upstream" /\ stage' = [stage EXCEPT ![r] = "reply"]
      /\ snap' = [snap EXCEPT ![r] = fwd]
      /\ mode' \in [Request -> {"buffered", "stream"}]
      /\ UNCHANGED <<vars, route, todo, dedup, redactions, forwarded>>
  BY <1>0 DEF Answer, GatewayTypeOK
<1>2. GatewayTypeOK'
  BY <1>0, <1>1 DEF GatewayTypeOK, Stage, TypeOK
<1>3. IdleInv' /\ DedupInv'
  BY <1>0, <1>1 DEF IdleInv, DedupInv, GatewayTypeOK, vars
<1>4. PersistInv'
  <2>1. \A q \in Request : stage'[q] = "persist" <=> stage[q] = "persist"
    BY <1>0, <1>1 DEF GatewayTypeOK
  <2>. QED  BY <1>0, <1>1, <2>1 DEF PersistInv, vars
<1>. QED  BY <1>2, <1>3, <1>4 DEF GInv

LEMMA FinishKeeps ==
  ASSUME GInv, IInv', NEW r \in Request, Finish(r)
  PROVE  GInv'
<1>0. GatewayTypeOK /\ IdleInv /\ DedupInv /\ PersistInv
  BY DEF GInv
<1>1. /\ stage[r] = "reply" /\ stage' = [stage EXCEPT ![r] = "idle"]
      /\ route' = [route EXCEPT ![r] = "opaque"]
      /\ dedup' = [dedup EXCEPT ![r] = NoRev]
      /\ redactions' = [redactions EXCEPT ![r] = << >>]
      /\ snap' = [snap EXCEPT ![r] = NoFwd]
      /\ mode' = [mode EXCEPT ![r] = "buffered"]
      /\ UNCHANGED <<vars, todo, forwarded>>
  BY DEF Finish
<1>2. GatewayTypeOK'
  BY <1>0, <1>1 DEF GatewayTypeOK, Stage, Route, NoRev, NoFwd
<1>3. IdleInv'
  BY <1>0, <1>1 DEF IdleInv, GatewayTypeOK, vars
<1>4. /\ dedup'[r] = NoRev /\ redactions'[r] = << >>
      /\ \A q \in Request \ {r} : /\ dedup'[q] = dedup[q] /\ redactions'[q] = redactions[q]
                                   /\ route'[q] = route[q]
  BY <1>0, <1>1 DEF GatewayTypeOK
<1>5. DedupInv'
  <2>1. /\ \A o \in Original : dedup'[r][o] = None
        /\ DOMAIN redactions'[r] = {}
    BY <1>4 DEF NoRev
  <2>. QED  BY <1>0, <1>4, <2>1 DEF DedupInv
<1>6. PersistInv'
  <2>1. \A q \in Request : stage'[q] = "persist" <=> stage[q] = "persist"
    BY <1>0, <1>1 DEF GatewayTypeOK
  <2>2. \A q \in Request : stage[q] = "persist" => q # r
    BY <1>1
  <2>. QED  BY <1>0, <1>1, <1>4, <2>1, <2>2 DEF PersistInv, vars
<1>. QED  BY <1>2, <1>3, <1>5, <1>6 DEF GInv

\* The process goes away.
LEMMA DownKeeps ==
  ASSUME GInv, IInv', Down
  PROVE  GInv'
<1>1. GatewayTypeOK'
  BY DictionaryAssumption DEF Down, GatewayTypeOK, Stage, Route, NoRev, NoFwd
<1>2. IdleInv' /\ DedupInv'
  BY DEF Down, IdleInv, DedupInv, NoRev
<1>3. PersistInv'
  BY RequestsCall DEF Down, Crash, PersistInv, Recording
<1>. QED  BY <1>1, <1>2, <1>3 DEF GInv

\* The dictionary works on: MAP grows unless it is reset, and a call that comes
\* back has bound its fakes.
LEMMA DictionaryKeeps ==
  ASSUME GInv, IInv', InDictionary
  PROVE  GInv'
<1>0. IInv /\ TypeOK /\ GatewayTypeOK /\ IdleInv /\ DedupInv /\ PersistInv
  BY DEF GInv, IInv
<1>1. /\ Next
      /\ UNCHANGED <<stage, route, todo, dedup, redactions, snap, mode, forwarded>>
  BY DEF InDictionary, Next, Running, flight
<1>2. GatewayTypeOK' /\ DedupInv'
  BY <1>0, <1>1 DEF GatewayTypeOK, DedupInv
<1>3. dict' = "down" => dict = "down"
  BY DEF InDictionary, Open, OpenFails, Tick, Running, RecordMap, RecordRev, RecordDb, ClearMap,
         ClearRev, ResetAll
<1>4. IdleInv'
  BY <1>0, <1>1, <1>3 DEF IdleInv
<1>5. ASSUME NEW q \in Request
      PROVE  /\ pc'[q] \in Recording => pc[q] \in Recording /\ batch'[q] = batch[q]
             /\ pc'[q] = "idle" =>
                  \/ pc[q] = "idle"
                  \/ (pc[q] = "db" /\ UNCHANGED <<dict, fwd, resets>>)
                  \/ resets' # 0
  <2>0. q \in Caller
    BY RequestsCall
  <2>1. CASE Open \/ OpenFails \/ Tick
    BY <2>1 DEF Open, OpenFails, Tick, calls
  <2>2. ASSUME NEW c \in Caller, RecordMap(c) \/ RecordRev(c) \/ RecordDb(c)
        PROVE  /\ pc'[q] \in Recording => pc[q] \in Recording /\ batch'[q] = batch[q]
               /\ pc'[q] = "idle" => pc[q] = "idle" \/ (pc[q] = "db" /\ UNCHANGED <<dict, fwd, resets>>)
    <3>1. CASE RecordMap(c)
      <4>1. pc[c] = "map" /\ pc' = [pc EXCEPT ![c] = "rev"] /\ batch' = batch
        BY <3>1 DEF RecordMap
      <4>2. DOMAIN pc = Caller
        BY <1>0 DEF TypeOK
      <4>3. pc'[q] = IF q = c THEN "rev" ELSE pc[q]
        BY <2>0, <4>1, <4>2
      <4>. QED  BY <4>1, <4>3 DEF Recording
    <3>2. CASE RecordRev(c)
      BY <1>0, <2>0, <3>2 DEF RecordRev, Recording, TypeOK
    <3>3. CASE RecordDb(c)
      <4>1. /\ pc[c] = "db" /\ pc' = [pc EXCEPT ![c] = "idle"]
            /\ batch' = [batch EXCEPT ![c] = << >>]
            /\ UNCHANGED <<dict, fwd, resets>>
        BY <3>3 DEF RecordDb, maps
      <4>2. CASE q = c
        BY <1>0, <2>0, <4>1, <4>2 DEF Recording, TypeOK
      <4>3. CASE q # c
        BY <1>0, <2>0, <4>1, <4>3 DEF TypeOK
      <4>. QED  BY <4>2, <4>3
    <3>. QED  BY <2>2, <3>1, <3>2, <3>3
  <2>3. ASSUME NEW c \in Caller, ClearMap(c) \/ ClearRev(c)
        PROVE  resets # 0 /\ resets' = resets
    BY <1>0, <2>3, DictionaryAssumption
       DEF ClearMap, ClearRev, IInv, LockInv, FreshInv, Clearing
  <2>4. ASSUME NEW c \in Resetter, ResetAll(c)
        PROVE  resets' # 0
    BY <1>0, <2>4, DictionaryAssumption DEF ResetAll, TypeOK
  <2>5. ASSUME NEW c \in Caller, ClearMap(c) \/ ClearRev(c) \/ ResetAll(c)
        PROVE  pc'[q] \in Recording => pc[q] \in Recording /\ batch'[q] = batch[q]
    <3>1. batch' = batch /\ pc' \in {[pc EXCEPT ![c] = "clear_map"], [pc EXCEPT ![c] = "clear_rev"],
                                    [pc EXCEPT ![c] = "idle"]}
      BY <2>5 DEF ClearMap, ClearRev, ResetAll
    <3>. QED  BY <1>0, <2>0, <3>1 DEF Recording, TypeOK
  <2>. QED  BY <2>1, <2>2, <2>3, <2>4, <2>5, RequestsCall DEF InDictionary, Running
<1>6. \A q \in Request : pc'[q] \in Recording => stage'[q] = "persist" /\ batch'[q] = redactions'[q]
  BY <1>0, <1>1, <1>5 DEF PersistInv
<1>7. ASSUME dict' = "open", resets' = 0, dict # "open"
      PROVE  /\ forwarded' = {}
             /\ \A q \in Request : stage'[q] = "idle"
  <2>1. dict = "down"
    BY <1>7 DEF InDictionary, Open, OpenFails, Tick, Running, RecordMap, RecordRev, RecordDb,
       ClearMap, ClearRev, ResetAll
  <2>. QED  BY <1>0, <1>1, <2>1 DEF IdleInv
<1>8. ASSUME dict' = "open", resets' = 0, dict = "open"
      PROVE  /\ \A q \in Request : stage'[q] = "persist" /\ pc'[q] = "idle" =>
                  \A i \in DOMAIN redactions'[q] : fwd'[redactions'[q][i].fake] # None
             /\ \A p \in forwarded' : fwd'[p.fake] # None
  <2>1. resets = 0
    BY <1>0, <1>8 DEF InDictionary, TypeOK, Open, OpenFails, Tick, Running, RecordMap, RecordRev,
       RecordDb, ClearMap, ClearRev, ResetAll
  <2>2. \A f \in Fake : fwd[f] # None => fwd'[f] # None
    BY <1>0, <1>1, <1>8, MapGrows
  <2>3. ASSUME NEW p \in forwarded' PROVE fwd'[p.fake] # None
    <3>1. p \in forwarded /\ p.fake \in Fake
      BY <1>0, <1>1, DictionaryAssumption DEF GatewayTypeOK
    <3>2. fwd[p.fake] # None
      BY <1>0, <1>8, <2>1, <3>1 DEF PersistInv
    <3>. QED  BY <2>2, <3>1, <3>2
  <2>4. ASSUME NEW q \in Request, stage'[q] = "persist", pc'[q] = "idle",
               NEW i \in DOMAIN redactions'[q]
        PROVE  fwd'[redactions'[q][i].fake] # None
    <3>1. /\ stage[q] = "persist" /\ redactions'[q] = redactions[q]
          /\ i \in DOMAIN redactions[q] /\ q \in Caller
      BY <1>1, <2>4, RequestsCall
    <3>2. redactions[q][i].fake \in Fake
      BY <1>0, <3>1, RedactionIsPair
    <3>3. CASE pc[q] = "idle"
      <4>1. fwd[redactions[q][i].fake] # None
        BY <1>0, <1>8, <2>1, <3>1, <3>3 DEF PersistInv
      <4>. QED  BY <2>2, <3>1, <3>2, <4>1
    <3>4. CASE pc[q] = "db"
      <4>1. batch[q] = redactions[q]
        BY <1>0, <3>4 DEF PersistInv, Recording
      <4>2. ~overlap[q]
        BY <1>0, <2>1, <3>1 DEF IInv, FreshInv
      <4>3. fwd[redactions[q][i].fake] # None
        BY <1>0, <3>1, <3>4, <4>1, <4>2 DEF IInv, VisibleInv
      <4>. QED  BY <2>2, <3>1, <3>2, <4>3
    <3>. QED  BY <1>5, <1>8, <2>4, <3>3, <3>4
  <2>. QED  BY <2>3, <2>4
<1>9. PersistInv'
  BY <1>6, <1>7, <1>8 DEF PersistInv
<1>. QED  BY <1>0, <1>2, <1>4, <1>9 DEF GInv

LEMMA GInvStep == GInv /\ [GatewayNext]_gvars => GInv'
<1> SUFFICES ASSUME GInv, [GatewayNext]_gvars PROVE GInv'
  OBVIOUS
<1>1. IInv'
  BY DictionaryStep, InvStep DEF GInv
<1>2. CASE UNCHANGED gvars
  BY <1>1, <1>2 DEF gvars, flight, vars, GInv, GatewayTypeOK, IdleInv, DedupInv, PersistInv
<1>3. CASE GatewayNext
  BY <1>1, <1>3, DictionaryKeeps, DownKeeps, ReceiveKeeps, ReplaceKeeps, PersistKeeps,
     ForwardKeeps, AnswerKeeps, FinishKeeps DEF GatewayNext
<1>. QED  BY <1>2, <1>3

\* The inductive invariant holds in every reachable state.
LEMMA GatewayInvariance == GatewaySpec => []GInv
  BY GInvInit, GInvStep, PTL DEF GatewaySpec

-----------------------------------------------------------------------------
(***************************************************************************)
(* What follows from it                                                    *)
(***************************************************************************)

\* Every reachable state of the handlers is well typed.
THEOREM GatewayTypeCorrect == GatewaySpec => []GatewayTypeOK
  BY GatewayInvariance, PTL DEF GInv

\* A secret that occurs twice in one body has one fake there, although REVERSE
\* may change between the two look-ups.
THEOREM BodyHasOneFake == GatewaySpec => []OneFakePerBody
<1>1. GInv => OneFakePerBody
  BY RedactionIsPair DEF GInv, DedupInv, OneFakePerBody
<1>. QED  BY <1>1, GatewayInvariance, PTL

\* Whatever the upstream has seen before the first reset is bound in MAP, and
\* bound to its own original when no two originals share a fake.
THEOREM ForwardedIsRestorable == GatewaySpec => []ForwardedIsKnown
<1>1. GInv => ForwardedIsKnown
  <2> SUFFICES ASSUME GInv, dict = "open", resets = 0, NEW p \in forwarded
               PROVE  /\ fwd[p.fake] # None
                      /\ UniqueFakes => fwd[p.fake] = p.original
    BY DEF ForwardedIsKnown
  <2>1. p \in Pair /\ p.fake \in Fake
    BY DictionaryAssumption DEF GInv, GatewayTypeOK
  <2>2. fwd[p.fake] # None
    BY DEF GInv, PersistInv
  <2>3. [fake |-> p.fake, original |-> fwd[p.fake]] \in Pair
    BY <2>1, <2>2 DEF GInv, IInv, SoundInv
  <2>. QED  BY <2>1, <2>2, <2>3 DEF UniqueFakes
<1>. QED  BY <1>1, GatewayInvariance, PTL

-----------------------------------------------------------------------------
(***************************************************************************)
(* What a reply shows.  Substituted is a fold over a list whose order is a *)
(* HashMap's; it is first evaluated for every list in which the result of  *)
(* a substitution is never substituted again.                              *)
(***************************************************************************)

\* What the fold of Substituted returns for each set of indices, if it is f on
\* the smaller ones.
TokenFold(x, pairs, f) ==
  [S \in SUBSET DOMAIN pairs |->
     IF S = {} THEN x
     ELSE IF f[S \ {Max(S)}] = pairs[Max(S)].fake THEN pairs[Max(S)].original
     ELSE f[S \ {Max(S)}]]

LEMMA SubstitutedFolds ==
  ASSUME NEW x, NEW pairs
  PROVE  Substituted(x, pairs) = (CHOOSE f : f = TokenFold(x, pairs, f))[DOMAIN pairs]
  BY Zenon DEF Substituted, FoldLeft, MapThenFoldSet, TokenFold

\* A token that some pair replaces becomes y, whatever the order of the pairs,
\* when y is what they replace it by and no pair replaces y.
LEMMA SubstitutedIs ==
  ASSUME NEW P, NEW pairs \in Seq(P), NEW x, NEW y,
         \A i \in DOMAIN pairs : pairs[i].fake # y,
         \A i \in DOMAIN pairs : pairs[i].fake = x => pairs[i].original = y
  PROVE  Substituted(x, pairs) = IF \E i \in DOMAIN pairs : pairs[i].fake = x THEN y ELSE x
<1> DEFINE n       == Len(pairs)
           D       == 1..n
           Hits(S) == \E i \in S : pairs[i].fake = x
           cand    == [S \in SUBSET D |-> IF Hits(S) THEN y ELSE x]
           turn(v, m) == IF v = pairs[m].fake THEN pairs[m].original ELSE v
           B(f)    == [S \in SUBSET D |-> IF S = {} THEN x ELSE turn(f[S \ {Max(S)}], Max(S))]
<1>1. n \in Nat /\ DOMAIN pairs = D
  OBVIOUS
<1>2. ASSUME NEW S \in SUBSET D, S # {}
      PROVE  Max(S) \in S /\ (\A j \in S : Max(S) >= j) /\ S \ {Max(S)} \in SUBSET D
  <2> HIDE DEF cand
  <2>. QED  BY <1>1, <1>2, GreatestIs
<1>3. \A S \in SUBSET D : cand[S] = IF Hits(S) THEN y ELSE x
  OBVIOUS
<1>4. ASSUME NEW S \in SUBSET D, S # {}
      PROVE  turn(cand[S \ {Max(S)}], Max(S)) = cand[S]
  <2> DEFINE m == Max(S)
             T == S \ {m}
  <2>1. m \in S /\ m \in D /\ T \in SUBSET D
    BY <1>2, <1>4
  <2>2. Hits(S) <=> Hits(T) \/ pairs[m].fake = x
    BY <2>1
  <2>3. pairs[m].fake # y /\ (pairs[m].fake = x => pairs[m].original = y)
    BY <1>1, <2>1
  <2> HIDE DEF m, Hits, cand
  <2>4. /\ cand[T] = (IF Hits(T) THEN y ELSE x)
        /\ cand[S] = (IF Hits(S) THEN y ELSE x)
    BY <1>3, <2>1
  <2> HIDE DEF T
  <2>5. turn(cand[T], m) = cand[S]
    BY <2>2, <2>3, <2>4
  <2>. QED  BY <2>5 DEF m, T
<1>5. cand = B(cand)
  <2>1. cand[{}] = x
    BY <1>3
  <2>2. cand = [S \in SUBSET D |-> cand[S]]
    OBVIOUS
  <2> HIDE DEF cand, turn, D
  <2>. QED  BY <1>4, <2>1, <2>2
<1>6. ASSUME NEW f, f = B(f)
      PROVE  f = cand
  <2>1. /\ f = [S \in SUBSET D |-> f[S]]
        /\ \A S \in SUBSET D : f[S] = IF S = {} THEN x ELSE turn(f[S \ {Max(S)}], Max(S))
    <3> DEFINE b(S) == IF S = {} THEN x ELSE turn(f[S \ {Max(S)}], Max(S))
    <3>1. f = [S \in SUBSET D |-> b(S)]
      BY <1>6, Zenon
    <3> HIDE DEF b
    <3>2. /\ f = [S \in SUBSET D |-> f[S]]
          /\ \A S \in SUBSET D : f[S] = b(S)
      BY <3>1
    <3>. QED  BY <3>2 DEF b
  <2> DEFINE Agree(k) == \A S \in SUBSET (1..k) : S \in SUBSET D => f[S] = cand[S]
             Bad      == {k \in Nat : ~Agree(k)}
  <2>2. Bad = {}
    <3>1. SUFFICES ASSUME Bad # {}
                   PROVE  FALSE
      OBVIOUS
    <3>2. PICK k \in Bad : \A j \in Bad : k <= j
      <4>1. Bad \in SUBSET Nat
        OBVIOUS
      <4> HIDE DEF Bad
      <4>. QED  BY <3>1, <4>1, LeastNumber, Zenon
    <3>3. k \in Nat /\ ~Agree(k)
      OBVIOUS
    <3>4. PICK S \in SUBSET (1..k) : S \in SUBSET D /\ f[S] # cand[S]
      BY <3>3
    <3> HIDE DEF B, turn
    <3>5. S # {}
      BY <1>3, <2>1, <3>4
    <3> HIDE DEF cand
    <3>6. k - 1 \in Nat /\ ~(k <= k - 1)
      <4>1. PICK z \in S : TRUE
        BY <3>5
      <4>2. z \in 1..k /\ k \in Nat
        BY <3>3, <4>1
      <4> HIDE DEF Bad
      <4>. QED  BY <4>2
    <3>7. Agree(k - 1)
      <4>1. k - 1 \notin Bad
        <5> HIDE DEF Bad
        <5>. QED  BY <3>2, <3>6
      <4> HIDE DEF Agree
      <4>. QED  BY <3>6, <4>1 DEF Bad
    <3>8. S \ {Max(S)} \in SUBSET (1..k - 1)
      <4>1. Max(S) \in S /\ \A j \in S : Max(S) >= j
        <5> HIDE DEF D
        <5>. QED  BY <1>2, <3>4, <3>5
      <4> DEFINE m == Max(S)
      <4>2. m \in S /\ \A j \in S : m >= j
        BY <4>1
      <4> HIDE DEF m
      <4>3. S \ {m} \in SUBSET (1..k - 1)
        BY <3>3, <3>4, <4>2
      <4>. QED  BY <4>3 DEF m
    <3>9. f[S \ {Max(S)}] = cand[S \ {Max(S)}]
      BY <3>4, <3>7, <3>8
    <3> HIDE DEF D
    <3>. QED  BY <1>4, <2>1, <3>4, <3>5, <3>9
  <2>3. \A S \in SUBSET D : f[S] = cand[S]
    <3>1. Agree(n)
      <4> HIDE DEF Agree
      <4>. QED  BY <1>1, <2>2
    <3>. QED  BY <3>1
  <2>4. cand = [S \in SUBSET D |-> cand[S]]
    OBVIOUS
  <2> HIDE DEF cand, D
  <2>. QED  BY <2>1, <2>3, <2>4, Zenon
<1>7. (CHOOSE f : f = B(f)) = cand
  <2> HIDE DEF B, cand
  <2>. QED  BY <1>5, <1>6, Zenon
<1>8. ASSUME NEW f PROVE TokenFold(x, pairs, f) = B(f)
  BY <1>1, Zenon DEF TokenFold
<1>9. Substituted(x, pairs) = cand[D]
  <2>1. (CHOOSE f : f = TokenFold(x, pairs, f)) = (CHOOSE f : f = B(f))
    <3> HIDE DEF B
    <3>. QED  BY <1>8, Zenon
  <2> HIDE DEF B, cand, D
  <2>. QED  BY <1>1, <1>7, <2>1, SubstitutedFolds
<1>10. cand[D] = IF Hits(D) THEN y ELSE x
  BY <1>3
<1>. QED  BY <1>1, <1>9, <1>10

\* Nor does the order matter in which the entries of a map are applied.
LEMMA HashedIs ==
  ASSUME NEW x, NEW y, NEW m, NEW D, IsFiniteSet(D), y \notin D, x \in D => m[x] = y
  PROVE  Hashed(x, m, D) = {IF x \in D THEN y ELSE x}
<1> DEFINE E == {[fake |-> f, original |-> m[f]] : f \in D}
<1>1. IsFiniteSet(E)
  <2> DEFINE e == [f \in D |-> [fake |-> f, original |-> m[f]]]
  <2>1. e \in Surjection(D, E)
    BY DEF Surjection
  <2> HIDE DEF e, E
  <2>. QED  BY <2>1, FS_Surjection
<1>2. (\A q \in SetToSeqs(E) : q \in Seq(E) /\ ToSet(q) = E) /\ SetToSeq(E) \in SetToSeqs(E)
  <2> HIDE DEF E
  <2>. QED  BY <1>1, SequencesOfSet
<1>3. ASSUME NEW q \in SetToSeqs(E)
      PROVE  Substituted(x, q) = IF x \in D THEN y ELSE x
  <2>1. q \in Seq(E) /\ ToSet(q) = E
    <3> HIDE DEF E
    <3>. QED  BY <1>2
  <2>2. \A i \in DOMAIN q : q[i] \in E
    <3> HIDE DEF E
    <3>. QED  BY <2>1
  <2>3. \A i \in DOMAIN q : q[i].fake \in D /\ q[i].original = m[q[i].fake]
    BY <2>2
  <2>4. \A f \in D : \E i \in DOMAIN q : q[i].fake = f
    <3> SUFFICES ASSUME NEW f \in D PROVE \E i \in DOMAIN q : q[i].fake = f
      OBVIOUS
    <3>1. [fake |-> f, original |-> m[f]] \in E
      OBVIOUS
    <3>2. PICK i \in DOMAIN q : q[i] = [fake |-> f, original |-> m[f]]
      <4> HIDE DEF E
      <4>. QED  BY <2>1, <3>1 DEF ToSet
    <3>. QED  BY <3>2
  <2> HIDE DEF E
  <2>5. /\ \A i \in DOMAIN q : q[i].fake # y
        /\ \A i \in DOMAIN q : q[i].fake = x => q[i].original = y
    BY <2>3
  <2>6. Substituted(x, q) = IF \E i \in DOMAIN q : q[i].fake = x THEN y ELSE x
    BY <2>1, <2>5, SubstitutedIs
  <2>. QED  BY <2>3, <2>4, <2>6
<1>4. Hashed(x, m, D) = {Substituted(x, q) : q \in SetToSeqs(E)}
  BY DEF Hashed
<1> HIDE DEF E
<1>. QED  BY <1>2, <1>3, <1>4

\* The fakes a map answers for.
BoundIn(m) == {f \in Fake : m[f] # None}

LEMMA FiniteImage ==
  ASSUME NEW n \in Nat, NEW g, DOMAIN g = 1..n
  PROVE  IsFiniteSet({g[i] : i \in DOMAIN g})
<1> DEFINE T == {g[i] : i \in DOMAIN g}
           h == [i \in 1..n |-> g[i]]
<1>1. IsFiniteSet(1..n)
  BY FS_Interval
<1>2. h \in Surjection(1..n, T)
  BY DEF Surjection
<1>. QED  BY <1>1, <1>2, FS_Surjection

LEMMA FiniteFakes ==
  ASSUME NEW P, NEW b \in Seq(P)
  PROVE  IsFiniteSet({b[i].fake : i \in DOMAIN b})
<1> DEFINE g == [i \in 1..Len(b) |-> b[i].fake]
<1>1. Len(b) \in Nat /\ DOMAIN b = 1..Len(b)
  OBVIOUS
<1>2. IsFiniteSet({g[i] : i \in DOMAIN g})
  <2>1. DOMAIN g = 1..Len(b)
    OBVIOUS
  <2> HIDE DEF g
  <2>. QED  BY <1>1, <2>1, FiniteImage
<1>3. {g[i] : i \in DOMAIN g} = {b[i].fake : i \in DOMAIN b}
  BY <1>1
<1>. QED  BY <1>2, <1>3

\* A store that gains the fakes of one list of redactions stays finite.
LEMMA FinitelyMore ==
  ASSUME NEW P, NEW b \in Seq(P), NEW m, NEW n, IsFiniteSet(BoundIn(m)),
         \A f \in Fake : n[f] # m[f] => \E i \in DOMAIN b : b[i].fake = f
  PROVE  IsFiniteSet(BoundIn(n))
<1>1. BoundIn(n) \in SUBSET (BoundIn(m) \cup {b[i].fake : i \in DOMAIN b})
  BY DEF BoundIn
<1>2. IsFiniteSet(BoundIn(m) \cup {b[i].fake : i \in DOMAIN b})
  BY FiniteFakes, FS_Union
<1>. QED  BY <1>1, <1>2, FS_Subset

\* The stores hold finitely many bindings, and a snapshot is one of MAP's states.
ReplyInv ==
  /\ IsFiniteSet(BoundIn(fwd)) /\ IsFiniteSet(BoundIn(rows))
  /\ \A r \in Request :
       /\ IsFiniteSet(BoundIn(snap[r]))
       /\ \A f \in Fake : snap[r][f] # None => [fake |-> f, original |-> snap[r][f]] \in Pair

LEMMA ReplyInit == GatewayInit => ReplyInv
<1> SUFFICES ASSUME GatewayInit PROVE ReplyInv
  OBVIOUS
<1>1. BoundIn(fwd) = {} /\ BoundIn(rows) = {} /\ \A r \in Request : BoundIn(snap[r]) = {}
  BY DEF GatewayInit, Init, BoundIn, NoFwd, NoRows
<1>2. \A r \in Request, f \in Fake : snap[r][f] = None
  BY DEF GatewayInit, NoFwd
<1>. QED  BY <1>1, <1>2, FS_EmptySet DEF ReplyInv

LEMMA StoresStayFinite ==
  ASSUME GInv, ReplyInv, [Next]_vars
  PROVE  IsFiniteSet(BoundIn(fwd)') /\ IsFiniteSet(BoundIn(rows)')
<1>0. TypeOK /\ IsFiniteSet(BoundIn(fwd)) /\ IsFiniteSet(BoundIn(rows)) /\ IsFiniteSet({})
  BY FS_EmptySet DEF GInv, IInv, ReplyInv
<1>1. CASE Open
  <2>1. BoundIn(fwd)' \in SUBSET BoundIn(rows) /\ BoundIn(rows)' = BoundIn(rows)
    BY <1>1 DEF Open, BoundIn
  <2>. QED  BY <1>0, <2>1, FS_Subset
<1>2. CASE Crash
  <2>1. BoundIn(fwd)' = {} /\ BoundIn(rows)' = BoundIn(rows)
    BY <1>2 DEF Crash, BoundIn, NoFwd
  <2>. QED  BY <1>0, <2>1
<1>3. ASSUME NEW c \in Caller, RecordMap(c)
      PROVE  IsFiniteSet(BoundIn(fwd)') /\ IsFiniteSet(BoundIn(rows)')
  <2>1. fwd' = OrInsert(fwd, batch[c], "fake", "original") /\ rows' = rows
    BY <1>3 DEF RecordMap
  <2>2. batch[c] \in Seq(Pair) /\ DOMAIN fwd = Fake
    BY <1>0, BatchIsSeq DEF TypeOK
  <2>3. \A f \in Fake : fwd'[f] # fwd[f] => \E i \in DOMAIN batch[c] : batch[c][i].fake = f
    BY <2>1, <2>2 DEF OrInsert, Matches
  <2>4. IsFiniteSet(BoundIn(fwd'))
    BY <1>0, <2>2, <2>3, FinitelyMore
  <2>. QED  BY <1>0, <2>1, <2>4 DEF BoundIn
<1>4. ASSUME NEW c \in Caller, RecordDb(c)
      PROVE  IsFiniteSet(BoundIn(fwd)') /\ IsFiniteSet(BoundIn(rows)')
  <2>1. PICK saved \in SUBSET DOMAIN batch[c] : rows' = Inserted(batch[c], saved, stamp[c])
    BY <1>4 DEF RecordDb
  <2>2. batch[c] \in Seq(Pair) /\ fwd' = fwd
    BY <1>0, <1>4, BatchIsSeq DEF RecordDb, maps
  <2>3. \A f \in Fake : rows'[f] # rows[f] => \E i \in DOMAIN batch[c] : batch[c][i].fake = f
    BY <2>1 DEF Inserted, Matches
  <2>4. IsFiniteSet(BoundIn(rows'))
    BY <1>0, <2>2, <2>3, FinitelyMore
  <2>. QED  BY <1>0, <2>2, <2>4 DEF BoundIn
<1>5. ASSUME NEW c \in Caller, ResetAll(c) \/ ClearMap(c)
      PROVE  IsFiniteSet(BoundIn(fwd)') /\ IsFiniteSet(BoundIn(rows)')
  <2>1. /\ BoundIn(fwd)' = {} \/ BoundIn(fwd)' = BoundIn(fwd)
        /\ BoundIn(rows)' = {} \/ BoundIn(rows)' = BoundIn(rows)
    BY <1>5 DEF ResetAll, ClearMap, BoundIn, NoFwd, NoRows, maps
  <2>. QED  BY <1>0, <2>1
<1>6. CASE fwd' = fwd /\ rows' = rows
  BY <1>0, <1>6 DEF BoundIn
<1>7. ASSUME NEW c \in Caller,
             \/ OpenFails \/ Tick \/ RecordRev(c) \/ ClearRev(c)
             \/ \E b \in Batch : RecordBatch(c, b)
      PROVE  fwd' = fwd /\ rows' = rows
  BY <1>7 DEF OpenFails, Tick, RecordRev, ClearRev, RecordBatch, maps
<1>8. CASE OpenFails \/ Tick \/ UNCHANGED vars
  BY <1>6, <1>8 DEF OpenFails, Tick, vars, maps
<1>. QED
  BY <1>1, <1>2, <1>3, <1>4, <1>5, <1>6, <1>7, <1>8, RequestsCall DEF Next

LEMMA ReplyStep == GInv /\ ReplyInv /\ [GatewayNext]_gvars => ReplyInv'
<1> SUFFICES ASSUME GInv, ReplyInv, [GatewayNext]_gvars PROVE ReplyInv'
  OBVIOUS
<1>0. TypeOK /\ SoundInv /\ GatewayTypeOK
  BY DEF GInv, IInv
<1>1. IsFiniteSet(BoundIn(fwd)') /\ IsFiniteSet(BoundIn(rows)')
  BY DictionaryStep, StoresStayFinite
<1>2. ASSUME NEW r \in Request
      PROVE  snap'[r] \in {snap[r], fwd, NoFwd}
  <2>1. ASSUME NEW q \in Request, Answer(q) \/ Finish(q)
        PROVE  snap'[r] \in {snap[r], fwd, NoFwd}
    BY <1>0, <2>1 DEF Answer, Finish, GatewayTypeOK
  <2>2. CASE Down
    BY <2>2 DEF Down
  <2>3. ASSUME NEW q \in Request,
               Replace(q) \/ Persist(q) \/ Forward(q) \/ \E b \in Body : Receive(q, b)
        PROVE  snap' = snap
    BY <2>3 DEF Replace, Persist, Forward, Receive
  <2>4. CASE InDictionary \/ UNCHANGED gvars
    BY <2>4 DEF InDictionary, gvars, flight
  <2>. QED  BY <2>1, <2>2, <2>3, <2>4 DEF GatewayNext
<1>3. ASSUME NEW r \in Request
      PROVE  /\ IsFiniteSet(BoundIn(snap'[r]))
             /\ \A f \in Fake : snap'[r][f] # None =>
                                  [fake |-> f, original |-> snap'[r][f]] \in Pair
  <2>1. CASE snap'[r] = snap[r]
    BY <2>1 DEF ReplyInv
  <2>2. CASE snap'[r] = fwd
    BY <1>0, <2>2 DEF ReplyInv, SoundInv
  <2>3. CASE snap'[r] = NoFwd
    <3>1. BoundIn(snap'[r]) = {} /\ \A f \in Fake : snap'[r][f] = None
      BY <2>3 DEF BoundIn, NoFwd
    <3>. QED  BY <3>1, FS_EmptySet
  <2>. QED  BY <1>2, <2>1, <2>2, <2>3
<1>. QED  BY <1>1, <1>3 DEF ReplyInv, BoundIn

LEMMA ReplyInvariance == GatewaySpec => []ReplyInv
  BY ReplyInit, ReplyStep, GatewayInvariance, PTL DEF GatewaySpec

\* Every fake that is a redaction of the request or is in its snapshot is
\* restored, on both paths.
Restores ==
  CleanDraws =>
    \A r \in Request, p \in Pair :
      p.fake \in InFlightFakes(r) \/ snap[r][p.fake] # None => Results(r, p.fake) = {p.original}

LEMMA InvRestores == GInv /\ ReplyInv => Restores
<1> SUFFICES ASSUME GInv, ReplyInv, CleanDraws, NEW r \in Request, NEW p \in Pair,
                    p.fake \in InFlightFakes(r) \/ snap[r][p.fake] # None
             PROVE  Results(r, p.fake) = {p.original}
  BY DEF Restores
<1> DEFINE x == p.fake
           o == p.original
           R == redactions[r]
<1>0. x \in Fake /\ o \in Original /\ o \notin Fake /\ R \in Seq(Pair)
  BY DictionaryAssumption DEF CleanDraws, GInv, GatewayTypeOK
<1>1. ASSUME NEW i \in DOMAIN R
      PROVE  R[i].fake \in Fake /\ R[i].original \in Original /\ (R[i].fake = x => R[i].original = o)
  BY <1>0, DictionaryAssumption DEF CleanDraws, UniqueFakes
<1>2. snap[r][x] # None => snap[r][x] = o
  BY <1>0 DEF ReplyInv, CleanDraws, UniqueFakes
<1>3. IsFiniteSet(BoundIn(snap[r])) /\ IsFiniteSet(InFlightFakes(r))
  BY <1>0, FiniteFakes DEF ReplyInv, InFlightFakes
<1>4. BufferedResults(r, x) = {o}
  <2> DEFINE y == Substituted(x, R)
             D == BoundIn(snap[r]) \ InFlightFakes(r)
  <2>1. y = IF x \in InFlightFakes(r) THEN o ELSE x
    <3>1. /\ \A i \in DOMAIN R : R[i].fake # o
          /\ \A i \in DOMAIN R : R[i].fake = x => R[i].original = o
      BY <1>0, <1>1
    <3>2. x \in InFlightFakes(r) <=> \E i \in DOMAIN R : R[i].fake = x
      BY DEF InFlightFakes
    <3> HIDE DEF x, o, R
    <3>3. y = IF \E i \in DOMAIN R : R[i].fake = x THEN o ELSE x
      BY <1>0, <3>1, SubstitutedIs
    <3> HIDE DEF y
    <3>. QED  BY <3>2, <3>3
  <2>2. IsFiniteSet(D)
    BY <1>3, FS_Subset
  <2>3. o \notin D /\ D \subseteq Fake
    BY <1>0 DEF BoundIn
  <2>4. x \notin InFlightFakes(r) => x \in D
    BY <1>0 DEF BoundIn
  <2>5. y \in D => snap[r][y] = o
    BY <1>2, <2>1, <2>3 DEF BoundIn
  <2>6. BufferedResults(r, x) = Hashed(y, snap[r], D)
    BY Zenon DEF BufferedResults, BoundIn
  <2> HIDE DEF y, D, x, o
  <2>7. Hashed(y, snap[r], D) = {IF y \in D THEN o ELSE y}
    BY <2>2, <2>3, <2>5, HashedIs
  <2>. QED  BY <2>1, <2>3, <2>4, <2>6, <2>7
<1>5. StreamResults(r, x) = {o}
  <2> DEFINE M == StreamMap(r)
             D == {f \in Fake : StreamMap(r)[f] # None}
  <2>1. M[x] = o
    <3>1. CASE x \in InFlightFakes(r)
      <4> DEFINE S == {i \in DOMAIN R : R[i].fake = x}
      <4>1. Len(R) \in Nat /\ S \in SUBSET (1..Len(R)) /\ S # {}
        BY <1>0, <3>1 DEF InFlightFakes
      <4>2. Max(S) \in S
        <5> HIDE DEF S
        <5>. QED  BY <4>1, GreatestIs
      <4>3. R[Max(S)].original = o
        BY <1>1, <4>2
      <4>4. M[x] = R[Max(S)].original
        BY <1>0, <3>1 DEF StreamMap
      <4>. QED  BY <4>3, <4>4
    <3>2. CASE x \notin InFlightFakes(r)
      BY <1>0, <1>2, <3>2 DEF StreamMap
    <3>. QED  BY <3>1, <3>2
  <2>2. D \in SUBSET (BoundIn(snap[r]) \cup InFlightFakes(r))
    BY DEF StreamMap, BoundIn
  <2>3. IsFiniteSet(D)
    BY <1>3, <2>2, FS_Union, FS_Subset
  <2>4. o \notin D /\ x \in D
    BY <1>0, <2>1, DictionaryAssumption
  <2>5. StreamResults(r, x) = Hashed(x, M, D)
    BY Zenon DEF StreamResults
  <2> HIDE DEF x, o, D, M
  <2>6. Hashed(x, M, D) = {IF x \in D THEN o ELSE x}
    BY <2>1, <2>3, <2>4, HashedIs
  <2>. QED  BY <2>4, <2>5, <2>6
<1>. QED  BY <1>4, <1>5 DEF Results

\* A reply that echoes a fake of its own request shows the original, on the
\* buffered and on the streaming path, whatever the dictionary went through
\* meanwhile and in whatever order a HashMap gives its entries.
THEOREM EchoedFakesAreRestored == GatewaySpec => []OwnFakesRestored
<1>1. Restores /\ GatewayTypeOK => OwnFakesRestored
  <2> SUFFICES ASSUME Restores, GatewayTypeOK, CleanDraws,
                      NEW r \in Request, NEW i \in DOMAIN redactions[r]
               PROVE  Results(r, redactions[r][i].fake) = {redactions[r][i].original}
    BY DEF OwnFakesRestored
  <2>1. redactions[r][i] \in Pair /\ redactions[r][i].fake \in InFlightFakes(r)
    BY RedactionIsPair DEF InFlightFakes
  <2>. QED  BY <2>1 DEF Restores
<1>. QED  BY <1>1, InvRestores, GatewayInvariance, ReplyInvariance, PTL DEF GInv

\* When a response arrives while the dictionary is open, whatever recording is
\* still owed is restored in it: fakes of other requests and of earlier
\* sessions as well.
THEOREM EarlierFakesAreRestored == GatewaySpec => OldFakesRestored
<1> DEFINE Restoring ==
             CleanDraws /\ dict = "open" =>
               \A r \in Request : stage[r] = "upstream" /\ stage'[r] = "reply" =>
                 \A p \in owed : Results(r, p.fake)' = {p.original}
<1>1. GInv /\ Restores' /\ [GatewayNext]_gvars => [Restoring]_gvars
  <2> SUFFICES ASSUME GInv, Restores', [GatewayNext]_gvars, CleanDraws, dict = "open",
                      NEW r \in Request, stage[r] = "upstream", stage'[r] = "reply",
                      NEW p \in owed
               PROVE  Results(r, p.fake)' = {p.original}
    OBVIOUS
  <2>1. Answer(r)
    <3>0. GatewayTypeOK
      BY DEF GInv
    <3>1. ASSUME NEW q \in Request,
                 \/ Replace(q) \/ Persist(q) \/ Forward(q) \/ Finish(q)
                 \/ \E b \in Body : Receive(q, b)
          PROVE  FALSE
      BY <3>0, <3>1 DEF GatewayTypeOK, Replace, Persist, Forward, Finish, Receive
    <3>2. CASE InDictionary \/ Down \/ UNCHANGED gvars
      BY <3>2 DEF InDictionary, Down, gvars, flight
    <3>3. ASSUME NEW q \in Request, Answer(q)
          PROVE  q = r
      BY <3>0, <3>3 DEF GatewayTypeOK, Answer
    <3>. QED  BY <3>1, <3>2, <3>3 DEF GatewayNext
  <2>2. p \in Pair /\ p.fake \in Fake /\ fwd[p.fake] # None
    BY DictionaryAssumption DEF GInv, IInv, TypeOK, CompletedIsDurable
  <2>3. snap'[r][p.fake] # None
    BY <2>1, <2>2 DEF Answer, GInv, GatewayTypeOK
  <2>. QED  BY <2>2, <2>3 DEF Restores, CleanDraws, UniqueFakes
<1>. QED
  BY <1>1, InvRestores, GatewayInvariance, ReplyInvariance, PTL DEF GatewaySpec, OldFakesRestored

=============================================================================
