------------------------------ MODULE Gateway ------------------------------
(***************************************************************************)
(* A request and its response on their way through the proxy: the handlers *)
(* of src/src/hudsucker.rs, the anonymizer of src/src/replacement/mod.rs   *)
(* and the two deanonymizers (content_router for buffered bodies,          *)
(* streaming_deanon for event streams), on top of Dictionary.              *)
(*                                                                         *)
(* hudsucker clones the handler for each request, so a Request is one      *)
(* clone: its pending_redactions is private, the dictionary is shared.     *)
(* Each look-up, each update of the dictionary and each hand-over of a     *)
(* body is a step, and the steps of requests, resets and crashes           *)
(* interleave.                                                             *)
(*                                                                         *)
(* A body is the list of the secrets detection reports in it, in the order *)
(* the replacement visits them; a reply is a token the model emits.        *)
(* Occurrences of fakes are independent tokens here: no fake is a          *)
(* substring of another.                                                   *)
(***************************************************************************)
EXTENDS Dictionary, SequencesExt

CONSTANTS
  Request,     \* clones of the handler
  Gen,         \* Gen[o]: the fakes replacers::generate can draw for o
  Body         \* the bodies clients send: [route, secrets]

\* A body is "whole" (JSON, plain text: one dedup map for all of it), "fields"
\* (form values, multipart parts, event frames: a dedup map for each) or
\* "opaque" (signed, undecodable or binary: forwarded as it is).
Route == {"whole", "fields", "opaque"}

ASSUME GatewayAssumption ==
  /\ Caller = Request \cup Resetter
  /\ Request \cap Resetter = {}
  /\ Gen \in [Original -> (SUBSET Fake) \ {{}}]
  /\ Pair = {p \in [fake : Fake, original : Original] : p.fake \in Gen[p.original]}
  /\ \A b \in Body : /\ b.route \in Route /\ b.secrets \in Seq(Original)
                     /\ b.route = "opaque" <=> b.secrets = << >>
                     /\ b.secrets # << >> => [1..Len(b.secrets) -> Pair] \subseteq Batch

VARIABLES
  stage,       \* where each request is
  route,       \* how its body is handled
  todo,        \* secrets of the body not yet replaced
  dedup,       \* apply_with_dedup's map
  redactions,  \* pending_redactions
  snap,        \* the dictionary pairs the response side works with
  mode,        \* how the response is restored: "buffered" or "stream"
  forwarded    \* history: redactions in bodies sent upstream by this process

flight == <<stage, route, todo, dedup, redactions, snap, mode>>
gvars  == <<vars, flight, forwarded>>

Stage == {"idle", "scan", "persist", "upstream", "reply"}

GatewayTypeOK ==
  /\ stage \in [Request -> Stage]
  /\ route \in [Request -> Route]
  /\ todo \in [Request -> Seq(Original)]
  /\ redactions \in [Request -> Seq(Pair)]
  /\ dedup \in [Request -> [Original -> Fake \cup {None}]]
  /\ snap \in [Request -> [Fake -> Original \cup {None}]]
  /\ mode \in [Request -> {"buffered", "stream"}]
  /\ forwarded \subseteq Pair

GatewayInit ==
  /\ Init
  /\ stage = [r \in Request |-> "idle"]
  /\ route = [r \in Request |-> "opaque"]
  /\ todo = [r \in Request |-> << >>]
  /\ dedup = [r \in Request |-> NoRev]
  /\ redactions = [r \in Request |-> << >>]
  /\ snap = [r \in Request |-> NoFwd]
  /\ mode = [r \in Request |-> "buffered"]
  /\ forwarded = {}

-----------------------------------------------------------------------------
(***************************************************************************)
(* handle_request                                                          *)
(***************************************************************************)

\* The fakes a client can have come across: those of bodies sent upstream, and
\* those of earlier sessions.
Leaked == {p.fake : p \in forwarded} \cup {f \in Fake : rows[f] # None}

\* The body is collected and routed.  An opaque one goes straight upstream.
Receive(r, b) ==
  /\ dict # "down"
  /\ stage[r] = "idle"
  /\ b \in Body
  /\ \A i \in DOMAIN b.secrets : b.secrets[i] \in Fake => b.secrets[i] \in Leaked
  /\ stage' = [stage EXCEPT ![r] = IF b.route = "opaque" THEN "upstream" ELSE "scan"]
  /\ route' = [route EXCEPT ![r] = b.route]
  /\ todo' = [todo EXCEPT ![r] = b.secrets]
  /\ UNCHANGED <<vars, dedup, redactions, snap, mode, forwarded>>

\* Variant: the dictionary is asked before the dedup map.
PreferDictionary(r, o) ==
  IF rev[o] # None THEN {rev[o]}
  ELSE IF dedup[r][o] # None THEN {dedup[r][o]}
  ELSE Gen[o]

\* Variant: the dedup map has an entry for the body, not for the raw bytes.
OneEntryForAll(r, o) == IF redactions[r] # << >> THEN {redactions[r][1].fake} ELSE Gen[o]

\* The fake for o: from the dedup map, else the canonical one of the
\* dictionary, else a fresh draw.
Fakes(r, o) ==
  IF dedup[r][o] # None THEN {dedup[r][o]}
  ELSE IF rev[o] # None THEN {rev[o]}
  ELSE Gen[o]

\* One match is replaced.  lookup_by_original takes the lock of REVERSE for
\* this match only.  The next field starts with an empty dedup map.
Replace(r) ==
  /\ stage[r] = "scan"
  /\ todo[r] # << >>
  /\ \E f \in Fakes(r, Head(todo[r])) :
       /\ redactions' = [redactions EXCEPT ![r] =
                           Append(@, [fake |-> f, original |-> Head(todo[r])])]
       /\ dedup' = IF route[r] = "whole" THEN [dedup EXCEPT ![r][Head(todo[r])] = f]
                   ELSE dedup
  /\ todo' = [todo EXCEPT ![r] = Tail(@)]
  /\ UNCHANGED <<vars, stage, route, snap, mode, forwarded>>

\* The redactions are stashed in pending_redactions and recorded; record_batch
\* returns at once when the dictionary never opened.
Persist(r) ==
  /\ stage[r] = "scan"
  /\ todo[r] = << >>
  /\ IF dict = "open" THEN RecordBatch(r, redactions[r]) ELSE UNCHANGED vars
  /\ stage' = [stage EXCEPT ![r] = "persist"]
  /\ UNCHANGED <<route, todo, dedup, redactions, snap, mode, forwarded>>

\* Variant: the body leaves while record_batch is still running.
ForwardEarly(r) ==
  /\ stage[r] = "persist"
  /\ stage' = [stage EXCEPT ![r] = "upstream"]
  /\ forwarded' = forwarded \cup {redactions[r][i] : i \in DOMAIN redactions[r]}
  /\ UNCHANGED <<vars, route, todo, dedup, redactions, snap, mode>>

\* record_batch has returned; the rewritten body goes upstream.
Forward(r) ==
  /\ stage[r] = "persist"
  /\ pc[r] = "idle"
  /\ stage' = [stage EXCEPT ![r] = "upstream"]
  /\ forwarded' = forwarded \cup {redactions[r][i] : i \in DOMAIN redactions[r]}
  /\ UNCHANGED <<vars, route, todo, dedup, redactions, snap, mode>>

-----------------------------------------------------------------------------
(***************************************************************************)
(* handle_response                                                         *)
(***************************************************************************)

\* Variant: the dictionary is consulted only for requests without redactions.
AnswerWithoutDictionary(r) ==
  /\ stage[r] = "upstream"
  /\ snap' = [snap EXCEPT ![r] = IF redactions[r] = << >> THEN fwd ELSE NoFwd]
  /\ \E m \in {"buffered", "stream"} : mode' = [mode EXCEPT ![r] = m]
  /\ stage' = [stage EXCEPT ![r] = "reply"]
  /\ UNCHANGED <<vars, route, todo, dedup, redactions, forwarded>>

\* The response is there: its whole body when it is buffered, its head when it
\* is an event stream.  The handler takes a snapshot of MAP, once.
Answer(r) ==
  /\ stage[r] = "upstream"
  /\ snap' = [snap EXCEPT ![r] = fwd]
  /\ \E m \in {"buffered", "stream"} : mode' = [mode EXCEPT ![r] = m]
  /\ stage' = [stage EXCEPT ![r] = "reply"]
  /\ UNCHANGED <<vars, route, todo, dedup, redactions, forwarded>>

InFlightFakes(r) == {redactions[r][i].fake : i \in DOMAIN redactions[r]}

\* Substitute each pair of `pairs` in turn.
Substituted(x, pairs) ==
  FoldLeft(LAMBDA y, p : IF y = p.fake THEN p.original ELSE y, x, pairs)

\* What x can become when the entries of map m at fakes D are applied one after
\* the other in the order of a HashMap, which is any order.
Hashed(x, m, D) ==
  {Substituted(x, pairs) : pairs \in SetToSeqs({[fake |-> f, original |-> m[f]] : f \in D})}

\* deanonymize_body_with_dictionary: the redactions in order, then the entries
\* of the snapshot for other fakes.
BufferedResults(r, x) ==
  Hashed(Substituted(x, redactions[r]), snap[r],
         {f \in Fake : snap[r][f] # None} \ InFlightFakes(r))

\* StreamingDeanon::new: one map, in which the last redaction of a fake
\* overrides earlier ones and the snapshot.
StreamMap(r) ==
  [f \in Fake |->
     IF f \in InFlightFakes(r)
       THEN redactions[r][Max({i \in DOMAIN redactions[r] : redactions[r][i].fake = f})].original
       ELSE snap[r][f]]
StreamResults(r, x) ==
  Hashed(x, StreamMap(r), {f \in Fake : StreamMap(r)[f] # None})

\* Variant: only the snapshot is used.
ResultsFromSnapshot(r, x) == Hashed(x, snap[r], {f \in Fake : snap[r][f] # None})

\* What the client may see where the model wrote x.
Results(r, x) == IF mode[r] = "buffered" THEN BufferedResults(r, x) ELSE StreamResults(r, x)

\* The restored body has been sent; the clone is dropped.
Finish(r) ==
  /\ stage[r] = "reply"
  /\ stage' = [stage EXCEPT ![r] = "idle"]
  /\ route' = [route EXCEPT ![r] = "opaque"]
  /\ dedup' = [dedup EXCEPT ![r] = NoRev]
  /\ redactions' = [redactions EXCEPT ![r] = << >>]
  /\ snap' = [snap EXCEPT ![r] = NoFwd]
  /\ mode' = [mode EXCEPT ![r] = "buffered"]
  /\ UNCHANGED <<vars, todo, forwarded>>

-----------------------------------------------------------------------------
(***************************************************************************)
(* The rest of the dictionary's life, seen from here                       *)
(***************************************************************************)

\* The dictionary works on its own, for a request or for an administrator.
InDictionary ==
  /\ \/ Open \/ OpenFails \/ Tick
     \/ \E c \in Caller : Running(c)
     \/ \E c \in Resetter : ResetAll(c)
  /\ UNCHANGED <<flight, forwarded>>

\* The process goes away with everything in flight.
Down ==
  /\ Crash
  /\ stage' = [r \in Request |-> "idle"]
  /\ route' = [r \in Request |-> "opaque"]
  /\ todo' = [r \in Request |-> << >>]
  /\ dedup' = [r \in Request |-> NoRev]
  /\ redactions' = [r \in Request |-> << >>]
  /\ snap' = [r \in Request |-> NoFwd]
  /\ mode' = [r \in Request |-> "buffered"]
  /\ forwarded' = {}

-----------------------------------------------------------------------------

Handling(r) == Replace(r) \/ Persist(r) \/ Forward(r)

GatewayNext ==
  \/ InDictionary
  \/ Down
  \/ \E r \in Request, b \in Body : Receive(r, b)
  \/ \E r \in Request : Replace(r)
  \/ \E r \in Request : Persist(r)
  \/ \E r \in Request : Forward(r)
  \/ \E r \in Request : Answer(r)
  \/ \E r \in Request : Finish(r)

GatewaySpec == GatewayInit /\ [][GatewayNext]_gvars

\* The runtime schedules a handler until it has handed its request over, and a
\* thread inside the dictionary until it returns.  Clients and the upstream owe
\* nothing.
GatewayFairness ==
  /\ \A r \in Request : WF_gvars(Handling(r))
  /\ \A c \in Caller : WF_gvars(Running(c) /\ UNCHANGED <<flight, forwarded>>)

FairGatewaySpec == GatewaySpec /\ GatewayFairness

-----------------------------------------------------------------------------
(***************************************************************************)
(* Properties                                                              *)
(***************************************************************************)

\* No two originals share a fake, and no fake is itself a detected secret.
CleanDraws == UniqueFakes /\ Original \cap Fake = {}

\* replacement/mod.rs:139-141: "same original anywhere in the request becomes the
\* same fake everywhere", even though REVERSE changes between two look-ups of
\* one body, by other requests, resets and crashes.
OneFakePerBody ==
  \A r \in Request : route[r] = "whole" =>
    \A i, j \in DOMAIN redactions[r] :
      redactions[r][i].original = redactions[r][j].original =>
        redactions[r][i].fake = redactions[r][j].fake

\* A fake the upstream has seen is one the dictionary can already restore, for
\* this request and for any other: record_batch returned before the body left.
\* (A reset forgets it; a dictionary that never opened never knew it.)
ForwardedIsKnown ==
  dict = "open" /\ resets = 0 =>
    \A p \in forwarded :
      /\ fwd[p.fake] # None
      /\ UniqueFakes => fwd[p.fake] = p.original

\* A reply that echoes a fake of its own request shows the original, on both
\* paths, whatever happened to the dictionary in between.
OwnFakesRestored ==
  CleanDraws =>
    \A r \in Request : stage[r] = "reply" =>
      \A i \in DOMAIN redactions[r] :
        Results(r, redactions[r][i].fake) = {redactions[r][i].original}

\* dictionary.rs:15-19: a reply also restores the fakes of any earlier session,
\* as long as their recording is still owed when the response arrives and the
\* dictionary opened in this one.
OldFakesRestored ==
  [][CleanDraws /\ dict = "open" =>
       \A r \in Request : stage[r] = "upstream" /\ stage'[r] = "reply" =>
         \A p \in owed : Results(r, p.fake)' = {p.original}]_gvars

\* A request is never held back for ever: it reaches the upstream, or the
\* process goes away.
RequestsAreForwarded ==
  \A r \in Request : stage[r] = "scan" ~> stage[r] \in {"upstream", "idle"}

\* README:94 and dictionary.rs:51-52 say that a secret has one fake "forever, no
\* matter how many requests pass".
OneFakePerSecret ==
  dict = "open" => \A p, q \in forwarded : p.original = q.original => p.fake = q.fake

\* dictionary.rs:10-19: a fake that leaked into a file and came back through the
\* proxy does not reach the user again: no reply to a request shows a fake the
\* dictionary knows.
NoKnownFakeShown ==
  \A r \in Request : stage[r] = "reply" =>
    \A x \in InFlightFakes(r), y \in Fake : y \in Results(r, x) => snap[r][y] = None

=============================================================================
