-------------------------- MODULE StreamingDeanon --------------------------
(***************************************************************************)
(* The streaming body of src/src/streaming_deanon.rs: upstream frames go   *)
(* in, restored frames come out, with the last max_fake_len - 1 bytes held *)
(* back so that a fake split over frames is still seen whole.              *)
(*                                                                         *)
(* The body is a task that hyper polls when it has been woken.  poll_frame *)
(* either returns a frame, after which hyper polls again, or Pending,      *)
(* after which nothing happens until somebody calls the waker: the inner   *)
(* body when a frame arrives, or poll_frame itself.                        *)
(*                                                                         *)
(* The upstream sends text in events.  With Opening and Closing empty, the *)
(* body is the text; otherwise they stand for the event framing around     *)
(* each piece of text.                                                     *)
(***************************************************************************)
EXTENDS Substitution

CONSTANTS
  Byte,         \* what bodies, fakes and originals are made of
  Letter,       \* what the upstream writes texts with
  Opening,      \* framing before a piece of text
  Closing,      \* framing after it
  Setup,        \* the [inflight, dictionary] pairs a response can start from
  MaxText,      \* bound on the text of a reply
  MaxPiece,     \* longest piece of text in one event
  MaxQueued     \* frames the inner body holds before the upstream waits

RedactionRule == [fake : Seq(Byte), original : Seq(Byte)]

ASSUME StreamingAssumption ==
  /\ Letter \subseteq Byte /\ Opening \in Seq(Byte) /\ Closing \in Seq(Byte)
  /\ \A i \in DOMAIN Opening : Opening[i] \notin Letter
  /\ \A i \in DOMAIN Closing : Closing[i] \notin Letter
  /\ \A s \in Setup : /\ s.inflight \in Seq(RedactionRule)
                     /\ s.dictionary \subseteq RedactionRule /\ IsFiniteSet(s.dictionary)
                     /\ \A p, q \in s.dictionary : p.fake = q.fake => p = q
  /\ MaxText \in Nat /\ MaxPiece \in Nat \ {0} /\ MaxQueued \in Nat \ {0}

VARIABLES
  setup,        \* in-flight redactions and dictionary snapshot given to new
  mapping,      \* the entries of the HashMap, in its iteration order
  arrived,      \* frames of the inner body not polled yet
  closed,       \* the upstream has sent its last frame
  pending,      \* bytes held back
  inner_done,   \* the inner body has ended
  flushed,      \* the tail has been given out
  failed,       \* an error was passed on
  woken,        \* the task is scheduled to poll
  text,         \* history: the text the upstream has written
  received,     \* history: the bytes polled from the inner body
  out           \* history: the bytes given to the client

inner == <<arrived, closed, text>>
vars  == <<setup, mapping, arrived, closed, pending, inner_done, flushed, failed, woken,
           text, received, out>>

Piece == UNION {[1..n -> Letter] : n \in 1..MaxPiece}

TypeOK ==
  /\ setup \in Setup
  /\ \A i \in DOMAIN arrived : arrived[i].kind \in {"data", "trailers", "error", "end"}
  /\ closed \in BOOLEAN /\ inner_done \in BOOLEAN /\ flushed \in BOOLEAN
  /\ failed \in BOOLEAN /\ woken \in BOOLEAN
  /\ Len(text) <= MaxText
  /\ FakesIn(mapping) = FakesIn(setup.inflight) \cup {p.fake : p \in setup.dictionary}
  /\ pending # << >> => ~flushed

-----------------------------------------------------------------------------
(***************************************************************************)
(* StreamingDeanon::new                                                    *)
(***************************************************************************)

\* Variant: the snapshot overrides the in-flight redactions.
DictionaryWins(s) ==
  s.dictionary \cup {p \in ToSet(s.inflight) : p.fake \notin {q.fake : q \in s.dictionary}}

\* The dictionary goes in first, then the redactions in order: for one fake, the
\* last redaction wins.
Entries(s) ==
  {p \in s.dictionary : p.fake \notin FakesIn(s.inflight)}
  \cup {s.inflight[i] : i \in {j \in DOMAIN s.inflight :
          \A k \in DOMAIN s.inflight : s.inflight[k].fake = s.inflight[j].fake => k <= j}}

max_fake_len == Max({0} \cup {Len(f) : f \in FakesIn(mapping)})

Init ==
  /\ setup \in Setup
  /\ mapping \in SetToSeqs(Entries(setup))
  /\ arrived = << >> /\ closed = FALSE
  /\ pending = << >>
  /\ inner_done = FALSE /\ flushed = FALSE /\ failed = FALSE
  /\ woken = TRUE
  /\ text = << >> /\ received = << >> /\ out = << >>

-----------------------------------------------------------------------------
(***************************************************************************)
(* The upstream                                                            *)
(***************************************************************************)

Arrive(frame) ==
  /\ ~closed
  /\ Len(arrived) < MaxQueued
  /\ arrived' = Append(arrived, frame)
  /\ woken' = TRUE
  /\ UNCHANGED <<setup, mapping, pending, inner_done, flushed, failed, received, out>>

SendPiece(piece) ==
  /\ Len(text) + Len(piece) <= MaxText
  /\ Arrive([kind |-> "data", bytes |-> Opening \o piece \o Closing])
  /\ text' = text \o piece
  /\ UNCHANGED closed

\* Trailers, a broken connection or a regular end.
SendLast(kind) ==
  /\ Arrive([kind |-> kind, bytes |-> << >>])
  /\ closed' = (kind # "trailers")
  /\ text' = text

-----------------------------------------------------------------------------
(***************************************************************************)
(* poll_frame                                                              *)
(***************************************************************************)

\* The task is polled until it has failed or given out its tail.
Polling == woken /\ ~flushed /\ ~failed

\* The next frame of the inner body is of this kind.
PollKind(kind) ==
  /\ Polling
  /\ ~inner_done
  /\ arrived # << >>
  /\ Head(arrived).kind = kind
  /\ arrived' = Tail(arrived)

\* Variant: the held-back bytes are given out but not taken.
FlushWithoutTake ==
  /\ Polling
  /\ inner_done
  /\ flushed' = TRUE
  /\ out' = out \o AllReplaced(pending, mapping)
  /\ UNCHANGED <<setup, mapping, inner, pending, inner_done, failed, woken, received>>

\* The inner body is done: what was held back goes out.
Flush ==
  /\ Polling
  /\ inner_done
  /\ flushed' = TRUE
  /\ out' = out \o AllReplaced(pending, mapping)
  /\ pending' = << >>
  /\ UNCHANGED <<setup, mapping, inner, inner_done, failed, woken, received>>

\* The inner body is pending and keeps the waker.
PollNothing ==
  /\ Polling
  /\ ~inner_done
  /\ arrived = << >>
  /\ woken' = FALSE
  /\ UNCHANGED <<setup, mapping, inner, pending, inner_done, flushed, failed, received, out>>

\* Variant: Pending without a call of the waker.
PollEndAsleep ==
  /\ PollKind("end")
  /\ inner_done' = TRUE
  /\ woken' = FALSE
  /\ UNCHANGED <<setup, mapping, closed, text, pending, flushed, failed, received, out>>

\* The inner body ends: Pending, but woken at once.
PollEnd ==
  /\ PollKind("end")
  /\ inner_done' = TRUE
  /\ UNCHANGED <<setup, mapping, closed, text, pending, flushed, failed, woken, received, out>>

\* An error is passed on; hyper drops the body, and what it held back.
PollError ==
  /\ PollKind("error")
  /\ failed' = TRUE
  /\ UNCHANGED <<setup, mapping, closed, text, pending, inner_done, flushed, woken, received, out>>

\* A frame without data is passed on; into_data_stream drops it.
PollTrailers ==
  /\ PollKind("trailers")
  /\ UNCHANGED <<setup, mapping, closed, text, pending, inner_done, flushed, failed, woken,
                 received, out>>

\* Variants: a window of one byte less; none at all.
HoldTooLittle == Max({0, max_fake_len - 2})
HoldFull == max_fake_len

\* max_fake_len.saturating_sub(1)
Hold == Max({0, max_fake_len - 1})

\* A chunk: substitute over everything held back and the chunk, keep the last
\* `hold` bytes, give out the rest.  With nothing to give out the result is
\* Pending, again woken at once.
PollData ==
  /\ PollKind("data")
  /\ \E corrected \in {AllReplaced(pending \o Head(arrived).bytes, mapping)} :
       LET emit == Max({0, Len(corrected) - Hold})
       IN /\ out' = out \o SubSeq(corrected, 1, emit)
          /\ pending' = SubSeq(corrected, emit + 1, Len(corrected))
  /\ received' = received \o Head(arrived).bytes
  /\ UNCHANGED <<setup, mapping, closed, text, inner_done, flushed, failed, woken>>

Poll == Flush \/ PollNothing \/ PollEnd \/ PollError \/ PollTrailers \/ PollData

Next ==
  \/ \E piece \in Piece : SendPiece(piece)
  \/ \E kind \in {"trailers", "error", "end"} : SendLast(kind)
  \/ Flush
  \/ PollNothing
  \/ PollEnd
  \/ PollError
  \/ PollTrailers
  \/ PollData

Spec == Init /\ [][Next]_vars

\* A woken task is polled.  The upstream owes nothing.
FairSpec == Spec /\ WF_vars(Poll)

-----------------------------------------------------------------------------
(***************************************************************************)
(* Properties                                                              *)
(***************************************************************************)

\* A proper border: the end of one string is the beginning of another.
Meets(s, t) == \E n \in 1..Min({Len(s), Len(t)}) :
                 /\ n < Len(s) \/ n < Len(t)
                 /\ SubSeq(s, Len(s) - n + 1, Len(s)) = SubSeq(t, 1, n)
Within(s, t) == \E i \in 0..Len(t) - Len(s) : SubSeq(t, i + 1, i + Len(s)) = s

\* The setups for which the order and the place of substitutions cannot matter:
\* fakes do not overlap one another, no restored original is part of a fake or
\* makes one together with its neighbours, and a redacted fake has one original.
Clean(s) ==
  LET rules     == s.dictionary \cup ToSet(s.inflight)
      fakes     == {p.fake : p \in rules}
      originals == {p.original : p \in rules}
  IN /\ \A p, q \in ToSet(s.inflight) : p.fake = q.fake => p = q
     /\ \A f, g \in fakes : ~Meets(f, g) /\ (f # g => ~Within(f, g))
     /\ \A f \in fakes, o \in originals :
          ~Meets(f, o) /\ ~Meets(o, f) /\ ~Within(f, o) /\ ~Within(o, f)

\* deanonymize_body_with_dictionary, the buffered path, applies the redactions
\* in order and then the entries of the dictionary for other fakes.
BufferedRules(s) ==
  s.inflight \o SetToSeq({p \in s.dictionary : p.fake \notin FakesIn(s.inflight)})

\* However the reply is cut into frames and however they interleave with polls,
\* the client reads what the buffered path would have given it: at any time a
\* prefix, at the end all of it, after an error no wrong byte.
Restoration == INSTANCE BodyRestoration WITH
  rules <- BufferedRules(setup),
  body  <- received,
  end   <- IF failed THEN "failed" ELSE IF flushed THEN "done" ELSE "open"

StreamsAsBuffered == Restoration!Spec

\* The point of streaming: a body that waits for the upstream holds back no more
\* than the window, and has taken in everything that arrived.
WaitsWithLittle ==
  ~woken /\ ~flushed /\ ~failed =>
    /\ arrived = << >>
    /\ Len(pending) < Max({1, max_fake_len})

\* A reply that the upstream ends or breaks off is ended or broken off for the
\* client: no return of Pending goes without a waker.
StreamEnds == closed ~> (flushed \/ failed)

\* streaming_deanon.rs:1-4 and 7-14: a fake that arrives in pieces, one per event,
\* is replaced: the text the client reads out of the events is the restored text.
TextRestored ==
  flushed =>
    SelectSeq(out, LAMBDA x : x \notin ToSet(Opening) \cup ToSet(Closing)) =
      AllReplaced(text, BufferedRules(setup))

=============================================================================
