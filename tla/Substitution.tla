---------------------------- MODULE Substitution ----------------------------
(***************************************************************************)
(* The exact-string substitution that restores originals, which the source *)
(* writes three times: deanonymize (src/src/replacement/mod.rs), the       *)
(* dictionary pass of deanonymize_body_with_dictionary                     *)
(* (src/src/content_router/mod.rs) and deanonymize_in_place                *)
(* (src/src/streaming_deanon.rs).  A body is a sequence of letters, a rule *)
(* a [fake, original] pair of such sequences.                              *)
(***************************************************************************)
EXTENDS Integers, SequencesExt

\* Every occurrence of the fake, from the left and without overlaps, becomes the
\* original.
Replaced(s, rule) ==
  LET fake  == rule.fake
      At(i) == i + Len(fake) - 1 <= Len(s) /\ SubSeq(s, i, i + Len(fake) - 1) = fake
      from[i \in 1..Len(s) + 1] ==
        IF i > Len(s) THEN << >>
        ELSE IF At(i) THEN rule.original \o from[i + Len(fake)]
        ELSE <<s[i]>> \o from[i + 1]
  IN IF fake = << >> THEN s ELSE from[1]

\* One rule after the other, each over the whole of what the last one left.
AllReplaced(s, rules) == FoldLeft(Replaced, s, rules)

\* The fakes of a list of rules.
FakesIn(rules) == {rules[i].fake : i \in DOMAIN rules}

=============================================================================
