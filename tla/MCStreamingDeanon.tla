------------------------- MODULE MCStreamingDeanon -------------------------
(***************************************************************************)
(* Small instances of StreamingDeanon.                                     *)
(***************************************************************************)
EXTENDS StreamingDeanon

CONSTANTS a, b, c, x, open, close    \* model values

Rule(fake, original) == [fake |-> fake, original |-> original]

\* No framing, and one letter of it on each side.
Bare    == << >>
Opened  == <<open>>
Closed  == <<close>>

\* Fakes of two lengths, originals shorter and longer than they are.
Fakes     == {<<a, b>>, <<c, b>>, <<a, c, b>>}
Originals == {<<x>>, <<x, b, x, x>>}
RuleSet   == {Rule(f, o) : f \in Fakes, o \in Originals}
OneOf     == {<< >>} \cup {<<p>> : p \in RuleSet}

\* Up to one redaction and one dictionary entry, for the same fake or another.
CleanSetups ==
  {s \in [inflight : OneOf, dictionary : {{}} \cup {{p} : p \in RuleSet}] : Clean(s)}

\* One fake of two letters.
OneFake == {[inflight |-> <<Rule(<<a, b>>, <<x>>)>>, dictionary |-> {}]}

=============================================================================
