----------------------------- MODULE Detection -----------------------------
(***************************************************************************)
(* How one piece of text is anonymized: scan_inner of                      *)
(* src/src/detection/mod.rs runs every rule over it and resolves nested    *)
(* spans, and apply_with_dedup of src/src/replacement/mod.rs splices the   *)
(* fakes in from right to left.                                            *)
(*                                                                         *)
(* Spans are the code's half-open ranges of byte offsets.  What a byte is  *)
(* does not matter here, only where it came from: a Cell is byte number at *)
(* of the text or of a fake.  Which fake a match gets is Gateway's         *)
(* business; here it is some length.                                       *)
(***************************************************************************)
EXTENDS Integers, FiniteSets, SequencesExt

CONSTANTS
  Size,        \* number of bytes of the text
  Rules,       \* number of rules; RULES is ordered, so a rule is its index
  Replacing,   \* the rules whose replacement_type is not Passthrough
  FakeSize,    \* lengths of the fakes the generators return
  MaxMatches   \* bound on the matches of one text

Rule == 1..Rules

ASSUME DetectionAssumption ==
  /\ Size \in Nat /\ Rules \in Nat /\ MaxMatches \in Nat
  /\ Replacing \subseteq Rule
  /\ FakeSize \subseteq Nat \ {0}

\* A match: who found it and where.
Match == {m \in [rule : Rule, start : 0..Size, end : 0..Size] : m.start < m.end}

Overlap(a, b)  == a.start < b.end /\ b.start < a.end
Inside(a, b)   == b.start <= a.start /\ a.end <= b.end
SameSpan(a, b) == a.start = b.start /\ a.end = b.end

\* Variant: sorted by start alone.
BeforeByStart(a, b) == a.start < b.start \/ (a.start = b.start /\ a.rule < b.rule)

\* The order the matches are resolved in: by start, the longer first; sort_by is
\* stable, so equal spans stay in the order of their rules.
Before(a, b) ==
  \/ a.start < b.start
  \/ a.start = b.start /\ a.end > b.end
  \/ SameSpan(a, b) /\ a.rule < b.rule

\* Byte i (from 1) of the text, and of the fake that replaces match m.
Text(i)    == [rule |-> 0, start |-> 0, at |-> i]
Fake(m, i) == [rule |-> m.rule, start |-> m.start, at |-> i]
Cell       == [rule : 0..Rules, start : 0..Size, at : Nat \ {0}]

\* m's span contains byte i of the text.
Covers(m, i) == m.start < i /\ i <= m.end

VARIABLES
  phase,       \* "scan", "resolve", "splice", "done" or "panicked"
  rule,        \* the rule whose regex runs next
  found,       \* the matches of all rules
  sorted,      \* those of them the resolution has not looked at
  resolved,    \* the matches it keeps: what scan_inner returns
  todo,        \* those of them apply_with_dedup has not looked at
  buffer,      \* the text, as edited so far
  redactions   \* the Redactions pushed: a match and the length of its fake

vars == <<phase, rule, found, sorted, resolved, todo, buffer, redactions>>

Redaction == [match : Match, size : FakeSize]

TypeOK ==
  /\ phase \in {"scan", "resolve", "splice", "done", "panicked"}
  /\ rule \in 1..Rules + 1
  /\ found \subseteq Match
  /\ sorted \subseteq found
  /\ resolved \subseteq found
  /\ todo \subseteq resolved
  /\ buffer \in Seq(Cell)
  /\ redactions \subseteq Redaction

Init ==
  /\ phase = "scan"
  /\ rule = 1
  /\ found = {} /\ sorted = {} /\ resolved = {} /\ todo = {}
  /\ buffer = [i \in 1..Size |-> Text(i)]
  /\ redactions = {}

-----------------------------------------------------------------------------
(***************************************************************************)
(* scan_inner                                                              *)
(***************************************************************************)

\* What find_iter can yield for rule r and the filters (keywords, exclusion,
\* entropy, checksum) let through: spans that do not overlap.
Yields(r) ==
  {ms \in SUBSET {m \in Match : m.rule = r} : \A a, b \in ms : a = b \/ ~Overlap(a, b)}

ScanRule ==
  /\ phase = "scan" /\ rule <= Rules
  /\ \E ms \in Yields(rule) :
       /\ Cardinality(found \cup ms) <= MaxMatches
       /\ found' = found \cup ms
  /\ rule' = rule + 1
  /\ UNCHANGED <<phase, sorted, resolved, todo, buffer, redactions>>

Sort ==
  /\ phase = "scan" /\ rule > Rules
  /\ phase' = "resolve"
  /\ sorted' = found
  /\ UNCHANGED <<rule, found, resolved, todo, buffer, redactions>>

\* The next match in the order is dropped if it lies inside one that was kept.
Resolve ==
  /\ phase = "resolve"
  /\ \E m \in sorted :
       /\ \A x \in sorted \ {m} : Before(m, x)
       /\ sorted' = sorted \ {m}
       /\ resolved' = IF \E prev \in resolved : Inside(m, prev)
                      THEN resolved ELSE resolved \cup {m}
  /\ UNCHANGED <<phase, rule, found, todo, buffer, redactions>>

\* Variant: all the matches are returned.
ResolvedReturnsAll ==
  /\ phase = "resolve" /\ sorted = {}
  /\ phase' = "splice"
  /\ todo' = found
  /\ UNCHANGED <<rule, found, sorted, resolved, buffer, redactions>>

Resolved ==
  /\ phase = "resolve" /\ sorted = {}
  /\ phase' = "splice"
  /\ todo' = resolved
  /\ UNCHANGED <<rule, found, sorted, resolved, buffer, redactions>>

-----------------------------------------------------------------------------
(***************************************************************************)
(* apply_with_dedup                                                        *)
(***************************************************************************)

\* Variant: from left to right.
Leftmost(m) == m \in todo /\ \A x \in todo : m.start <= x.start

\* The matches come with descending start.
Rightmost(m) == m \in todo /\ \A x \in todo : x.start <= m.start

Skip ==
  /\ phase = "splice"
  /\ \E m \in todo :
       /\ Rightmost(m) /\ m.rule \notin Replacing
       /\ todo' = todo \ {m}
  /\ UNCHANGED <<phase, rule, found, sorted, resolved, buffer, redactions>>

FakeOf(m, size) == [i \in 1..size |-> Fake(m, i)]

\* Variant: the range taken as inclusive.
SplicedInclusive(buf, m, size) ==
  SubSeq(buf, 1, m.start) \o FakeOf(m, size) \o SubSeq(buf, m.end + 2, Len(buf))

Spliced(buf, m, size) ==
  SubSeq(buf, 1, m.start) \o FakeOf(m, size) \o SubSeq(buf, m.end + 1, Len(buf))

Splice ==
  /\ phase = "splice"
  /\ \E m \in todo, size \in FakeSize :
       /\ Rightmost(m) /\ m.rule \in Replacing
       /\ m.end <= Len(buffer)
       /\ buffer' = Spliced(buffer, m, size)
       /\ redactions' = redactions \cup {[match |-> m, size |-> size]}
       /\ todo' = todo \ {m}
  /\ UNCHANGED <<phase, rule, found, sorted, resolved>>

\* Vec::splice panics when the range ends behind the buffer; no body is returned.
Panic ==
  /\ phase = "splice"
  /\ \E m \in todo : Rightmost(m) /\ m.rule \in Replacing /\ m.end > Len(buffer)
  /\ phase' = "panicked"
  /\ UNCHANGED <<rule, found, sorted, resolved, todo, buffer, redactions>>

Return ==
  /\ phase = "splice" /\ todo = {}
  /\ phase' = "done"
  /\ UNCHANGED <<rule, found, sorted, resolved, todo, buffer, redactions>>

-----------------------------------------------------------------------------
Next == ScanRule \/ Sort \/ Resolve \/ Resolved \/ Skip \/ Splice \/ Panic \/ Return

Spec == Init /\ [][Next]_vars

-----------------------------------------------------------------------------
(***************************************************************************)
(* Correctness                                                             *)
(***************************************************************************)

\* A match is maximal if it lies in no other, the first rule's of those with the
\* same span.
Maximal(m) == \A x \in found \ {m} : Inside(m, x) => SameSpan(m, x) /\ m.rule < x.rule

\* The one-pass resolution over the sorted matches, which compares a match only
\* with those kept before it, returns exactly the maximal ones: nothing nested is
\* left for the splice, and nothing is lost that was not covered by a longer
\* match (detection/mod.rs, the 'outer loop).
KeepsTheMaximal == phase \in {"splice", "done", "panicked"} =>
                     resolved = {m \in found : Maximal(m)}

\* No byte that a replacing rule found leaves in the clear, however the matches
\* overlap, but for one case: a match inside the kept match of a passthrough rule,
\* which shields it.  The splice uses spans of the original text on a buffer
\* whose right part has changed, so this is where an offset could go wrong
\* (apply_with_dedup).
NoFoundByteSurvives == phase = "done" =>
  \A j \in DOMAIN buffer, m \in found :
    buffer[j].rule = 0 /\ Covers(m, buffer[j].at) /\ m.rule \in Replacing =>
      \E p \in resolved : p.rule \notin Replacing /\ Inside(m, p)

\* The kept matches that are replaced do not overlap one another.
Disjoint == \A a, b \in {m \in resolved : m.rule \in Replacing} : a = b \/ ~Overlap(a, b)

\* What the text becomes, from left to right: a fake where its match starts,
\* and each byte no match covers.
Chunk(i) ==
  IF \E r \in redactions : Covers(r.match, i)
  THEN LET r == CHOOSE x \in redactions : Covers(x.match, i)
       IN IF i = r.match.start + 1 THEN FakeOf(r.match, r.size) ELSE << >>
  ELSE <<Text(i)>>

\* With disjoint matches every replaced match has its redaction, every fake is in
\* the text whole and in its place, and every other byte is still there, in order
\* (test "replacing right-to-left should not corrupt left span", for any
\* number of matches and lengths of fakes).
DisjointIsExact == phase = "done" /\ Disjoint =>
  /\ buffer = FlattenSeq([i \in 1..Size |-> Chunk(i)])
  /\ {r.match : r \in redactions} = {m \in resolved : m.rule \in Replacing}

\* The splice panics on a range behind the buffer's end only when two kept
\* matches partially overlap: "No panics on valid input"
\* (docs/arch/DETECTION-PIPELINE.md) holds for all other texts.
OnlyOverlapsPanic == phase = "panicked" => ~Disjoint

\* docs/arch/REPLACEMENT-PIPELINE.md, section 11: "No overlap in output Redaction
\* spans", guaranteed by detection::scan.
NoRedactionsOverlap == \A r, s \in redactions : r = s \/ ~Overlap(r.match, s.match)

=============================================================================
