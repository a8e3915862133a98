---------------------------- MODULE LiteralPrefix -----------------------------
(***************************************************************************)
(* extract_literal_prefix of src/rule_pipeline.rs: the literal head of a   *)
(* regex, computed when the rules are built and kept by the replacer in    *)
(* front of every fake it makes for the rule.                              *)
(*                                                                         *)
(* A regex is a sequence of tokens.  A literal is a letter, a digit, '_',  *)
(* '-' or an escaped punctuation character; "^" is an anchor or a flag     *)
(* group, which the extraction steps over; "(" opens a group, capturing or *)
(* not, and "(?" one of another kind; "?", "*", "{" and "+" are            *)
(* quantifiers; "(?#)" is an inline comment; every other token (a class, a *)
(* dot, a meta escape) ends a literal.  The groups of a regex that         *)
(* compiles are balanced; the extraction sees it before it is compiled.    *)
(* Under the flag (?i) a literal stands for both its cases.                *)
(***************************************************************************)
EXTENDS Integers, FiniteSets, SequencesExt

CONSTANTS Literals,  \* the literal characters
          Others     \* tokens that are neither literal nor structure

Optional   == {"?", "*", "{"}
Quantifier == Optional \cup {"+"}
Structure  == Quantifier \cup {"^", "(", "(?", ")", "|", "(?#)"}
Tokens     == Literals \cup Others \cup Structure
Regexes    == Seq(Tokens)

\* A literal is no other kind of token.
ASSUME LiteralsAssumption == Literals \cap (Others \cup Structure) = {}

\* The elements of s that are in S, in their order.
Kept(s, S) == FoldLeft(LAMBDA kept, e : IF e \in S THEN Append(kept, e) ELSE kept, <<>>, s)

\* Inline comments are removed before a regex is looked at or compiled.
strip_posix_comments(re) == Kept(re, Tokens \ {"(?#)"})

\* How deep re[j] lies in the groups opened from i on; after a ")" of the
\* group itself it is 0 again.
Depth(re, i, j) == Cardinality({k \in i .. j : re[k] \in {"(", "(?"}}) -
                   Cardinality({k \in i .. j : re[k] = ")"})

\* scan_group: where the group that re[i] opens is closed, and whether it has
\* an alternation of its own.  A group that is not closed counts as one with an
\* alternation, and its last token as what closes it.
Closings(re, i) == {j \in i + 1 .. Len(re) : /\ Depth(re, i, j) = 0
                                             /\ \A k \in i .. j - 1 : Depth(re, i, k) > 0}

Closing(re, i) == IF Closings(re, i) # {} THEN CHOOSE j \in Closings(re, i) : TRUE
                  ELSE IF i < Len(re) THEN Len(re) ELSE i + 1

TopPipes(re, i) == {k \in i + 1 .. Closing(re, i) - 1 : re[k] = "|" /\ Depth(re, i, k) = 1}

HasPipe(re, i) == Closings(re, i) = {} \/ TopPipes(re, i) # {}

\* split_top_level_alternatives of the body of that group.
Alternatives(re, i) ==
    LET cuts == TopPipes(re, i) \cup {i, Closing(re, i)} IN
    {SubSeq(re, c[1] + 1, c[2] - 1) : c \in
        {c \in cuts \X cuts : c[1] < c[2] /\ \A k \in cuts : ~(c[1] < k /\ k < c[2])}}

\* Position n is in the run of literals at the head of re: each of them is
\* there exactly once in every match.
InRun(re, n) ==
    \A k \in 1 .. n : /\ re[k] \in Literals
                      /\ k < Len(re) => re[k + 1] \notin Quantifier

LiteralRun(re) ==
    SubSeq(re, 1, Cardinality({n \in 1 .. Len(re) : InRun(re, n)}))

\* A head of one character says too little: none is the empty sequence.
AtLeastTwo(s) == IF Len(s) >= 2 THEN s ELSE <<>>

\* The walk: over anchors and into groups that the match must have, to the
\* first alternation, whose alternatives' heads have a common head, or to the
\* first literals.
extract_literal_prefix[re \in Regexes] ==
    IF re = <<>> THEN <<>>
    ELSE IF re[1] = "^" THEN extract_literal_prefix[Tail(re)]
    ELSE IF re[1] # "(" THEN AtLeastTwo(LiteralRun(re))
    ELSE LET close == Closing(re, 1) IN
         IF close < Len(re) /\ re[close + 1] \in Optional THEN <<>>
         ELSE IF ~HasPipe(re, 1) THEN extract_literal_prefix[Tail(re)]
         ELSE LET heads == {extract_literal_prefix[a] : a \in Alternatives(re, 1)}
              IN IF <<>> \in heads THEN <<>>
                 ELSE AtLeastTwo(LongestCommonPrefix(heads))

-----------------------------------------------------------------------------
(***************************************************************************)
(* What a regex matches, as words of literals and other tokens; what may   *)
(* be repeated is repeated at most twice.                                  *)
(***************************************************************************)
OuterPipes(re) == {k \in 1 .. Len(re) : re[k] = "|" /\ Depth(re, 1, k) = 0}

Times(quantifier) == CASE quantifier = "+" -> {1, 2}
                       [] quantifier = "?" -> {0, 1}
                       [] quantifier \in {"*", "{"} -> {0, 1, 2}
                       [] OTHER -> {1}

Joined(A, B) == {a \o b : a \in A, b \in B}

Repeated(words, times) == (IF 0 \in times THEN {<<>>} ELSE {}) \cup words \cup
                          (IF 2 \in times THEN Joined(words, words) ELSE {})

\* The first element of a regex is a token or a group; a quantifier may follow.
FirstEnd(re) == IF re[1] \in {"(", "(?"} THEN Closing(re, 1) ELSE 1
Follower(re) == IF FirstEnd(re) < Len(re) THEN re[FirstEnd(re) + 1] ELSE "end"
Rest(re)     == SubSeq(re, IF Follower(re) \in Quantifier THEN FirstEnd(re) + 2
                           ELSE FirstEnd(re) + 1, Len(re))

Words[re \in Regexes] ==
    IF re = <<>> THEN {<<>>}
    ELSE IF OuterPipes(re) # {}
         THEN LET k == CHOOSE k \in OuterPipes(re) : TRUE
              IN Words[SubSeq(re, 1, k - 1)] \cup Words[SubSeq(re, k + 1, Len(re))]
    ELSE LET once == IF re[1] \in {"(", "(?"} THEN Words[SubSeq(re, 2, FirstEnd(re) - 1)]
                     ELSE IF re[1] = "^" THEN {<<>>}
                     ELSE {<<re[1]>>}
         IN Joined(Repeated(once, Times(Follower(re))), Words[Rest(re)])
=============================================================================
