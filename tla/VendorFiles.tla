------------------------------ MODULE VendorFiles -----------------------------
(***************************************************************************)
(* The two hand-written line parsers of src/rule_pipeline.rs.              *)
(*                                                                         *)
(* A file is a sequence of lines.  A line has a key (what its first        *)
(* characters look like), a value, and, in a Nosey Parker file, `deep',    *)
(* whether it is indented as the body of a block is, and `text', whether   *)
(* it belongs to the text of an example or a description.  The parsers do  *)
(* not see `text': to them a line of an example that looks like a key is   *)
(* one.  Only the reference definition at the end reads it.                *)
(*                                                                         *)
(* The keys are "item" (a line that starts a rule: "- name:"), "name",     *)
(* "id", "pattern", "categories", "examples", "negative_examples",         *)
(* "references", "element" (another list item), "colon" (some other line   *)
(* with a colon) and "plain" (without one, empty, or a comment).           *)
(***************************************************************************)
EXTENDS Naturals, FiniteSets, SequencesExt

CONSTANTS Nothing,  \* an Option that is None
          Block     \* the value "|": a block of lines follows

ListKeys == {"categories", "examples", "negative_examples"}

EmptyRule == [id |-> Nothing, name |-> Nothing, pattern |-> <<>>,
              categories |-> {}, examples |-> {}, negative_examples |-> {}]

\* The parser between two lines: the field it is in, the rule it collects, and
\* the rules it has.
NpStart == [field |-> "None", current |-> Nothing, rules |-> <<>>]

\* flush: a rule without an id or a pattern is dropped without a word.
Flushed(st) ==
    IF st.current # Nothing /\ st.current.id # Nothing /\ st.current.pattern # <<>>
    THEN Append(st.rules, st.current)
    ELSE st.rules

NpKeyLine(st, ln) ==
    CASE ln.key \in {"id", "name"} ->
            [st EXCEPT !.current[ln.key] = ln.val, !.field = "None"]
      [] ln.key = "pattern" /\ ln.val = Block ->
            [st EXCEPT !.current.pattern = <<>>, !.field = "PatternBlock"]
      [] ln.key = "pattern" /\ ln.val # Block ->
            [st EXCEPT !.current.pattern = ln.val, !.field = "None"]
      [] ln.key \in ListKeys -> [st EXCEPT !.field = ln.key]
      [] ln.key = "references" -> [st EXCEPT !.field = "Skip"]
      [] ln.key = "element" ->
            IF st.field \in ListKeys /\ ln.val # Block
            THEN [st EXCEPT !.current[st.field] = @ \cup {ln.val}]
            ELSE st
      [] ln.key = "colon" ->
            IF st.field \in ListKeys \cup {"Skip"}
            THEN [st EXCEPT !.field = "None"]
            ELSE st
      [] OTHER -> st

\* Variant: the line after a pattern block is lost.
BlockEatsALine(st, ln) ==
    IF ln.key = "item"
    THEN [field |-> "None", rules |-> Flushed(st),
          current |-> [EmptyRule EXCEPT !.name = ln.val]]
    ELSE IF st.current = Nothing THEN st
    ELSE IF st.field = "PatternBlock"
         THEN IF ln.deep THEN [st EXCEPT !.current.pattern = @ \o ln.val]
              ELSE [st EXCEPT !.field = "None"]
         ELSE NpKeyLine(st, ln)

\* One turn of the loop over the lines of a Nosey Parker file.
NpLine(st, ln) ==
    IF ln.key = "item"
    THEN [field |-> "None", rules |-> Flushed(st),
          current |-> [EmptyRule EXCEPT !.name = ln.val]]
    ELSE IF st.current = Nothing THEN st
    ELSE IF st.field = "PatternBlock"
         THEN IF ln.deep
              THEN [st EXCEPT !.current.pattern = @ \o ln.val]
              ELSE NpKeyLine([st EXCEPT !.field = "None"], ln)
         ELSE NpKeyLine(st, ln)

parse_np_file(lines) == Flushed(FoldLeft(NpLine, NpStart, lines))

-----------------------------------------------------------------------------

SpdbStart == [name |-> Nothing, regex |-> Nothing, confidence |-> Nothing,
              patterns |-> <<>>]

\* The three fields are taken together: what an incomplete pattern has
\* collected is dropped with it and never reaches the next one.
SpdbFlushed(st) ==
    IF st.name # Nothing /\ st.regex # Nothing /\ st.confidence # Nothing
    THEN Append(st.patterns, [name |-> st.name, regex |-> st.regex,
                              confidence |-> st.confidence])
    ELSE st.patterns

SpdbLine(st, ln) ==
    CASE ln.key = "name" ->
            [SpdbStart EXCEPT !.name = ln.val, !.patterns = SpdbFlushed(st)]
      [] ln.key \in {"regex", "confidence"} -> [st EXCEPT ![ln.key] = ln.val]
      [] OTHER -> st

\* Nothing: the parser panics on a file without a pattern.
parse_spdb_file(lines) ==
    LET patterns == SpdbFlushed(FoldLeft(SpdbLine, SpdbStart, lines))
    IN IF patterns = <<>> THEN Nothing ELSE patterns

-----------------------------------------------------------------------------
(***************************************************************************)
(* What a reader of YAML sees in a Nosey Parker file: a rule reaches from  *)
(* its item to the next one, and the lines of its examples are text.       *)
(***************************************************************************)
ItemLines(lines) == {i \in 1 .. Len(lines) : lines[i].key = "item" /\ ~lines[i].text}

OwnLines(lines, i) == {k \in i + 1 .. Len(lines) :
                          /\ ~lines[k].text
                          /\ \A j \in ItemLines(lines) : ~(i < j /\ j <= k)}

\* The block below line b.
Body(lines, b) == {e \in b + 1 .. Len(lines) : \A k \in b + 1 .. e : lines[k].deep}

\* The pattern that line b gives: its value, or the block below it.
PatternAt(lines, b) ==
    IF lines[b].val # Block THEN lines[b].val
    ELSE FoldLeft(LAMBDA p, ln : p \o ln.val, <<>>,
                  SubSeq(lines, b + 1, b + Cardinality(Body(lines, b))))

WrittenRules(lines) ==
    {[id |-> lines[c[1]].val, pattern |-> PatternAt(lines, c[2])] : c \in
        UNION {{c \in OwnLines(lines, i) \X OwnLines(lines, i) :
                    /\ lines[c[1]].key = "id"
                    /\ lines[c[2]].key = "pattern"} : i \in ItemLines(lines)}}
=============================================================================
