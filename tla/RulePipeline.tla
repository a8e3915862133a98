----------------------------- MODULE RulePipeline -----------------------------
(***************************************************************************)
(* build-rules and curate-rules: from the vendor files under rules/vendor  *)
(* to rules/combined.yaml, the ruleset a gateway runs with, and            *)
(* rules/combined-100.yaml, the one for development.                       *)
(*                                                                         *)
(* A build is one pass of src/rule_pipeline.rs `run', one action per step  *)
(* of it.  A step that panics, or the build killed before its next step,   *)
(* ends it as "failed" with the files as they are then; what it had in     *)
(* memory is gone.  fs::write truncates the file before it writes, so a    *)
(* build killed inside leaves it torn.  The input files change between     *)
(* builds only.                                                            *)
(***************************************************************************)
EXTENDS Naturals, FiniteSets, SequencesExt, RuleTaxonomy, VendorFiles, LiteralPrefix

CONSTANTS
    Snapshots,    \* what the input files may hold: records, by a name
    Malformed,    \* a file that cannot be read or parsed
    Missing,      \* a file that is not there
    Torn,         \* a file whose writer was killed in the middle
    Spaced,       \* the ids that have whitespace in them
    RequiredHa,   \* the hand-authored ids that must be there (five in the code)
    Limits,       \* the values of --limit to try; Nothing is no limit
    Target,       \* the size curate-rules aims at (100 by default)
    Rank,         \* the place of every id in the alphabetical order
    SourceRank,   \* the place of every source name in the alphabetical order
    VendorScore,  \* the place of the vendor in PRIORITY_VENDORS, by id
    MaxBuilds     \* bound: the builds of a behaviour

-----------------------------------------------------------------------------
(* What the input files may hold *)

RuleFields == {"id", "source", "category", "subcategory", "confidence", "severity",
               "regex", "keywords", "checksum", "replacement", "prefix", "exclude"}

\* A rule in the schema of combined.yaml, its regex read into tokens.
IsRule(r) == /\ DOMAIN r = RuleFields
             /\ r.regex \in Regexes
             /\ r.prefix \in Seq(Literals)

\* A sequence, of whatever.
IsSeq(s) == Len(s) \in Nat /\ s = [i \in 1 .. Len(s) |-> s[i]]

\* A rule that the parser of Nosey Parker files collects, when W are the values
\* of its fields: those of the lines, and nothing.
NpRule(W) == [id : W, name : W, pattern : Regexes, categories : SUBSET W,
              examples : SUBSET W, negative_examples : SUBSET W]

NpValues(lines) == {IF i = 0 THEN Nothing ELSE lines[i].val : i \in 0 .. Len(lines)}

\* What stands for a pattern is tokens, and so is a line that may continue one;
\* a rule that is collected is not nothing.
IsNpFile(lines) ==
    /\ IsSeq(lines)
    /\ Nothing \notin NpRule(NpValues(lines))
    /\ \A i \in DOMAIN lines :
          \/ lines[i].key = "pattern" /\ lines[i].val # Block
          \/ lines[i].deep /\ lines[i].key # "item"
          => lines[i].val \in Regexes

IsSpdbFile(lines) ==
    /\ IsSeq(lines)
    /\ \A i \in DOMAIN lines : lines[i].key = "regex" => lines[i].val \in Regexes

IsGitleaksFile(rules) ==
    /\ IsSeq(rules)
    /\ \A i \in DOMAIN rules : rules[i].regex = Nothing \/ rules[i].regex \in Regexes

IsRuleFile(rules) == IsSeq(rules) /\ \A i \in DOMAIN rules : IsRule(rules[i])

\* A file is as its format has it, or cannot be parsed.
ASSUME SnapshotsAssumption ==
    \A name \in DOMAIN Snapshots :
        LET src == Snapshots[name] IN
        /\ src.gitleaks = Malformed \/ IsGitleaksFile(src.gitleaks)
        /\ src.spdb = Malformed \/ IsSpdbFile(src.spdb)
        /\ \/ src.np = Malformed
           \/ IsSeq(src.np) /\ \A f \in DOMAIN src.np : IsNpFile(src.np[f])
        /\ src.ha = Malformed \/ IsRuleFile(src.ha)
        /\ src.custom \in {Missing, Malformed} \/ IsRuleFile(src.custom)

\* No limit is one of the choices.
ASSUME LimitsAssumption == /\ Nothing \in Limits /\ Limits \ {Nothing} \subseteq Nat
                           /\ MaxBuilds \in Nat

VARIABLES
    sources,   \* the input files, by the name of their contents
    step,      \* the next step of `run', or how the last run ended
    limit,     \* its --limit
    work,      \* the rules it has parsed, by vendor, and the fixtures
    final,     \* final_rules
    fixtures,  \* rules/patterns-test-fixtures.yaml
    combined,  \* rules/combined.yaml
    curated,   \* rules/combined-100.yaml
    builds     \* how many builds were started

vars == <<sources, step, limit, work, final, fixtures, combined, curated, builds>>

-----------------------------------------------------------------------------
(* Rules *)

\* A rule of a vendor, in the schema of combined.yaml.  A head of no characters
\* is no literal_prefix.
Normalized(id, source, row, confidence, regex, keywords, checksum) ==
    [id |-> id, source |-> source, category |-> row[1], subcategory |-> row[2],
     confidence |-> confidence, severity |-> derive_severity(confidence),
     regex |-> regex, keywords |-> keywords, checksum |-> checksum,
     replacement |-> derive_replacement_type(row[1], row[2]),
     prefix |-> <<>>, exclude |-> Nothing]

Included(src, id) == id \notin src.exclusions

GitleaksRules(src) ==
    LET kept == Kept(src.gitleaks, {r \in ToSet(src.gitleaks) :
                                        Included(src, <<r.id>>) /\ r.regex # Nothing})
    IN [i \in DOMAIN kept |->
          Normalized(<<"gl", kept[i].id>>, "gitleaks", gl_subcategory(kept[i].id),
                     infer_confidence_gitleaks(kept[i].regex), kept[i].regex,
                     kept[i].keywords, Nothing)]

\* Two patterns with one slug: the second gets the suffix -2, and so on.
SpdbRules(src) ==
    LET patterns == parse_spdb_file(src.spdb)
        kept == Kept(patterns, {p \in ToSet(patterns) :
                                   /\ p.name \in DOMAIN SpdbAllowList
                                   /\ Included(src, <<p.name>>)})
        Nth(i) == Cardinality({j \in 1 .. i : slugify(kept[j].name) = slugify(kept[i].name)})
        Id(i)  == <<"spdb", slugify(kept[i].name)>> \o
                      (IF Nth(i) = 1 THEN <<>> ELSE <<ToString(Nth(i))>>)
    IN [i \in DOMAIN kept |->
          LET sub == spdb_subcategory(kept[i].name) IN
          Normalized(Id(i), "secrets-patterns-db", <<"pii", sub>>,
                     kept[i].confidence, kept[i].regex, {},
                     IF sub = "cc" THEN "luhn" ELSE Nothing)]

\* The rules of the Nosey Parker files, which are read in the order of their
\* paths.
NpIncluded(src) ==
    LET rules == FoldLeft(LAMBDA all, file : all \o parse_np_file(file), <<>>, src.np)
    IN Kept(rules, {r \in ToSet(rules) : Included(src, r.id)})

NpRules(src) ==
    [i \in DOMAIN NpIncluded(src) |->
       LET r == NpIncluded(src)[i] IN
       Normalized(r.id, "nosey-parker", np_subcategory(r.id),
                  infer_confidence_np(r.categories), r.pattern, {}, Nothing)]

\* Variant: the fixtures of the excluded rules, too.
FixturesOfAll(src) ==
    {[id |-> r.id, examples |-> r.examples, negative |-> r.negative_examples] :
        r \in UNION {ToSet(parse_np_file(src.np[f])) : f \in DOMAIN src.np}}

NpFixtures(src) ==
    {[id |-> r.id, examples |-> r.examples, negative |-> r.negative_examples] :
        r \in {q \in ToSet(NpIncluded(src)) : q.examples \cup q.negative_examples # {}}}

\* The rules of a file in the schema of combined.yaml.  The schema of the
\* pipeline has no exclude_regex: serde ignores the field.
Prefixed(id, prefixes, prefix) ==
    IF Len(id) >= 2 /\ id[1] \in prefixes THEN id ELSE <<prefix>> \o id

HandAuthoredRules(src) ==
    [i \in DOMAIN src.ha |->
       [src.ha[i] EXCEPT !.id = Prefixed(@, {"ha"}, "ha"), !.exclude = Nothing]]

\* A custom rule with a vendor's id is meant to replace the vendor's rule.
CustomRules(src) ==
    IF src.custom = Missing THEN <<>>
    ELSE [i \in DOMAIN src.custom |->
            [src.custom[i] EXCEPT
                !.id = Prefixed(@, {"custom", "gl", "np", "ha", "spdb"}, "custom"),
                !.source = IF @ = "" THEN "custom" ELSE @,
                !.exclude = Nothing]]

\* Variant: nothing is deduplicated.
EveryRule(rules) == ToSet(rules)

\* The rules of a sequence by id; of those with the same id the last.
LastOfEachId(rules) ==
    {rules[i] : i \in {i \in DOMAIN rules :
                          \A j \in i + 1 .. Len(rules) : rules[j].id # rules[i].id}}

\* What the regex crate accepts, as far as it matters here.
Balanced(re) ==
    /\ \A j \in 1 .. Len(re) : Depth(re, 1, j) >= 0
    /\ Depth(re, 1, Len(re)) = 0

\* Variant: a category is not checked.
AnyCategory(r) == /\ r.id \notin Spaced
                  /\ r.replacement \in ValidReplacementTypes
                  /\ Balanced(strip_posix_comments(r.regex))

ValidRule(r) == /\ r.id \notin Spaced
                /\ r.category \in ValidCategories
                /\ r.replacement \in ValidReplacementTypes
                /\ Balanced(strip_posix_comments(r.regex))

\* --limit n: the sources take turns, in the order of their names, each giving
\* its next rule in the order of the ids, until there are n rules.  The first
\* rule is taken before anything is counted.
Place(rules, r) ==
    Cardinality({q \in rules : q.source = r.source /\ Rank[q.id] < Rank[r.id]})

\* Variant: a source gives all it has before the next one does.
SourceBySource(rules, r) ==
    Cardinality({q \in rules :
        \/ SourceRank[q.source] < SourceRank[r.source]
        \/ q.source = r.source /\ Rank[q.id] < Rank[r.id]})

Turn(rules, r) ==
    Cardinality({q \in rules :
        \/ Place(rules, q) < Place(rules, r)
        \/ /\ Place(rules, q) = Place(rules, r)
           /\ SourceRank[q.source] < SourceRank[r.source]})

Truncated(rules, n) ==
    {r \in rules : Turn(rules, r) < (IF n = 0 THEN 1 ELSE n)}

\* curate-rules: all hand-authored rules, all with a subcategory of their own,
\* and generic ones of well-known vendors as far as there is room.  Its schema
\* has neither literal_prefix nor exclude_regex.
Curated(rules) ==
    LET kept == {r \in rules : r.source = "hand-authored" \/ r.subcategory # "generic"}
        picks == {r \in rules \ kept : r.id \in DOMAIN VendorScore}
        Sooner(q, r) == \/ VendorScore[q.id] < VendorScore[r.id]
                        \/ /\ VendorScore[q.id] = VendorScore[r.id]
                           /\ Rank[q.id] < Rank[r.id]
        taken == {r \in picks :
                     Cardinality(kept) + Cardinality({q \in picks : Sooner(q, r)}) < Target}
    IN {[r EXCEPT !.prefix = <<>>, !.exclude = Nothing] : r \in kept \cup taken}

-----------------------------------------------------------------------------
(* The build *)

NoWork == [gl |-> <<>>, spdb |-> <<>>, np |-> <<>>, ha |-> <<>>, custom |-> <<>>,
           fixtures |-> {}]

\* What the input files hold.
Inputs == Snapshots[sources]

Init == /\ sources \in DOMAIN Snapshots
        /\ step = "idle"
        /\ limit = Nothing
        /\ work = NoWork
        /\ final = {}
        /\ fixtures = Missing
        /\ combined = Missing
        /\ curated = Missing
        /\ builds = 0

Resting == step \in {"idle", "done", "failed"}

\* run(&opts)
Start == /\ Resting
         /\ builds < MaxBuilds
         /\ builds' = builds + 1
         /\ limit' \in Limits
         /\ step' = "exclusions"
         /\ work' = NoWork
         /\ final' = {}
         /\ UNCHANGED <<sources, fixtures, combined, curated>>

Files == <<fixtures, combined, curated>>
Input == <<sources, builds>>

\* The process ends.
Ends(how) == /\ step' = how
             /\ work' = NoWork
             /\ final' = {}
             /\ limit' = IF how = "failed" THEN Nothing ELSE limit

\* A step that parses one source, or panics over it.
Parse(at, next, ok, parsed) ==
    /\ step = at
    /\ \/ ok /\ step' = next /\ work' = parsed /\ UNCHANGED <<final, limit>>
       \/ ~ok /\ Ends("failed")
    /\ UNCHANGED <<Files, Input>>

LoadExclusions ==
    Parse("exclusions", "gitleaks", Inputs.exclusions # Malformed, work)

ParseGitleaks ==
    Parse("gitleaks", "spdb", Inputs.gitleaks # Malformed,
          [work EXCEPT !.gl = GitleaksRules(Inputs)])

ParseSpdb ==
    Parse("spdb", "np",
          Inputs.spdb # Malformed /\ parse_spdb_file(Inputs.spdb) # Nothing,
          [work EXCEPT !.spdb = SpdbRules(Inputs)])

ParseNoseyParker ==
    Parse("np", "fixtures", Inputs.np # Malformed,
          [work EXCEPT !.np = NpRules(Inputs), !.fixtures = NpFixtures(Inputs)])

\* The fixtures are written before the other sources are even read.
WriteFixtures ==
    /\ step = "fixtures"
    /\ \/ fixtures' = work.fixtures /\ step' = "ha" /\ UNCHANGED <<work, final, limit>>
       \/ fixtures' = Torn /\ Ends("failed")
    /\ UNCHANGED <<combined, curated, Input>>

ParseHandAuthored ==
    Parse("ha", "custom",
          /\ Inputs.ha # Malformed
          /\ RequiredHa \subseteq {r.id : r \in ToSet(HandAuthoredRules(Inputs))},
          [work EXCEPT !.ha = HandAuthoredRules(Inputs)])

ParseCustom ==
    Parse("custom", "merge", Inputs.custom # Malformed,
          [work EXCEPT !.custom = CustomRules(Inputs)])

\* A step that rewrites the merged rules.
Rewrite(at, next, rules) ==
    /\ step = at
    /\ step' = next
    /\ final' = rules
    /\ UNCHANGED <<work, limit, Files, Input>>

\* Variant: custom rules are merged before the others.
MergeCustomFirst ==
    Rewrite("merge", "email",
        LastOfEachId(work.custom \o work.spdb \o work.gl \o work.np \o work.ha))

Merge ==
    Rewrite("merge", "email",
        LastOfEachId(work.spdb \o work.gl \o work.np \o work.ha \o work.custom))

\* Variant: only rules with other keywords get the keyword.
AddToKeywords ==
    Rewrite("email", "prefixes",
        {IF r.subcategory = "email" /\ r.keywords # {}
         THEN [r EXCEPT !.keywords = @ \cup {"@"}] ELSE r : r \in final})

InjectEmailKeyword ==
    Rewrite("email", "prefixes",
        {IF r.subcategory = "email" THEN [r EXCEPT !.keywords = @ \cup {"@"}] ELSE r :
            r \in final})

\* Variant: the first literals after anchors and opening groups are the head.
FillFirstLiterals ==
    Rewrite("prefixes", "validate",
        {LET re == Kept(r.regex, Tokens \ {"(?#)", "^", "("}) IN
         IF r.prefix = <<>> THEN [r EXCEPT !.prefix = AtLeastTwo(LiteralRun(re))] ELSE r :
            r \in final})

FillPrefixes ==
    Rewrite("prefixes", "validate",
        {LET re == strip_posix_comments(r.regex) IN
         IF r.prefix = <<>> THEN [r EXCEPT !.prefix = extract_literal_prefix[re]] ELSE r :
            r \in final})

Validate ==
    /\ step = "validate"
    /\ IF final # {} /\ \A r \in final : ValidRule(r)
       THEN step' = "limit" /\ UNCHANGED <<work, final, limit>>
       ELSE Ends("failed")
    /\ UNCHANGED <<Files, Input>>

ApplyLimit ==
    Rewrite("limit", "write", IF limit = Nothing THEN final ELSE Truncated(final, limit))

WriteCombined ==
    /\ step = "write"
    /\ \/ combined' = final /\ Ends("done")
       \/ combined' = Torn /\ Ends("failed")
    /\ UNCHANGED <<fixtures, curated, Input>>

Build == \/ LoadExclusions \/ ParseGitleaks \/ ParseSpdb \/ ParseNoseyParker
         \/ WriteFixtures \/ ParseHandAuthored \/ ParseCustom \/ Merge
         \/ InjectEmailKeyword \/ FillPrefixes \/ Validate \/ ApplyLimit
         \/ WriteCombined

\* The build is interrupted between two steps.
Killed == /\ ~Resting
          /\ Ends("failed")
          /\ UNCHANGED <<Files, Input>>

\* A developer changes the files under rules/vendor.
Edit == /\ Resting
        /\ builds < MaxBuilds
        /\ sources' \in DOMAIN Snapshots
        /\ step' = "idle"
        /\ limit' = Nothing
        /\ UNCHANGED <<work, final, Files, builds>>

\* curate-rules reads a whole combined.yaml; it panics over any other.
Curate == /\ Resting
          /\ combined \notin {Missing, Torn}
          /\ curated' \in {Curated(combined), Torn}
          /\ UNCHANGED <<step, limit, work, final, fixtures, combined, Input>>

Next == Start \/ Build \/ Killed \/ Edit \/ Curate

Spec == Init /\ [][Next]_vars

-----------------------------------------------------------------------------
(* Properties *)

Steps == {"exclusions", "gitleaks", "spdb", "np", "fixtures", "ha", "custom", "merge",
          "email", "prefixes", "validate", "limit", "write"}

\* A file of rules that a reader can read.
Whole(file) == file \notin {Missing, Torn}

\* One rule per id, each with the fields it must have; no rule ever has an
\* exclude_regex, and none of the curated ones a literal_prefix.
RulesOK(rules) ==
    /\ \A r \in rules : IsRule(r) /\ r.exclude = Nothing
    /\ Cardinality({r.id : r \in rules}) = Cardinality(rules)

\* The state of a build has its shape, and a process that has ended holds no
\* rules (src/rule_pipeline.rs run).
TypeOK ==
    /\ sources \in DOMAIN Snapshots
    /\ step \in Steps \cup {"idle", "done", "failed"}
    /\ limit \in Limits
    /\ Resting => work = NoWork /\ final = {}
    /\ RulesOK(final)
    /\ Whole(combined) => RulesOK(combined)
    /\ Whole(curated) => /\ RulesOK(curated)
                         /\ \A r \in curated : r.prefix = <<>>
    /\ Whole(fixtures) => \A f \in fixtures : f.examples \cup f.negative # {}
    /\ builds \in 0 .. MaxBuilds

\* What each source has to say, the least important first.
Offers(src) == << SpdbRules(src), GitleaksRules(src), NpRules(src),
                  HandAuthoredRules(src), CustomRules(src) >>

\* A build can parse them all.
Parses(src) ==
    /\ Malformed \notin {src.exclusions, src.gitleaks, src.spdb, src.np, src.ha, src.custom}
    /\ parse_spdb_file(src.spdb) # Nothing

\* Whatever is offered has a place in the two alphabetical orders, and no two
\* names share one.
ASSUME OrderAssumption ==
    /\ \A id \in DOMAIN Rank : Rank[id] \in Nat
    /\ \A id, other \in DOMAIN Rank : Rank[id] = Rank[other] => id = other
    /\ \A name \in DOMAIN SourceRank : SourceRank[name] \in Nat
    /\ \A name, other \in DOMAIN SourceRank :
          SourceRank[name] = SourceRank[other] => name = other
    /\ \A name \in DOMAIN Snapshots : Parses(Snapshots[name]) =>
          \A k \in 1 .. 5 : \A o \in ToSet(Offers(Snapshots[name])[k]) :
              o.id \in DOMAIN Rank /\ o.source \in DOMAIN SourceRank

\* When two sources have a rule of the same id, the ruleset has that of the
\* source that comes later in the order spdb, gitleaks, Nosey Parker,
\* hand-authored, custom, whichever was parsed first; and every rule that is
\* offered and not excluded is there (the merge of run).
HighestSourceWins ==
    step = "write" /\ limit = Nothing =>
        LET offers == Offers(Inputs)
            Offering(id) == {k \in 1 .. 5 : \E i \in DOMAIN offers[k] : offers[k][i].id = id}
            ids == {o.id : o \in UNION {ToSet(offers[k]) : k \in 1 .. 5}}
        IN /\ {r.id : r \in final} = ids
           /\ \A r \in final :
                 \E o \in ToSet(offers[Max(Offering(r.id))]) :
                     /\ o.id = r.id
                     /\ o.regex = r.regex
                     /\ o.replacement = r.replacement
                     /\ o.source = r.source
                     /\ o.keywords \subseteq r.keywords

\* When the ruleset is written the test fixtures are about rules that it has:
\* both files come from the same reading of the vendor files (the step of run
\* that writes the fixtures, long before it writes the rules).
FixturesMatchRules ==
    step = "write" /\ limit = Nothing =>
        \A f \in fixtures : f.id \in {r.id : r \in final}

\* Every e-mail rule a gateway can load, curated or not, has a keyword, so that
\* the combined pre-filter of detection does not drop a body with nothing but
\* addresses (the injection in run; custom rules come without keywords).
EmailRulesHaveTrigger ==
    \A rules \in {combined, curated} :
        Whole(rules) => \A r \in rules : r.subcategory = "email" => "@" \in r.keywords

\* A limited ruleset has as many rules as it may (one at least), and a rule of
\* every source if there is room for one of each (the round-robin of run).
LimitTakesFromEverySource ==
    step = "write" /\ limit # Nothing =>
        LET room == IF limit = 0 THEN 1 ELSE limit
            all  == LastOfEachId(SpdbRules(Inputs) \o GitleaksRules(Inputs)
                                   \o NpRules(Inputs) \o HandAuthoredRules(Inputs)
                                   \o CustomRules(Inputs))
            of(rules) == {r.source : r \in rules}
        IN /\ Cardinality(final) =
                  IF Cardinality(all) < room THEN Cardinality(all) ELSE room
           /\ Cardinality(of(all)) <= room => of(final) = of(all)

\* A Nosey Parker file in which no rule has two ids or two patterns, no line of a
\* pattern's block reads like an id, a pattern or the start of a rule, and no line
\* of an example or a description like an id or a pattern, nor, before those of
\* its own rule, like the start of one.
Plain(lines) ==
    /\ \A i \in ItemLines(lines) : \A c, d \in OwnLines(lines, i) :
          lines[c].key = lines[d].key /\ lines[c].key \in {"id", "pattern"} => c = d
    /\ \A b \in DOMAIN lines : lines[b].key = "pattern" /\ lines[b].val = Block =>
          \A e \in Body(lines, b) : lines[e].key \notin {"item", "id", "pattern"}
    /\ \A i \in DOMAIN lines : lines[i].text =>
          /\ lines[i].key \notin {"id", "pattern"}
          /\ lines[i].key = "item" =>
                \A k \in i + 1 .. Len(lines) :
                    lines[k].key \in {"id", "pattern"} =>
                        \E j \in ItemLines(lines) : i < j /\ j < k

\* The line parser of such files finds the ids and patterns that a YAML parser
\* would, although it takes a line of an example for a name or a new rule
\* (parse_np_file: the phantom has no id or pattern and is dropped).  A rule
\* without one of them, or with an empty one, is dropped as well.
VendorFilesReadAsWritten ==
    step = "fixtures" =>
        LET files == Inputs.np IN
        (\A f \in DOMAIN files : Plain(files[f])) =>
            {[id |-> r.id, pattern |-> r.regex] : r \in ToSet(work.np)} =
            {w \in UNION {WrittenRules(files[f]) : f \in DOMAIN files} :
                w.id \notin Inputs.exclusions \cup {Nothing} /\ w.pattern # <<>>}

\* A literal_prefix is the head of everything the regex matches
\* (extract_literal_prefix promises never to produce a wrong one), unless the
\* rule brings it from a file that is written by hand.  The one exception to
\* that is a pipe outside all groups.
PrefixHeadsEveryMatch ==
    step = "write" =>
        \A r \in final :
            LET re == strip_posix_comments(r.regex)
            IN \/ r.prefix = <<>>
               \/ \E c \in ToSet(HandAuthoredRules(Inputs)) \cup ToSet(CustomRules(Inputs)) :
                     c.id = r.id /\ c.prefix = r.prefix
               \/ OuterPipes(re) # {}
               \/ \A w \in Words[re] : IsPrefix(r.prefix, w)

\* A custom rule may have an exclude_regex: "use in custom.yaml overrides to
\* hard-exclude false-positive patterns" (src/types/rule.rs, on the field).
CustomExclusionKept ==
    step = "write" /\ limit = Nothing /\ Inputs.custom # Missing =>
        \A i \in DOMAIN Inputs.custom :
            \A r \in final :
                r.id = CustomRules(Inputs)[i].id => r.exclude = Inputs.custom[i].exclude
=============================================================================
