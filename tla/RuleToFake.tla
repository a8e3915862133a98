------------------------------ MODULE RuleToFake ------------------------------
(***************************************************************************)
(* A rule's way from the vendor files into a body: the build of            *)
(* RulePipeline, the gateway that loads its result, and the fakes of       *)
(* FakeValues that its replacers make for a match of a loaded rule.        *)
(*                                                                         *)
(* rules/combined.yaml is embedded when the gateway is compiled, torn or   *)
(* not.  A gateway reads the embedded text or the file that                *)
(* BLEEP_RULES_FILE names, once, at the first use of the rules, and panics *)
(* over one it cannot read or parse.  What a gateway does touches none of  *)
(* the files of a build: it is modelled between builds only.               *)
(***************************************************************************)
EXTENDS RulePipeline, FakeValues

CONSTANTS
    Originals    \* what a rule may match, by replacement type

TextTypes == {"faker_email", "faker_ssn", "faker_ipv4", "faker_aws_key",
              "faker_github_pat", "faker_jwt", "faker_uuid", "faker_api_key",
              "generic_random", "fpe_numeric"}

\* A connection string or a URL; only a URL has an authority.
IsConnection(o) ==
    /\ DOMAIN o = {"jdbc", "tns", "scheme", "semicolons", "driver", "parses", "fields"}
    /\ IsSeq(o.fields)
    /\ \A i \in DOMAIN o.fields :
          /\ DOMAIN o.fields[i] = {"key", "val"}
          /\ o.fields[i].key \in Userinfo => o.scheme /\ ~o.tns

\* There is a replacer for every type.  Of a card number the digits are taken, of
\* an IBAN the country and the length, of a text the characters.
ASSUME OriginalsAssumption ==
    /\ DOMAIN Originals = ValidReplacementTypes \ {"passthrough"}
    /\ \A type \in TextTypes \cup {"faker_phone"} : \A o \in Originals[type] : IsSeq(o)
    /\ \A o \in Originals["faker_db_conn"] \cup Originals["faker_url_cred"] : IsConnection(o)
    /\ Originals["faker_cc_luhn"] \subseteq Seq(0 .. 9)
    /\ \A o \in Originals["faker_iban"] :
          o.length \in Nat /\ (o.country = <<>> \/ o.country \in [1 .. 2 -> 10 .. 35])

VARIABLES
    embedded,    \* EMBEDDED_RULES_YAML
    loaded,      \* NORMALIZED_RULES: its rules, NotLoaded or Panicked
    redaction    \* the match that the last step replaced, with its fake

NotLoaded == Nothing
Panicked  == Malformed

allVars == <<vars, embedded, loaded, redaction>>

\* What serde accepts in the enums of types/rule.rs; a missing field has a
\* default.
Confidences   == {"high", "medium", "low"}
ChecksumTypes == {Nothing, "luhn"}

Deserializes(r) == r.confidence \in Confidences /\ r.checksum \in ChecksumTypes

Loadable(rules) == Whole(rules) /\ \A r \in rules : Deserializes(r)

\* RULES compiles what NORMALIZED_RULES parsed, and panics over a regex that
\* does not compile; what passed Validate compiles.
Compiled(rules) == \A r \in rules : Balanced(strip_posix_comments(r.regex))

DeployInit == /\ Init
              /\ embedded = Missing
              /\ loaded = NotLoaded
              /\ redaction = Nothing

\* cargo build, with whatever combined.yaml is there.
Compile == /\ Resting
           /\ builds = MaxBuilds
           /\ combined # Missing
           /\ embedded' = combined
           /\ loaded' = NotLoaded
           /\ redaction' = Nothing
           /\ UNCHANGED vars

\* A gateway is started and uses its rules.
StartGateway ==
    /\ Resting
    /\ embedded # Missing
    /\ \E rules \in {embedded, combined, curated} :
          loaded' = IF Loadable(rules) /\ Compiled(rules) THEN rules ELSE Panicked
    /\ redaction' = Nothing
    /\ UNCHANGED <<vars, embedded>>

\* apply: a match of a rule is replaced.  One is as good as many: the next
\* follows a step of something else.
Redact ==
    /\ Resting
    /\ redaction = Nothing
    /\ loaded \notin {NotLoaded, Panicked}
    /\ \E r \in loaded, visible \in BOOLEAN :
          /\ r.replacement # "passthrough"
          /\ \E original \in Originals[r.replacement] :
                \E fake \in generate(r.replacement, original, r.prefix, visible) :
                    redaction' = [type |-> r.replacement, prefix |-> r.prefix,
                                  visible |-> visible, original |-> original,
                                  fake |-> fake]
    /\ UNCHANGED <<vars, embedded, loaded>>

DeployNext == \/ Next /\ redaction' = Nothing /\ UNCHANGED <<embedded, loaded>>
              \/ Compile
              \/ StartGateway
              \/ Redact

DeploySpec == DeployInit /\ [][DeployNext]_allVars

-----------------------------------------------------------------------------
(* Properties *)

\* The gateway has the rules of some whole file, or none.
DeployTypeOK ==
    /\ TypeOK
    /\ embedded \in {Missing, Torn} \/ RulesOK(embedded)
    /\ loaded \in {NotLoaded, Panicked} \/ RulesOK(loaded)
    /\ redaction # Nothing => loaded \notin {NotLoaded, Panicked}

\* The id and the two fields of every rule of a source whose confidence the build
\* copies: the patterns-db and the hand-written files.
Fields(r) == [id |-> r.id, confidence |-> r.confidence, checksum |-> r.checksum]

CopiedFields ==
    {Fields(o) : o \in UNION {ToSet(Offers(Snapshots[c[1]])[c[2]]) : c \in
        {name \in DOMAIN Snapshots : Parses(Snapshots[name])} \X {1, 4, 5}}}

\* What a build checks is all that a gateway relies on, but for two fields: the
\* rules of a build that ended well compile and have a category and a
\* replacement that a gateway knows, and a rule that keeps them from loading has
\* a confidence or a checksum that the build has copied.  It treats both as text
\* (the Strings of its NormalizedRule, the enums of src/types/rule.rs).
OnlyUncheckedFieldsStopTheGateway ==
    \A rules \in {combined, curated, embedded} :
        Whole(rules) =>
            /\ Compiled(rules)
            /\ \A r \in rules :
                  /\ r.category \in {"secret", "pii", "infra"}
                  /\ r.replacement \in DOMAIN Originals \cup {"passthrough"}
                  /\ Deserializes(r) \/ Fields(r) \in CopiedFields

\* A realistic fake of an API key or of a shapeless secret begins with the
\* rule's literal prefix whenever the match does and has more to it, so that
\* the rule finds the fake again; and it is as long as the match
\* (with_literal_prefix).
PrefixKept ==
    redaction # Nothing /\ redaction.type \in {"faker_api_key", "generic_random"} =>
        \/ redaction.visible
        \/ redaction.original = <<>>
        \/ /\ Len(redaction.fake) = Len(redaction.original)
           /\ IsStrictPrefix(redaction.prefix, redaction.original) =>
                  IsPrefix(redaction.prefix, redaction.fake)

\* Of the match of a secret nothing that could identify it is in its fake: no
\* letter or digit after the rule's prefix, no digit of a phone number, no user
\* name or password of a connection string in any of the formats that are told
\* apart (replacers.rs).  The exception is a URL that does not parse, which
\* visible markers leave as it is.
NoSecretSurvives ==
    redaction # Nothing =>
        LET original == redaction.original
            fake == redaction.fake
            type == redaction.type
            kept == IF type \in {"faker_api_key", "generic_random"} /\ ~redaction.visible
                       /\ IsStrictPrefix(redaction.prefix, original)
                    THEN Len(redaction.prefix) ELSE 0
        IN /\ type \in TextTypes =>
                  ToSet(SubSeq(fake, kept + 1, Len(fake))) \cap Alnum = {}
           /\ type = "faker_phone" => ToSet(fake) \cap Digits = {}
           /\ type = "faker_db_conn" =>
                  \A i \in DOMAIN fake.fields :
                      fake.fields[i].key \in {"user", "password", "@user", "@password"} =>
                          fake.fields[i].val = Fresh
           /\ type = "faker_url_cred" /\ (original.parses \/ ~redaction.visible) =>
                  \A i \in DOMAIN fake.fields :
                      fake.fields[i].key \in Userinfo => fake.fields[i].val = Fresh

\* A fake card number passes the Luhn check that detection makes on a match, and
\* has the length of a card number; a fake IBAN has the check digits of
\* ISO 13616 (luhn_check_digit, iban_check_digits).  Detection would not take a
\* fake for what it stands for otherwise.
CheckDigitsHold ==
    redaction # Nothing =>
        /\ redaction.type = "faker_cc_luhn" =>
              /\ Len(redaction.fake) \in 13 .. 19
              /\ luhn_valid(redaction.fake)
        /\ redaction.type = "faker_iban" /\ ~redaction.visible =>
              /\ iban_valid(redaction.fake)
              /\ Len(redaction.fake.bban) \in 11 .. 30
=============================================================================
