----------------------------- MODULE MCRuleToFake -----------------------------
(***************************************************************************)
(* RuleToFake on small vendor files.                                       *)
(***************************************************************************)
EXTENDS RuleToFake

\* Regexes with a head, with a common head of two alternatives, with a pipe
\* outside all groups, without a head, with a head that ends early, and one that
\* does not compile.
Sk     == <<"^", "s", "k", "-", "[]", "+">>
Common == <<"(", "k", "k", "s", "|", "k", "k", "-", ")", "(?#)", "[]">>
Either == <<"k", "k", "|", "s", "s">>
Class  == <<"(?", "s", "k", ")", "[]", "+", "@", "[]">>
Short  == <<"^", "k", "k", "-", "?", "[]">>
Broken == <<"(", "k", "k">>

\* The extraction is right about every small regex with groups: what it finds is
\* the head of all words.
SmallRegexes == UNION {[1 .. l -> {"k", "s", "[]", "(", "|", ")", "?", "+"}] : l \in 0 .. 5}

ASSUME ExtractionIsSound ==
    \A re \in SmallRegexes :
        OuterPipes(re) = {} =>
            \A w \in Words[re] : IsPrefix(extract_literal_prefix[re], w)

Key(k, v)  == [key |-> k, val |-> v, deep |-> FALSE, text |-> FALSE]
Deep(v)    == [key |-> "plain", val |-> v, deep |-> TRUE, text |-> FALSE]
Text(k, v) == [key |-> k, val |-> v, deep |-> TRUE, text |-> TRUE]

\* A text, as tokens.
Prince == <<"[]">>

\* A Nosey Parker file with two rules, one of them with a pattern block, and one
\* whose example reads like the start of a rule.
AwsFile ==
    << Key("plain", ""), Key("item", "AWS"), Key("id", <<"np", "aws", "1">>),
       Key("pattern", Sk), Key("references", ""), Key("element", "https"),
       Key("categories", ""), Key("element", "api"), Key("examples", ""),
       Key("element", "e1"), Key("element", Block), Text("item", "phantom"),
       Text("plain", <<>>) >>

StripeFile ==
    << Key("item", "Stripe"), Key("pattern", Block), Deep(<<"(", "k", "k", ")">>),
       Deep(<<"[]">>), Key("id", <<"np", "stripe", "1">>),
       Key("negative_examples", ""), Key("element", "e2"), Key("colon", ""),
       Key("element", "e3"),
       Key("item", "Http"), Key("id", <<"np", "http", "1">>), Key("pattern", Short),
       Key("categories", ""), Key("element", "fuzzy"), Key("examples", ""),
       Key("element", "e4"), Text("name", Prince) >>

SpdbFile ==
    << Key("name", "emails"), Key("regex", Class), Key("confidence", "high"),
       Key("name", "JCB"), Key("regex", Either),
       Key("name", "visa_credit_card"), Key("confidence", "low"),
       Key("regex", Either), Key("name", "iban_numbers"),
       Key("regex", Class), Key("confidence", "medium"),
       Key("name", "bitcoin"), Key("regex", Class), Key("confidence", "high"),
       Key("name", "emails"), Key("regex", Sk), Key("confidence", "low") >>

Gitleaks ==
    << [id |-> "openai-api-key", regex |-> Sk, keywords |-> {"sk"}],
       [id |-> "sidekiq-sensitive-url", regex |-> Common, keywords |-> {"kk"}],
       [id |-> "pkcs12-file", regex |-> Nothing, keywords |-> {}] >>

Hand(id, category, subcategory, confidence, regex, replacement) ==
    [id |-> id, source |-> "hand-authored", category |-> category,
     subcategory |-> subcategory, confidence |-> confidence, severity |-> "high",
     regex |-> regex, keywords |-> {}, checksum |-> Nothing,
     replacement |-> replacement, prefix |-> <<>>, exclude |-> Nothing]

HandAuthored == << Hand(<<"pii", "uk-nin">>, "pii", "uk-nin", "high", Either,
                        "generic_random"),
                   Hand(<<"ha", "mail">>, "pii", "email", "medium", Class, "faker_email") >>

\* The override of rules/custom.yaml, one more that replaces a Nosey Parker rule
\* and brings its prefix, and a new one.
Custom ==
    << [Hand(<<"spdb", "emails">>, "pii", "email", "high", Sk, "faker_email")
          EXCEPT !.exclude = "system addresses", !.source = "secrets-patterns-db"],
       [Hand(<<"np", "aws", "1">>, "secret", "aws", "high", Class, "faker_aws_key")
          EXCEPT !.prefix = <<"s", "s">>],
       [Hand(<<"db">>, "secret", "db-conn", "high", Common, "faker_db_conn")
          EXCEPT !.source = ""] >>

Tree == [exclusions |-> {<<"np", "stripe", "1">>}, gitleaks |-> Gitleaks,
         spdb |-> SpdbFile, np |-> <<AwsFile, StripeFile>>, ha |-> HandAuthored,
         custom |-> Custom]

MCSnapshots ==
    "as it is" :> Tree @@
    "no custom rules, other exclusions" :>
        [Tree EXCEPT !.custom = Missing,
                     !.exclusions = {<<"openai-api-key">>, <<"JCB">>, <<"emails">>}] @@
    "a category, a confidence, a regex" :>
        [Tree EXCEPT !.custom = <<Hand(<<"x">>, "secrets", "generic", "high", Sk,
                                       "faker_api_key")>>] @@
    "confidence" :>
        [Tree EXCEPT !.ha = Append(@, Hand(<<"ha", "c">>, "infra", "ipv4", "certain",
                                           Sk, "passthrough")),
                     !.spdb = @ \o << Key("confidence", "some") >>] @@
    "regex" :>
        [Tree EXCEPT !.ha = Append(@, Hand(<<"ha", "c">>, "infra", "uuid", "low",
                                           Broken, "faker_uuid"))] @@
    "malformed" :> [Tree EXCEPT !.custom = Malformed]

\* The ids in their order.
Ids == << <<"custom", "db">>, <<"custom", "x">>, <<"gl", "openai-api-key">>,
          <<"gl", "sidekiq-sensitive-url">>, <<"ha", "c">>, <<"ha", "mail">>,
          <<"ha", "pii", "uk-nin">>, <<"np", "aws", "1">>, <<"np", "http", "1">>,
          <<"np", "stripe", "1">>, <<"spdb", "emails">>, <<"spdb", "emails", "2">>,
          <<"spdb", "iban-numbers">>, <<"spdb", "jcb">>, <<"spdb", "visa-credit-card">> >>

MCRank == [id \in ToSet(Ids) |-> CHOOSE i \in DOMAIN Ids : Ids[i] = id]

MCSourceRank == "custom" :> 1 @@ "gitleaks" :> 2 @@ "hand-authored" :> 3 @@
                "nosey-parker" :> 4 @@ "secrets-patterns-db" :> 5

MCVendorScore == <<"np", "stripe", "1">> :> 0 @@ <<"gl", "openai-api-key">> :> 1

MCRequiredHa == {<<"ha", "pii", "uk-nin">>}
MCSpaced     == {<<"gl", "Cloudant URL">>}
MCLimits     == {Nothing, 0, 6}
MCVendorMarked == {Sk}
MCLiterals   == {"s", "k", "-", "@"}
MCOthers     == {"[]"}

-----------------------------------------------------------------------------

MCUpper == {"A", "B"}
MCLower == {"s", "k", "x"}
MCDigits == {"1", "2", "3"}

MCIbanLength == <<16, 11>> :> 22 @@ <<23, 24>> :> 15

\* The draws: all digits the same, and running up or down.
MCRolls(len, base) ==
    {[i \in 1 .. len |-> (k * i + c) % base] : k \in {0, 1, base - 1}, c \in {0, 7}}

Conn(kind, parses, fields) ==
    [jdbc |-> kind \in {"jdbc-url", "jdbc-kv", "jdbc"}, tns |-> kind = "tns",
     scheme |-> kind \in {"url", "jdbc-url"},
     semicolons |-> kind \in {"ado", "odbc", "jdbc-kv"}, driver |-> kind = "odbc",
     parses |-> parses, fields |-> [i \in DOMAIN fields |-> [key |-> fields[i], val |-> "v"]]]

Connections ==
    {Conn("url", p, <<"@user", "@password", "@host", "password", "sslmode">>) : p \in BOOLEAN} \cup
    {Conn("jdbc-url", p, <<"@host", "user", "password">>) : p \in BOOLEAN} \cup
    {Conn(kind, FALSE, <<"server", "user", "password", "encrypt">>) :
        kind \in {"ado", "odbc", "jdbc-kv", "tns", "kv"}} \cup
    {Conn("jdbc", FALSE, <<"@host">>), Conn("kv", FALSE, <<"password">>)}

Texts == {<<>>, <<"s", "k", "-", "x", "1">>, <<"s", "k", "-">>, <<"k", "k", "A", "@", "s">>,
          <<"k", "k", "1", "-", "x">>, <<"1", "2", "-", "3">>}

MCOriginals ==
    [t \in {"faker_api_key", "generic_random", "faker_email", "faker_phone", "faker_ssn",
            "faker_ipv4", "faker_jwt", "faker_uuid", "fpe_numeric"} |-> Texts] @@
    "faker_aws_key" :> {<<"AKIA", "A", "1">>, <<"A3T", "1">>, <<"x", "A", 1>>} @@
    "faker_github_pat" :> {<<"ghp_", "x">>, <<"github_pat_", "x">>, <<"x">>} @@
    "faker_cc_luhn" :> {[i \in 1 .. len |-> i % 10] : len \in {0, 3, 13, 16, 20}} @@
    "faker_iban" :> {[country |-> c, length |-> l] :
                        c \in {<<16, 11>>, <<23, 24>>, <<35, 35>>, <<>>}, l \in {3, 20, 40}} @@
    "faker_db_conn" :> Connections @@
    "faker_url_cred" :> {c \in Connections : c.scheme}

=============================================================================
