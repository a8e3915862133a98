------------------------------ MODULE FakeValues ------------------------------
(***************************************************************************)
(* The generators of src/replacement/replacers.rs: what may stand in the   *)
(* body in the place of a match.  A generator draws at random, so each is  *)
(* the set of the fakes it may return; `visible' is BLEEP_VISIBLE_MARKERS. *)
(*                                                                         *)
(* A fake is described by where its characters come from.  A text is a     *)
(* sequence of characters or fixed words, and Fresh stands for a character *)
(* drawn at random, whatever the alphabet.  A card number is a sequence of *)
(* digits and an IBAN of values 0..35, drawn from `Rolls', because their   *)
(* check digits are computed from the draws.  A connection string or a URL *)
(* is a record of what its classification looks at, with the sequence of   *)
(* its fields, a key and a value each; the parts of an authority have the  *)
(* keys "@user", "@password" and "@host".                                  *)
(***************************************************************************)
EXTENDS Integers, SequencesExt

CONSTANTS Upper, Lower, Digits, \* the characters, by class; all others separate
          Fresh,                \* a character drawn at random
          IbanLength,           \* the length of an IBAN, by country (table of 67)
          Rolls(_, _)           \* bound: the draws of n values below a base

Alnum == Upper \cup Lower \cup Digits

AwsPrefixes == {"AKIA", "ASIA", "AROA", "AGPA", "AIDA", "AIPA", "ANPA", "ANVA", "A3T"}
GithubHeads == {"ghp_", "gho_", "ghu_", "ghs_", "ghr_"}

\* What the code itself puts into a fake.
FixedWords == AwsPrefixes \cup GithubHeads \cup
    {"a name", "@", "example.com", "example", "+1-555-010-", "+1-555-010-0000", "000-00-",
     "a 9", "-", "192.0.2.", "198.51.100.", "203.0.113.", "AKIABLEEP", "ghp_BLEEP",
     "github_pat_", "_", "header", ".", "fixed claims", "fresh claims", "uuid", "a 0"}

\* A draw has the values it was asked for (no more than an IBAN has), the table
\* only lengths that an IBAN can have, and what is drawn or fixed is told apart
\* from a letter or digit of the match.
ASSUME FakeValuesAssumption ==
    /\ (FixedWords \cup {Fresh}) \cap Alnum = {}
    /\ \A n \in 0 .. 30, base \in {10, 36} : Rolls(n, base) \subseteq [1 .. n -> 0 .. base - 1]
    /\ \A country \in DOMAIN IbanLength : IbanLength[country] \in 15 .. 34

Fresh_(n) == [i \in 1 .. n |-> Fresh]

Clamp(x, low, high) == IF x < low THEN low ELSE IF x > high THEN high ELSE x

-----------------------------------------------------------------------------
(* Text *)

\* As many random characters as the match has, separators included.
fake_generic_random(original) == Fresh_(Len(original))

\* Random letters and digits in their places; a match of separators alone
\* would come back as it is.
fake_api_key(original, visible) ==
    IF visible \/ original = <<>> THEN Fresh_(32)
    ELSE [i \in DOMAIN original |->
             IF original[i] \in Alnum THEN Fresh ELSE original[i]]

\* Variant: the whole match is drawn anew.
without_literal_prefix(original, prefix, visible) == <<>>

\* What of the match stays in front: the rule's literal prefix, if the match has
\* it and more.
with_literal_prefix(original, prefix, visible) ==
    IF ~visible /\ prefix # <<>> /\ IsStrictPrefix(prefix, original) THEN prefix ELSE <<>>

\* A handle about as long as the match's, in one of the reserved domains.
fake_email(original, visible) ==
    LET handle == SelectInSeq(original, LAMBDA c : c = "@") IN
    IF visible THEN <<"a name", "@", "example.com">>
    ELSE Fresh_(Clamp(IF handle = 0 THEN Len(original) ELSE handle - 1, 5, 24))
             \o <<"@", "example">>

fake_phone(original, visible) ==
    CASE visible -> <<"+1-555-010-">> \o Fresh_(4)
      [] ~visible /\ original = <<>> -> <<"+1-555-010-0000">>
      [] OTHER -> [i \in DOMAIN original |->
                      IF original[i] \in Digits THEN Fresh ELSE original[i]]

fake_ssn(visible) == IF visible THEN <<"000-00-">> \o Fresh_(4)
                     ELSE <<"a 9">> \o Fresh_(2) \o <<"-">> \o Fresh_(2) \o <<"-">> \o Fresh_(4)

fake_ipv4(visible) ==
    IF visible THEN {<<"203.0.113.", Fresh>>}
    ELSE {<<net, Fresh>> : net \in {"192.0.2.", "198.51.100.", "203.0.113."}}

\* Twenty characters, the first three or four of them those of the match.
fake_aws_key(original, visible) ==
    LET prefix == IF original # <<>> /\ original[1] \in AwsPrefixes
                  THEN original[1] ELSE "AKIA"
    IN IF visible THEN <<"AKIABLEEP">> \o Fresh_(11)
       ELSE <<prefix>> \o Fresh_(IF prefix = "A3T" THEN 17 ELSE 16)

fake_github_pat(original, visible) ==
    LET head == IF original = <<>> THEN "" ELSE original[1] IN
    CASE visible -> <<"ghp_BLEEP">> \o Fresh_(31)
      [] ~visible /\ head = "github_pat_" -> <<head>> \o Fresh_(22) \o <<"_">> \o Fresh_(82)
      [] ~visible /\ head \in GithubHeads -> <<head>> \o Fresh_(36)
      [] OTHER -> <<"ghp_">> \o Fresh_(36)

\* A header and claims of its own and a random signature.
fake_jwt(visible) ==
    <<"header", ".", IF visible THEN "fixed claims" ELSE "fresh claims", ".">> \o Fresh_(43)

fake_uuid == <<"uuid">> \o Fresh_(32)

\* The digits encrypted under a fixed key: one fake for a match, not one of
\* many.  Too few digits for FF1 are drawn anew.
fake_fpe_numeric(original) ==
    LET digits == Cardinality({i \in DOMAIN original : original[i] \in Digits}) IN
    CASE digits = 0 -> <<"a 0">>
      [] digits # 0 /\ digits < 7 -> fake_generic_random(original)
      [] OTHER -> Fresh_(digits)

-----------------------------------------------------------------------------
(* Numbers with check digits *)

SeqSum(s) == FoldLeft(LAMBDA a, b : a + b, 0, s)

\* Twice a digit, less 9 if that has two digits.
Doubled(d) == IF 2 * d > 9 THEN 2 * d - 9 ELSE 2 * d

\* Variant: the last digit is not doubled but the one before it.
check_digit_from_second(digits) ==
    LET n == Len(digits)
        sum == SeqSum([i \in 1 .. n |-> IF (n - i) % 2 = 1 THEN Doubled(digits[i])
                                        ELSE digits[i]])
    IN (10 - (sum % 10)) % 10

\* The digits, every other one from the right doubled, the last one first.
luhn_check_digit(digits) ==
    LET n == Len(digits)
        sum == SeqSum([i \in 1 .. n |-> IF (n - i) % 2 = 0 THEN Doubled(digits[i])
                                        ELSE digits[i]])
    IN (10 - (sum % 10)) % 10

\* detection::luhn_valid, written apart from it: here the last digit is the
\* check digit and the one before it is doubled.
luhn_valid(digits) ==
    LET n == Len(digits) IN
    /\ n >= 2
    /\ SeqSum([i \in 1 .. n |-> IF (n - i) % 2 = 1 THEN Doubled(digits[i])
                                ELSE digits[i]]) % 10 = 0

WithCheckDigit(digits) == Append(digits, luhn_check_digit(digits))

\* The length, between 13 and 19, and the first four digits are the match's.
fake_cc_luhn(original, visible) ==
    LET len == Clamp(Len(original), 13, 19)
        kept == IF Len(original) < 4 THEN original ELSE SubSeq(original, 1, 4)
        head == CASE visible -> <<4, 0, 0, 0, 0, 0>>
                  [] ~visible /\ kept = <<>> -> <<4>>
                  [] OTHER -> kept
    IN {WithCheckDigit(head \o body) :
            body \in Rolls((IF visible THEN 15 ELSE len - 1) - Len(head), 10)}

\* (rem * 10 + digit) % 97 over the decimal digits of the values.
Mod97(values) == FoldLeft(LAMBDA rem, v : (rem * (IF v >= 10 THEN 100 ELSE 10) + v) % 97,
                          0, values)

iban_check_digits(country, bban) == 98 - Mod97(bban \o country \o <<0, 0>>)

\* An IBAN is a country (two letters, A = 10), two check digits and a BBAN.  A
\* match that does not begin with two capitals counts as British.
GB == <<16, 11>>

fake_iban(original) ==
    LET country == IF original.country = <<>> THEN GB ELSE original.country
        length  == IF country \in DOMAIN IbanLength THEN IbanLength[country]
                   ELSE Clamp(original.length, 15, 34)
    IN {[country |-> country, check |-> iban_check_digits(country, bban),
         bban |-> bban] : bban \in Rolls(length - 4, 36)}

\* The rule of ISO 13616: with the first four characters at the end, the
\* number leaves the remainder 1.
iban_valid(iban) ==
    /\ iban.check \in 2 .. 98
    /\ Mod97(iban.bban \o iban.country \o <<iban.check \div 10, iban.check % 10>>) = 1

-----------------------------------------------------------------------------
(* Connection strings and URLs *)

Userinfo == {"@user", "@password"}

\* The fields with the values of some keys drawn anew.
Redrawn(o, keys) ==
    [o EXCEPT !.fields = [i \in DOMAIN @ |->
        IF @[i].key \in keys THEN [@[i] EXCEPT !.val = Fresh] ELSE @[i]]]

\* A string of which nothing is left.
Fabricated(o) == [o EXCEPT !.fields = <<>>]

\* Only the credentials of the authority.  A URL that does not parse is
\* replaced as a whole, but with visible markers it is returned as it is.
fake_url_cred(o, visible) ==
    IF o.parses THEN Redrawn(o, Userinfo) ELSE IF visible THEN o ELSE Fabricated(o)

classify_db_conn(o) ==
    CASE o.jdbc -> "Jdbc"
      [] ~o.jdbc /\ o.tns -> "OracleTns"
      [] ~o.jdbc /\ ~o.tns /\ o.scheme -> "Url"
      [] OTHER -> IF o.semicolons /\ o.fields # <<>>
                  THEN IF o.driver THEN "Odbc" ELSE "AdoNet"
                  ELSE IF Len(o.fields) >= 2 THEN "LibpqKv" ELSE "Unknown"

\* Variant: the pairs of the query stay as they are.
fake_db_url_authority(o) ==
    IF o.parses THEN Redrawn(o, Userinfo \cup {"@host"}) ELSE Fabricated(o)

\* Userinfo and host, and the credentials among the query's pairs.
fake_db_url(o) ==
    IF o.parses
    THEN Redrawn(o, Userinfo \cup {"@host", "password", "pwd", "pass", "user",
                                   "username", "uid"})
    ELSE Fabricated(o)

fake_db_adonet(o) ==
    Redrawn(o, {"password", "pwd", "pass", "user id", "uid", "user", "username",
                "userid", "server", "host", "data source", "address", "addr",
                "network address", "server name", "database", "initial catalog"})

fake_db_libpq(o) ==
    Redrawn(o, {"password", "passfile", "host", "hostaddr", "user", "dbname"})

fake_db_oracle(o) == Redrawn(o, {"host", "user", "user_id", "username", "password"})

\* The string after "jdbc:".
fake_db_jdbc(o) ==
    IF o.scheme THEN fake_db_url(o)
    ELSE IF o.semicolons /\ o.fields # <<>> THEN fake_db_adonet(o) ELSE Fabricated(o)

fake_db_conn(o, visible) ==
    LET format == classify_db_conn(o) IN
    CASE visible \/ format = "Unknown" -> Fabricated(o)
      [] ~visible /\ format = "Url" -> fake_db_url(o)
      [] ~visible /\ format = "Jdbc" -> fake_db_jdbc(o)
      [] ~visible /\ format \in {"AdoNet", "Odbc"} -> fake_db_adonet(o)
      [] ~visible /\ format = "LibpqKv" -> fake_db_libpq(o)
      [] ~visible /\ format = "OracleTns" -> fake_db_oracle(o)

-----------------------------------------------------------------------------

\* The fakes for a match of a rule with this replacement type and prefix.
\* passthrough never gets here: apply skips such a match.
generate(type, original, prefix, visible) ==
    LET head == with_literal_prefix(original, prefix, visible)
        rest == SubSeq(original, Len(head) + 1, Len(original))
    IN
    CASE type = "faker_email" -> {fake_email(original, visible)}
      [] type = "faker_phone" -> {fake_phone(original, visible)}
      [] type = "faker_ssn" -> {fake_ssn(visible)}
      [] type = "faker_cc_luhn" -> fake_cc_luhn(original, visible)
      [] type = "faker_iban" ->
            IF visible THEN {<<"GB00BLEEP0000000000000">>} ELSE fake_iban(original)
      [] type = "faker_uuid" -> {fake_uuid}
      [] type = "faker_ipv4" -> fake_ipv4(visible)
      [] type = "faker_aws_key" -> {fake_aws_key(original, visible)}
      [] type = "faker_github_pat" -> {fake_github_pat(original, visible)}
      [] type = "faker_jwt" -> {fake_jwt(visible)}
      [] type = "faker_api_key" -> {head \o fake_api_key(rest, visible)}
      [] type = "generic_random" -> {head \o fake_generic_random(rest)}
      [] type = "fpe_numeric" -> {fake_fpe_numeric(original)}
      [] type = "faker_db_conn" -> {fake_db_conn(original, visible)}
      [] type = "faker_url_cred" -> {fake_url_cred(original, visible)}
=============================================================================
