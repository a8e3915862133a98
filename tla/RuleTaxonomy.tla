----------------------------- MODULE RuleTaxonomy -----------------------------
(***************************************************************************)
(* The lookup tables of src/rule_pipeline.rs: from the id or the name a    *)
(* vendor gives a pattern to its category and subcategory, from those to   *)
(* the replacement type, and the confidence and severity of a rule.        *)
(*                                                                         *)
(* An id is the sequence of its dot-separated parts: np.aws.1 is           *)
(* <<"np", "aws", "1">>, so that starts_with("np.aws.") is a statement     *)
(* about its first two parts.  Of a regex only one thing matters here,     *)
(* whether it contains one of the some hundred literals (AKIA, ghp_, ...)  *)
(* that mark a vendor's key format.                                        *)
(***************************************************************************)
EXTENDS Naturals, Sequences, TLC

CONSTANT VendorMarked  \* the regexes that contain a vendor's literal

\* The gitleaks ids whose row is not (secret, generic), by subcategory.  The
\* code lists some 200 ids; all the others it lists have the row that an
\* unknown id gets as well.
GlSecretRows ==
    "aws" :> {"aws-amazon-bedrock-api-key-long-lived",
              "aws-amazon-bedrock-api-key-short-lived"} @@
    "anthropic" :> {"anthropic-admin-api-key"} @@
    "openai" :> {"openai-api-key"} @@
    "github" :> {"github-fine-grained-pat"} @@
    "gitlab" :> {"gitlab-ptt", "gitlab-rrt", "gitlab-pat-routable",
                 "gitlab-cicd-job-token", "gitlab-deploy-token",
                 "gitlab-feed-token", "gitlab-incoming-mail-token",
                 "gitlab-kubernetes-agent-token", "gitlab-oauth-app-secret",
                 "gitlab-runner-authentication-token", "gitlab-scim-token",
                 "gitlab-session-cookie"} @@
    "stripe" :> {"stripe-access-token"} @@
    "slack" :> {"slack-app-token", "slack-config-access-token",
                "slack-config-refresh-token", "slack-legacy-bot-token",
                "slack-legacy-token", "slack-legacy-workspace-token",
                "slack-user-token", "slack-webhook-url"} @@
    "jwt" :> {"jwt-base64"} @@
    "private-key" :> {"private-key", "pkcs12-file", "age-secret-key"} @@
    "sendgrid" :> {"sendgrid-api-token"} @@
    "npm" :> {"npm-access-token", "npm"} @@
    "pypi" :> {"pypi-upload-token", "pypi_token-test"} @@
    "telegram" :> {"telegram-bot-api-token"} @@
    "db-conn" :> {"sidekiq-sensitive-url", "Cloudant URL"}

\* (category, subcategory) of a gitleaks rule.
gl_subcategory(name) ==
    IF name = "kubernetes-secret-yaml" THEN <<"infra", "generic">>
    ELSE IF \E sub \in DOMAIN GlSecretRows : name \in GlSecretRows[sub]
         THEN <<"secret", CHOOSE sub \in DOMAIN GlSecretRows :
                              name \in GlSecretRows[sub]>>
         ELSE <<"secret", "generic">>

\* The families np.<family>.<n> that np_subcategory knows.
NpSecretFamilies ==
    [f \in {"aws", "anthropic", "github", "gitlab", "slack", "jwt", "stripe",
            "openai"} |-> f] @@
    [f \in {"postgres", "mongo", "odbc"} |-> "db-conn"] @@
    "pem" :> "private-key"

\* (category, subcategory) of a Nosey Parker rule.
np_subcategory(id) ==
    LET family == IF Len(id) >= 3 /\ id[1] = "np" THEN id[2] ELSE "" IN
    IF family = "http" THEN <<"infra", "url-cred">>
    ELSE IF family \in DOMAIN NpSecretFamilies
         THEN <<"secret", NpSecretFamilies[family]>>
         ELSE <<"secret", "generic">>

\* The nine patterns of pii-stable.yml that are let in, and the subcategory
\* that the words in their names give them.  The same function's branch for
\* secrets is never taken: the only file read is the PII one.
SpdbAllowList ==
    "ssn_number - 3" :> "ssn" @@ "emails" :> "email" @@
    "phones_with_exts" :> "phone" @@ "visa_credit_card" :> "cc" @@
    "american_express_credit-card" :> "cc" @@ "MasterCard" :> "cc" @@
    "Discover" :> "cc" @@ "JCB" :> "cc" @@ "iban_numbers" :> "iban"

\* slugify of those names: lower case, with a hyphen for every run of other
\* characters than letters and digits.
slugify(name) ==
    CASE name = "ssn_number - 3" -> "ssn-number-3"
      [] name = "phones_with_exts" -> "phones-with-exts"
      [] name = "visa_credit_card" -> "visa-credit-card"
      [] name = "american_express_credit-card" -> "american-express-credit-card"
      [] name = "MasterCard" -> "mastercard"
      [] name = "Discover" -> "discover"
      [] name = "JCB" -> "jcb"
      [] name = "iban_numbers" -> "iban-numbers"
      [] OTHER -> name

spdb_subcategory(name) ==
    IF name \in DOMAIN SpdbAllowList THEN SpdbAllowList[name] ELSE "generic"

\* A gitleaks regex with a vendor's literal in it is trusted; every other one,
\* anchored on a context or not, is not.
infer_confidence_gitleaks(regex) ==
    IF regex \in VendorMarked THEN "high" ELSE "medium"

infer_confidence_np(categories) ==
    IF "fuzzy" \in categories THEN "medium" ELSE "high"

derive_severity(confidence) == IF confidence = "high" THEN "high" ELSE "medium"

\* The table that pipeline and gateway share.
derive_replacement_type(cat, sub) ==
    CASE cat = "secret" /\ sub = "aws" -> "faker_aws_key"
      [] cat = "secret" /\ sub = "github" -> "faker_github_pat"
      [] cat = "secret" /\ sub = "jwt" -> "faker_jwt"
      [] cat = "secret" /\ sub = "db-conn" -> "faker_db_conn"
      [] cat \in {"secret", "infra"} /\ sub = "url-cred" -> "faker_url_cred"
      [] cat = "secret" /\ sub \in {"gitlab", "stripe", "sendgrid", "slack",
             "openai", "anthropic", "private-key", "npm", "pypi", "telegram",
             "generic"} -> "faker_api_key"
      [] cat = "pii" /\ sub = "email" -> "faker_email"
      [] cat = "pii" /\ sub = "phone" -> "faker_phone"
      [] cat = "pii" /\ sub = "ssn" -> "faker_ssn"
      [] cat = "pii" /\ sub = "cc" -> "faker_cc_luhn"
      [] cat = "pii" /\ sub = "iban" -> "faker_iban"
      [] cat = "infra" /\ sub = "ipv4" -> "passthrough"
      [] cat = "infra" /\ sub = "uuid" -> "faker_uuid"
      [] OTHER -> "generic_random"

\* What a rule may say; everything else stops the build.
ValidCategories == {"secret", "pii", "infra"}
ValidReplacementTypes ==
    {"faker_email", "faker_phone", "faker_ssn", "faker_cc_luhn", "faker_iban",
     "faker_uuid", "faker_ipv4", "faker_aws_key", "faker_github_pat",
     "faker_jwt", "faker_api_key", "faker_db_conn", "faker_url_cred",
     "fpe_numeric", "generic_random", "passthrough"}
=============================================================================
