----------------------------- MODULE MCGateway -----------------------------
(***************************************************************************)
(* Small instances of Gateway.                                             *)
(***************************************************************************)
EXTENDS Gateway

CONSTANTS o1, o2, f1, f2, f3    \* model values
CONSTANT MaxSecrets             \* longest list of redactions

DrawnPairs == {p \in [fake : Fake, original : Original] : p.fake \in Gen[p.original]}
AllBatches == UNION {[1..n -> DrawnPairs] : n \in 1..MaxSecrets}

Sends(how, secrets) == [route |-> how, secrets |-> secrets]

\* Two draws for o1 and one for o2.
CleanGen    == (o1 :> {f1, f2}) @@ (o2 :> {f3})
CleanBodies == {Sends("whole", <<o1, o1>>), Sends("fields", <<o1, o2>>), Sends("opaque", << >>)}

\* One secret seen for the first time by two requests.
OneSecretGen    == (o1 :> {f1, f2})
OneSecretBodies == {Sends("whole", <<o1>>)}

\* Requests are interchangeable; the runs of safety properties say so.
Interchangeable == Permutations(Request)

\* f1, the fake of o1, has leaked into a file: detection reports it as a secret.
LeakedGen    == (o1 :> {f1}) @@ (f1 :> {f2})
LeakedBodies == {Sends("whole", <<o1>>), Sends("whole", <<o1, f1>>), Sends("whole", <<f1>>)}

=============================================================================
