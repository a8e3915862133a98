---------------------------- MODULE MCDictionary ----------------------------
(***************************************************************************)
(* A small instance of Dictionary: two secrets, three fakes.               *)
(***************************************************************************)
EXTENDS Dictionary

CONSTANTS o1, o2, f1, f2, f3    \* model values

Redact(f, o) == [fake |-> f, original |-> o]

\* f1 and f2 are two draws for the same secret, f3 is a draw for another.
DistinctPairs == {Redact(f1, o1), Redact(f2, o1), Redact(f3, o2)}

\* Bodies with one secret, and one with two.
DistinctBatches == {<<Redact(f1, o1)>>, <<Redact(f2, o1)>>, <<Redact(f2, o1), Redact(f3, o2)>>}

=============================================================================
