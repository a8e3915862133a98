--------------------------- MODULE WriteOnceStore ---------------------------
(***************************************************************************)
(* What each of the three stores of src/src/dictionary.rs promises on its  *)
(* own: a key is bound once and keeps its value until the whole store is   *)
(* emptied.  There is no way to rebind a key and no way to forget a single *)
(* one.  Dictionary instantiates this module for the in-memory forward     *)
(* map, the in-memory reverse map and the table on disk.                   *)
(***************************************************************************)

CONSTANTS
  Key,
  Value,
  None    \* the absence of a binding

VARIABLE store

Empty == [k \in Key |-> None]

Init == store = Empty

\* Bind any set of unbound keys; every existing binding stays as it is.
Bind ==
  /\ store' \in [Key -> Value \cup {None}]
  /\ \A k \in Key : store[k] # None => store'[k] = store[k]

\* Forget everything at once.
Wipe == store' = Empty

Next == Bind \/ Wipe

Spec == Init /\ [][Next]_store

=============================================================================
