-------------------------- MODULE BodyRestoration --------------------------
(***************************************************************************)
(* What restoring a response body promises, whichever way it is done: the  *)
(* client reads a prefix of the restored body at any time, and all of it   *)
(* when the body ends.  A transfer that breaks off may leave it short,     *)
(* never wrong.                                                            *)
(***************************************************************************)
EXTENDS Substitution

VARIABLES
  rules,    \* the substitutions, in the order they apply
  body,     \* what the upstream has sent
  out,      \* what the client has been given
  end       \* "open", "done" or "failed"

Init == body = << >> /\ out = << >> /\ end = "open"

Flow ==
  /\ end = "open"
  /\ IsPrefix(body, body')
  /\ IsPrefix(out, out')
  /\ IsPrefix(out', AllReplaced(body', rules))
  /\ UNCHANGED <<rules, end>>

Finish ==
  /\ end = "open"
  /\ end' = "done"
  /\ out' = AllReplaced(body, rules)
  /\ UNCHANGED <<rules, body>>

Fail ==
  /\ end = "open"
  /\ end' = "failed"
  /\ UNCHANGED <<rules, body, out>>

Next == Flow \/ Finish \/ Fail

Spec == Init /\ [][Next]_<<rules, body, out, end>>

=============================================================================
