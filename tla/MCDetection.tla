---------------------------- MODULE MCDetection ----------------------------
(***************************************************************************)
(* Small instances of Detection: three rules, the second a passthrough     *)
(* rule, and fakes that are shorter and longer than most spans.            *)
(***************************************************************************)
EXTENDS Detection

AllButSecond  == Rule \ {2}
ShortAndLong  == {1, 3}

=============================================================================
