--------------------------- MODULE MCCliWorkflow ---------------------------
(* Four findings: three of a rule at the threshold, of which two share a    *)
(* fingerprint and one lies elsewhere, and one of a rule below it; one      *)
(* comment, which covers the pair.                                          *)
EXTENDS CliWorkflow, TLC

CONSTANTS aFile, noFile, unset

MCRule == {1, 2}

MCMeta ==
  (1 :> [severity |-> 3, category |-> "auth", onByDefault |-> TRUE, wasmOnly |-> FALSE])
  @@ (2 :> [severity |-> 1, category |-> "hygiene", onByDefault |-> TRUE, wasmOnly |-> FALSE])

F(rule, line, nth) ==
  [rule |-> rule, file |-> aFile, line |-> line, fn |-> "f",
   own |-> MCMeta[rule].severity, nth |-> nth]

MCUniverse == {F(1, 3, 1), F(1, 3, 2), F(1, 8, 1), F(2, 3, 1)}

MCComments ==
  {[file |-> aFile, lo |-> 2, hi |-> 4, rules |-> {1}, fileWide |-> FALSE, comment |-> 1]}
==========================================================================
