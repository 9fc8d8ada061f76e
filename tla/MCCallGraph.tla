--------------------------- MODULE MCCallGraph ---------------------------
(* Three functions and every call graph over them with at most two distinct *)
(* callees per function, in either order: self calls, mutual recursion,     *)
(* shared helpers and functions nothing calls are all among them.           *)
EXTENDS CallGraph

CONSTANTS f1, f2, f3

MCFunction == {f1, f2, f3}

CalleeLists ==
  {<< >>} \cup {<<f>> : f \in MCFunction}
    \cup {<<f, g>> : f, g \in MCFunction}

(* Builder::finish keeps the first occurrence of each callee only. *)
NoDuplicates(s) == \A i, j \in DOMAIN s : i # j => s[i] # s[j]

MCGraphs == [MCFunction -> {s \in CalleeLists : NoDuplicates(s)}]

==========================================================================
