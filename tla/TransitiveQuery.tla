------------------------- MODULE TransitiveQuery -------------------------
(***************************************************************************)
(* What a detector is promised when it asks the contract model whether a   *)
(* fact "is established directly or in a callee" (src/crates/              *)
(* soroban-security-sdk/src/model/mod.rs, has_transitive): one answer, and *)
(* the answer is about the functions the root can reach, nothing else.     *)
(***************************************************************************)
EXTENDS Sequences

CONSTANT Function       \* the names of the functions of the analysed contract

VARIABLES
  graph,                \* the callees of each function, in call order
  holds,                \* the functions whose own body satisfies the predicate
  root,                 \* the function the detector asks about
  answer                \* "pending", "yes" or "no"

queryVars == <<graph, holds, root, answer>>

CalleeSet(g, f) == {g[f][i] : i \in DOMAIN g[f]}

Closed(g, S) == \A f \in S : CalleeSet(g, f) \subseteq S

(* The functions reachable from r, r included: whatever every set that      *)
(* contains r and is closed under calls must contain.                       *)
ReachableFrom(g, r) ==
  {f \in Function : \A S \in SUBSET Function : r \in S /\ Closed(g, S) => f \in S}

Establishes(g, r, P) == ReachableFrom(g, r) \cap P # {}

QueryInit ==
  /\ graph \in [Function -> Seq(Function)]
  /\ holds \in SUBSET Function
  /\ root \in Function
  /\ answer = "pending"

Answer ==
  /\ answer = "pending"
  /\ answer' = IF Establishes(graph, root, holds) THEN "yes" ELSE "no"
  /\ UNCHANGED <<graph, holds, root>>

QuerySpec == QueryInit /\ [][Answer]_queryVars
==========================================================================
