---------------------------- MODULE CallGraph ----------------------------
(***************************************************************************)
(* The work-list walk of ContractModel::has_transitive over the call graph *)
(* (src/crates/soroban-security-sdk/src/model/mod.rs).  Every question a   *)
(* detector asks about "this function or a helper it calls" is this walk:  *)
(* authorization, TTL extensions, state writes, external delegation.       *)
(* ContractModel::reachable_functions is the same walk with a predicate    *)
(* that never holds (holds = {}), and returns visited instead of a verdict.*)
(*                                                                         *)
(* The graph is whatever Builder::finish left: any function may call any   *)
(* other, itself included, so the graph may have cycles and shared helpers.*)
(***************************************************************************)
EXTENDS Naturals, SequencesExt

CONSTANTS
  Function,             \* the names of the functions of the analysed contract
  Graphs                \* the call graphs considered

ASSUME GraphsAssumption == Graphs \subseteq [Function -> Seq(Function)]

VARIABLES
  graph,                \* the callees of each function, in call order
  holds,                \* the functions whose own body satisfies the predicate
  root,                 \* the function the detector asks about
  visited,              \* names already taken from the stack and inserted
  stack,                \* names still to look at, the last one first
  verdict               \* "running" until the walk returns "yes" or "no"

walk == <<graph, holds, root, visited, stack, verdict>>

Query == INSTANCE TransitiveQuery WITH
           answer <- IF verdict = "running" THEN "pending" ELSE verdict

WalkTypeOK ==
  /\ graph \in [Function -> Seq(Function)]
  /\ holds \in SUBSET Function
  /\ root \in Function
  /\ visited \in SUBSET Function
  /\ stack \in Seq(Function)
  /\ verdict \in {"running", "yes", "no"}

WalkInit ==
  /\ graph \in Graphs
  /\ holds \in SUBSET Function
  /\ root \in Function
  /\ visited = {}
  /\ stack = <<root>>
  /\ verdict = "running"

Current == Last(stack)

(* while let Some(current) = stack.pop() *)
Popping == verdict = "running" /\ stack # << >>

(* Mutant of SkipVisited: the loop looks at the top of the stack without     *)
(* taking it off.                                                           *)
SkipWithoutPop ==
  /\ Popping
  /\ Current \in visited
  /\ UNCHANGED walk

(* Mutant of SkipVisited: a name met a second time is expanded again.        *)
ExpandAgain ==
  /\ Popping
  /\ Current \in visited
  /\ stack' = Front(stack) \o graph[Current]
  /\ UNCHANGED <<graph, holds, root, visited, verdict>>

SkipVisited ==
  /\ Popping
  /\ Current \in visited
  /\ stack' = Front(stack)
  /\ UNCHANGED <<graph, holds, root, visited, verdict>>

ReturnYes ==
  /\ Popping
  /\ Current \notin visited
  /\ Current \in holds
  /\ visited' = visited \cup {Current}
  /\ stack' = Front(stack)
  /\ verdict' = "yes"
  /\ UNCHANGED <<graph, holds, root>>

(* Mutant of Expand: only the first callee is followed.                      *)
ExpandFirstCallee ==
  /\ Popping
  /\ Current \notin visited
  /\ Current \notin holds
  /\ visited' = visited \cup {Current}
  /\ stack' = Front(stack) \o (IF graph[Current] = << >> THEN << >> ELSE <<Head(graph[Current])>>)
  /\ UNCHANGED <<graph, holds, root, verdict>>

(* Mutant of Expand: the callees replace what was still queued.              *)
ExpandOverStack ==
  /\ Popping
  /\ Current \notin visited
  /\ Current \notin holds
  /\ visited' = visited \cup {Current}
  /\ stack' = graph[Current]
  /\ UNCHANGED <<graph, holds, root, verdict>>

Expand ==
  /\ Popping
  /\ Current \notin visited
  /\ Current \notin holds
  /\ visited' = visited \cup {Current}
  /\ stack' = Front(stack) \o graph[Current]
  /\ UNCHANGED <<graph, holds, root, verdict>>

ReturnNo ==
  /\ verdict = "running"
  /\ stack = << >>
  /\ verdict' = "no"
  /\ UNCHANGED <<graph, holds, root, visited, stack>>

WalkNext == SkipVisited \/ ReturnYes \/ Expand \/ ReturnNo

WalkSpec == WalkInit /\ [][WalkNext]_walk /\ WF_walk(WalkNext)

--------------------------------------------------------------------------
Pending == visited \cup ToSet(stack)

(* The walk answers for exactly the functions reachable from the root: a    *)
(* "yes" has a witness in the closure of the call relation, and a "no" has  *)
(* seen the whole closure, so what reachable_functions returns is exactly   *)
(* the closure.  An unvisited branch would make a detector report a missing *)
(* require_auth that a helper performs; a stray one would hide a real one.  *)
VerdictExact ==
  LET reach == Query!ReachableFrom(graph, root)
  IN  /\ verdict = "yes" => reach \cap holds # {}
      /\ verdict = "no" => visited = reach /\ reach \cap holds = {}

(* The argument behind VerdictExact: nothing outside the closure is ever    *)
(* queued, and a function that was expanded has all its callees accounted   *)
(* for, either visited or still on the stack.                               *)
WalkInv ==
  /\ root \in Pending
  /\ \A S \in SUBSET Function :
       root \in S /\ Query!Closed(graph, S) => Pending \subseteq S
  /\ \A f \in visited \ holds : Query!CalleeSet(graph, f) \subseteq Pending
  /\ verdict = "yes" <=> visited \cap holds # {}
  /\ verdict = "no" => stack = << >>

(* Why the walk ends on a recursive contract: each step either visits a     *)
(* function it had not visited, or leaves visited alone and shortens the    *)
(* stack, or returns.  Without the visited set two mutually recursive       *)
(* helpers would keep the loop of has_transitive going forever.             *)
StepProgress ==
  \/ visited # visited' /\ visited \subseteq visited'
  \/ visited' = visited /\ Len(stack') < Len(stack)
  \/ verdict = "running" /\ verdict' # "running"

AlwaysProgress == [][StepProgress]_walk

(* Every query returns, whatever cycles the call graph has: the only process*)
(* is the analyzer's own thread, which runs the loop until it returns.      *)
EventuallyAnswered == <>(verdict # "running")

(* Seen from the detector the walk is one atomic answer (TransitiveQuery).  *)
Refines == Query!QuerySpec
==========================================================================
