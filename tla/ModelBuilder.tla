--------------------------- MODULE ModelBuilder ---------------------------
(***************************************************************************)
(* The pass that derives the contract model from syntax trees              *)
(* (src/crates/soroban-security-sdk/src/model/builder.rs).  Builder is a   *)
(* syn visitor: its methods call each other down the tree and keep in      *)
(* fields what surrounds the current node.  Here the tree is made up as    *)
(* the visitor goes: open is the stack of its calls that have not returned,*)
(* each with the locals it restores, and every step enters a node, leaves  *)
(* one or records a leaf.  The fields have the names of the code.          *)
(*                                                                         *)
(* What a site is recorded under comes from the fields; `at` notes next to *)
(* it, from the open nodes alone, where it really is.                      *)
(***************************************************************************)
EXTENDS MethodChains, FiniteSets

CONSTANTS
  Name,                 \* function names
  ContractName,         \* names of contract types
  NoName,               \* the empty name
  Ident,                \* local variables used as storage keys
  KeyValue,             \* key expressions that are paths or constructors
  Vocabularies,         \* what a project is written in: node kinds, names, impl
                        \* headers, chains and operations, and its bound on nodes
  MaxOpen,              \* bound: nesting of nodes
  MaxFiles,             \* bound: files of the project
  Width                 \* 2^64, the range of a usize

ASSUME NamesAssumption == NoName \notin Name /\ NoName \notin ContractName
ASSUME KeysAssumption ==
  NoKey \notin Ident /\ NoKey \notin KeyValue /\ Ident \cap KeyValue = {}
ASSUME BoundsAssumption ==
  /\ MaxOpen \in Nat /\ MaxFiles \in Nat
  /\ Width \in Nat /\ Width > MaxOpen + 1

VARIABLES
  vocabulary,           \* what the project is written in
  include_tests,        \* the option, fixed for the pass
  file,                 \* the file being visited, 0 before the first
  impl_ctx,             \* the enclosing impl block
  function,             \* the enclosing function
  test_depth, loop_depth, guarded_depth,
  key_bindings,         \* let bindings of key expressions, innermost last
  sites,                \* what the vectors of the model hold, loops apart
  loops,                \* the loops of the model, in source order
  call_graph,           \* pairs of caller and callee
  module_calls,         \* the pairs called as module::callee
  defined_functions,
  declared_contracts, impl_contracts, entrypoints,
  model,                \* what finish assembles
  open,                 \* the visitor's calls that have not returned
  clock,                \* nodes entered or recorded so far
  test_file,            \* history: the file is test-only
  uttered               \* history: the calls of paths, where they really are

fields == <<impl_ctx, function, test_depth, loop_depth, guarded_depth, key_bindings>>
vectors == <<sites, loops, call_graph, module_calls, defined_functions,
             declared_contracts, impl_contracts, entrypoints, uttered>>
vars == <<vocabulary, include_tests, file, fields, vectors, model, open, clock, test_file>>

KeyExpr == Ident \cup KeyValue
Bound == KeyExpr \cup {NoKey}
Binding == [name : Ident, bound : Bound]
ImplCtx == [present : BOOLEAN, contract : ContractName \cup {NoName},
            in_contract_impl : BOOLEAN, is_trait_impl : BOOLEAN, is_test : BOOLEAN]
FnCtx == [name : Name \cup {NoName}, contract : ContractName \cup {NoName}]

ASSUME VocabulariesAssumption ==
  \A v \in Vocabularies :
    /\ v.names \subseteq Name /\ v.events \in Nat
    /\ \A i \in v.impls : i \in ImplCtx /\ i.present
    /\ \A c \in v.chains : c \in Chain /\ c.methods # << >>
    /\ v.operations \subseteq Operation

NoImpl == [present |-> FALSE, contract |-> NoName, in_contract_impl |-> FALSE,
           is_trait_impl |-> FALSE, is_test |-> FALSE]
NoFunction == [name |-> NoName, contract |-> NoName]
NoModel == [built |-> FALSE, call_graph |-> {}, external_calls |-> {}, contracts |-> {}]

(***************************************************************************)
(* What a name stands for at a place of the project, which is kept in the  *)
(* open nodes and never read by the builder.  A value is                   *)
(*   text    the key expression it is, or the name when it is none,        *)
(*   of      the clock of the binding that made it, 0 for a key expression,*)
(*   hidden  whether the builder does not note the binding, and shows an   *)
(*           earlier one of the name in its stead.                         *)
(* What is not a key expression is a value of its own at every binding.    *)
(***************************************************************************)
Here == open[Len(open)].names

Meaning(text) ==
  IF text \in Ident /\ open # << >> THEN Here[text]
  ELSE [text |-> text, of |-> 0, hidden |-> FALSE]

Own(k, hidden) == [text |-> k, of |-> clock + 1, hidden |-> hidden]

Unnoted(k) == Own(k, Meaning(k).hidden \/ Meaning(k).text # k)

(***************************************************************************)
(* The open nodes.                                                         *)
(***************************************************************************)

(* Nodes in which statements stand, nodes whose expressions are guarded,    *)
(* and all nodes in which expressions stand.  "cond" is the condition of an *)
(* if, "guard" that of a while or an operand of a checked method, "iter"    *)
(* what a for iterates, "trait_fn" a default method or a const initialiser. *)
Body == {"fn", "trait_fn", "block", "loop"}
Guarding == {"cond", "guard"}
Expression == Body \cup Guarding \cup {"iter"}

(* A node sees the names around it; a function has parameters of its own    *)
(* instead, which the builder never notes.                                  *)
NamesIn(kind) ==
  [k \in Ident |-> IF kind \in {"fn", "trait_fn"} THEN Unnoted(k) ELSE Meaning(k)]

NodeOf(kind, name, contract, test, index, before) ==
  [kind |-> kind, name |-> name, contract |-> contract, test |-> test,
   scope |-> Len(key_bindings), previous |-> impl_ctx, index |-> index,
   before |-> before, names |-> NamesIn(kind), cut |-> FALSE]

Node(kind) == NodeOf(kind, NoName, NoName, FALSE, 0, {})

Top == open[Len(open)]
Below == SubSeq(open, 1, Len(open) - 1)
IsOpen(kinds) == open # << >> /\ Top.kind \in kinds
Walking == file > 0 /\ ~model.built
Event(word) == Walking /\ clock < vocabulary.events /\ word \in vocabulary.words
Room(word) == Event(word) /\ Len(open) < MaxOpen
InItems == open = << >> \/ IsOpen({"mod"} \cup Body)

Latest(s) == CHOOSE i \in s : \A j \in s : j <= i
LatestOr0(s) == IF s = {} THEN 0 ELSE Latest(s)

(* The innermost open function, the impl block around it, and where a site  *)
(* below the nodes o really is.                                             *)
FnNode(o) == LatestOr0({i \in DOMAIN o : o[i].kind = "fn"})
ImplNode(o) == LatestOr0({i \in 1..FnNode(o) : o[i].kind = "impl"})
Within(o, kinds) == \E j \in (FnNode(o) + 1)..Len(o) : o[j].kind \in kinds

Place(o) ==
  [fn |-> IF FnNode(o) = 0 THEN NoName ELSE o[FnNode(o)].name,
   contract |-> IF ImplNode(o) = 0 THEN NoName ELSE o[ImplNode(o)].contract,
   nested |-> \E i \in 1..(FnNode(o) - 1) : o[i].kind = "fn",
   cut |-> FnNode(o) = 0 \/ o[FnNode(o)].cut,
   loop |-> Within(o, {"loop"}),
   guard |-> Within(o, Guarding),
   loops |-> {o[i].index : i \in {j \in DOMAIN o : o[j].kind \in {"iter", "loop"}}},
   test_scope |-> test_file \/ \E i \in DOMAIN o : o[i].kind \in {"mod", "impl"} /\ o[i].test,
   test_item |-> test_file \/ \E i \in DOMAIN o : o[i].test]

(***************************************************************************)
(* The helpers of Builder.                                                 *)
(***************************************************************************)

(* Mutant of Skip: only modules are looked at.                              *)
SkipModules == ~include_tests /\ test_depth > 0

Skip == ~include_tests /\ (test_depth > 0 \/ impl_ctx.is_test)

Resolve(text) ==
  LET hit == LatestOr0({i \in DOMAIN key_bindings : key_bindings[i].name = text})
  IN IF hit = 0 \/ key_bindings[hit].bound = NoKey THEN text ELSE key_bindings[hit].bound

SiteOf(vec, part, what, guarded, key, meant) ==
  [vec |-> vec, what |-> what, id |-> <<clock, part>>, function |-> function.name,
   contract |-> function.contract, in_loop |-> loop_depth > 0, guarded |-> guarded,
   key |-> key, meant |-> meant, at |-> Place(open)]

Up(d) == (d + 1) % Width
Down(d) == (d + Width - 1) % Width

(* A site of an authorization attribute: read before the body, and after    *)
(* enter_function has set the context.                                      *)
AttributeSite(fn, node) ==
  [vec |-> "auth_checks", id |-> <<clock, 0>>, function |-> fn.name,
   contract |-> fn.contract, in_loop |-> FALSE, guarded |-> FALSE,
   what |-> [method |-> "require_auth", tier |-> NoTier, marks |-> {}, on |-> "env"],
   key |-> NoKey, meant |-> Meaning(NoKey), at |-> Place(Append(open, node))]

(* Mutant of EnterFunction: the depths of what is around are kept.          *)
EnterWithoutReset(n) ==
  /\ function' = [name |-> n, contract |-> impl_ctx.contract]
  /\ UNCHANGED <<loop_depth, guarded_depth>>

EnterFunction(n) ==
  /\ function' = [name |-> n, contract |-> impl_ctx.contract]
  /\ loop_depth' = 0
  /\ guarded_depth' = 0

(* Mutant of ExitFunction: the function that was left stays the context.    *)
ExitWithoutClear ==
  /\ loop_depth' = 0
  /\ guarded_depth' = 0
  /\ UNCHANGED function

ExitFunction ==
  /\ function' = NoFunction
  /\ loop_depth' = 0
  /\ guarded_depth' = 0

Tick == clock' = clock + 1
Push(node) == open' = Append(open, node)
Kept == UNCHANGED <<vocabulary, include_tests, file, test_file, model>>

(***************************************************************************)
(* Files and items.                                                        *)
(***************************************************************************)
NewFile(test_only) ==
  /\ impl_ctx' = NoImpl
  /\ function' = NoFunction
  /\ test_depth' = IF test_only THEN 1 ELSE 0
  /\ loop_depth' = 0
  /\ guarded_depth' = 0
  /\ test_file' = test_only
  /\ UNCHANGED key_bindings

BeginFile(test_only) ==
  /\ ~model.built /\ open = << >> /\ file < MaxFiles
  /\ test_only => "mod" \in vocabulary.words
  /\ file' = file + 1
  /\ NewFile(test_only)
  /\ UNCHANGED <<vocabulary, include_tests, vectors, model, open, clock>>

OpenMod(test) ==
  /\ Room("mod") /\ InItems
  /\ test_depth' = IF test THEN Up(test_depth) ELSE test_depth
  /\ Push(NodeOf("mod", NoName, NoName, test, 0, {}))
  /\ Tick /\ Kept
  /\ UNCHANGED <<impl_ctx, function, loop_depth, guarded_depth, key_bindings, vectors>>

CloseMod ==
  /\ Walking /\ IsOpen({"mod"})
  /\ test_depth' = IF Top.test THEN Down(test_depth) ELSE test_depth
  /\ open' = Below
  /\ Kept
  /\ UNCHANGED <<impl_ctx, function, loop_depth, guarded_depth, key_bindings,
                 vectors, clock>>

DeclareContract(c) ==
  /\ Event("struct") /\ InItems
  /\ declared_contracts' = declared_contracts \cup (IF Skip THEN {} ELSE {c})
  /\ Tick /\ Kept
  /\ UNCHANGED <<fields, sites, loops, call_graph, module_calls, defined_functions,
                 impl_contracts, entrypoints, uttered, open>>

OpenImpl(form) ==
  /\ Room("impl") /\ InItems
  /\ Kept
  /\ UNCHANGED <<function, test_depth, loop_depth, guarded_depth, key_bindings, sites,
                 loops, call_graph, module_calls, defined_functions,
                 declared_contracts, entrypoints, uttered>>
  /\ impl_ctx' = [form EXCEPT !.is_test = @ \/ impl_ctx.is_test]
  /\ impl_contracts' =
       IF form.in_contract_impl /\ ~Skip' /\ form.contract # NoName
       THEN impl_contracts \cup {form.contract} ELSE impl_contracts
  /\ Push(NodeOf("impl", NoName, form.contract, form.is_test, 0, {}))
  /\ Tick

CloseImpl ==
  /\ Walking /\ IsOpen({"impl"})
  /\ impl_ctx' = Top.previous
  /\ open' = Below
  /\ Kept
  /\ UNCHANGED <<function, test_depth, loop_depth, guarded_depth, key_bindings,
                 vectors, clock>>

(***************************************************************************)
(* Functions.  The name counts as defined before the test-code check, and  *)
(* a function the check skips is not entered.  The function's own          *)
(* attributes are asked for authorization, never for being a test.         *)
(***************************************************************************)
FnFrame(n, test) == NodeOf("fn", n, NoName, test, 0, {})

EnterBody(n, test, auth_attribute) ==
  IF Skip
  THEN UNCHANGED <<function, loop_depth, guarded_depth, sites, open>>
  ELSE /\ EnterFunction(n)
       /\ Push(FnFrame(n, test))
       /\ sites' = sites \cup
            (IF auth_attribute THEN {AttributeSite(function', FnFrame(n, test))} ELSE {})

OpenFn(n, test, auth_attribute) ==
  /\ Room("fn") /\ InItems
  /\ test => "mod" \in vocabulary.words
  /\ auth_attribute => "attribute" \in vocabulary.words
  /\ defined_functions' = defined_functions \cup {n}
  /\ EnterBody(n, test, auth_attribute)
  /\ Tick /\ Kept
  /\ UNCHANGED <<impl_ctx, test_depth, key_bindings, loops, call_graph, module_calls,
                 declared_contracts, impl_contracts, entrypoints, uttered>>

(* Methods of a trait impl are exported without pub; a receiver never is.   *)
Exported(public, receiver) ==
  /\ impl_ctx.in_contract_impl /\ ~receiver
  /\ public \/ impl_ctx.is_trait_impl

OpenMethod(n, public, receiver, test, auth_attribute) ==
  /\ Room("method") /\ IsOpen({"impl"})
  /\ ~public \/ receiver => "private" \in vocabulary.words
  /\ test => "mod" \in vocabulary.words
  /\ auth_attribute => "attribute" \in vocabulary.words
  /\ defined_functions' = defined_functions \cup {n}
  /\ entrypoints' =
       IF ~Skip /\ Exported(public, receiver)
       THEN entrypoints \cup
              {[name |-> n, contract |-> impl_ctx.contract, id |-> <<clock, 0>>,
                at |-> Place(Append(open, FnFrame(n, test)))]}
       ELSE entrypoints
  /\ EnterBody(n, test, auth_attribute)
  /\ Tick /\ Kept
  /\ UNCHANGED <<impl_ctx, test_depth, key_bindings, loops, call_graph, module_calls,
                 declared_contracts, impl_contracts, uttered>>

(* Mutant of Truncate: bindings outlive their block.                        *)
NeverTruncate == UNCHANGED key_bindings

Truncate == key_bindings' = SubSeq(key_bindings, 1, Top.scope)

CloseFn ==
  /\ Walking /\ IsOpen({"fn"})
  /\ ExitFunction
  /\ Truncate
  /\ open' = [i \in DOMAIN Below |-> [Below[i] EXCEPT !.cut = TRUE]]
  /\ Kept
  /\ UNCHANGED <<impl_ctx, test_depth, vectors, clock>>

(***************************************************************************)
(* Blocks and lets.                                                        *)
(***************************************************************************)
OpenBlock(kind) ==
  /\ \/ kind = "block" /\ Room("block") /\ IsOpen(Expression)
     \/ kind = "trait_fn" /\ Room("trait") /\ (InItems \/ IsOpen({"impl"}))
  /\ Push(Node(kind))
  /\ Tick /\ Kept
  /\ UNCHANGED <<fields, vectors>>

CloseBlock ==
  /\ Walking /\ IsOpen({"block", "trait_fn"})
  /\ Truncate
  /\ open' = Below
  /\ Kept
  /\ UNCHANGED <<impl_ctx, function, test_depth, loop_depth, guarded_depth, vectors, clock>>

Rebind(k, value) == open' = [open EXCEPT ![Len(open)].names[k] = value]

(* let k = v, where v is a key expression, or NoKey for whatever is none:   *)
(* that is pushed too, and shadows.                                         *)
Let(k, v) ==
  /\ Event("let") /\ IsOpen(Body)
  /\ key_bindings' =
       Append(key_bindings, [name |-> k, bound |-> IF v = NoKey THEN NoKey ELSE Resolve(v)])
  /\ Rebind(k, IF v = NoKey THEN Own(k, FALSE) ELSE Meaning(v))
  /\ Tick /\ Kept
  /\ UNCHANGED <<impl_ctx, function, test_depth, loop_depth, guarded_depth, vectors>>

(* A pattern that is not one identifier, or that of a for, a match arm, an  *)
(* if let or a closure, binds k in the block it stands in, and nothing is   *)
(* pushed.                                                                  *)
BindPattern(k) ==
  /\ Event("pattern") /\ IsOpen(Body)
  /\ Rebind(k, Unnoted(k))
  /\ Tick /\ Kept
  /\ UNCHANGED <<fields, vectors>>

(***************************************************************************)
(* Expressions.  The methods of a chain are visited outermost first, and   *)
(* each is recorded before its receiver is visited.                        *)
(***************************************************************************)
GuardedInside(c, i) == \E j \in (i + 1)..Len(c.methods) : Guards(Upto(c, j))

ChainSite(c, key, i, vec) ==
  LET keyed == vec = "storage_ops" /\ HasKey(Upto(c, i))
  IN [SiteOf(vec, i, What(Upto(c, i)), guarded_depth > 0 \/ GuardedInside(c, i),
             IF keyed THEN Resolve(key) ELSE NoKey, Meaning(IF keyed THEN key ELSE NoKey))
      EXCEPT !.at.guard = @ \/ GuardedInside(c, i)]

ChainSites(c, key) ==
  {ChainSite(c, key, p[1], p[2]) :
     p \in {q \in (DOMAIN c.methods) \X Vector : q[2] \in Recorded(Upto(c, q[1]))}}

VisitChain(c, key) ==
  /\ Event("chain") /\ IsOpen(Expression)
  /\ key \in Ident => "let" \in vocabulary.words
  /\ sites' = sites \cup (IF Skip THEN {} ELSE ChainSites(c, key))
  /\ Tick /\ Kept
  /\ UNCHANGED <<fields, loops, call_graph, module_calls, defined_functions,
                 declared_contracts, impl_contracts, entrypoints, uttered, open>>

WhatExpr(e) == [method |-> e.method, tier |-> NoTier, marks |-> e.marks, on |-> e.on]

VisitExpr(e) ==
  /\ Event("expr") /\ IsOpen(Expression)
  /\ sites' = sites \cup
       (IF Skip THEN {}
        ELSE {SiteOf(vec, 0, WhatExpr(e), guarded_depth > 0, NoKey, Meaning(NoKey)) :
                vec \in RecordedExpr(e)})
  /\ Tick /\ Kept
  /\ UNCHANGED <<fields, loops, call_graph, module_calls, defined_functions,
                 declared_contracts, impl_contracts, entrypoints, uttered, open>>

(* Mutant of Edge: only callees seen already become edges.                  *)
EdgeIfDefined(callee) ==
  IF Skip \/ function.name = NoName \/ callee \notin defined_functions THEN {}
  ELSE {<<function.name, callee>>}

Edge(callee) == IF Skip \/ function.name = NoName THEN {} ELSE {<<function.name, callee>>}

(* callee(..) or module::callee(..).                                        *)
VisitCall(callee, in_module) ==
  /\ Event("call") /\ IsOpen(Expression)
  /\ call_graph' = call_graph \cup Edge(callee)
  /\ module_calls' = module_calls \cup (IF in_module THEN Edge(callee) ELSE {})
  /\ uttered' = uttered \cup {[callee |-> callee, in_module |-> in_module, at |-> Place(open)]}
  /\ Tick /\ Kept
  /\ UNCHANGED <<fields, sites, loops, defined_functions, declared_contracts,
                 impl_contracts, entrypoints, open>>

WrappingCall == [method |-> "wrapping_add", tier |-> NoTier, marks |-> {}, on |-> "value"]

(* The condition of an if, or an operand of a wrapping_ or checked_ method, *)
(* which is recorded itself when it wraps.                                  *)
OpenGuard(kind, wrapping) ==
  /\ Room(kind) /\ IsOpen(Expression)
  /\ guarded_depth' = Up(guarded_depth)
  /\ sites' = sites \cup
       (IF wrapping /\ ~Skip
        THEN {SiteOf("arithmetic", 0, WrappingCall, guarded_depth > 0, NoKey, Meaning(NoKey))}
        ELSE {})
  /\ Push(Node(kind))
  /\ Tick /\ Kept
  /\ UNCHANGED <<impl_ctx, function, test_depth, loop_depth, key_bindings, loops,
                 call_graph, module_calls, defined_functions, declared_contracts,
                 impl_contracts, entrypoints, uttered>>

(* Leaving the condition of an if enters its branch.                        *)
CloseGuard ==
  /\ Walking /\ IsOpen(Guarding)
  /\ guarded_depth' = Down(guarded_depth)
  /\ open' = IF Top.kind = "cond"
             THEN [open EXCEPT ![Len(open)].kind = "block"] ELSE Below
  /\ Kept
  /\ UNCHANGED <<impl_ctx, function, test_depth, loop_depth, key_bindings, vectors, clock>>

(***************************************************************************)
(* Loops.  They are recorded wherever they are visited.                    *)
(***************************************************************************)
LoopHere(bounded) ==
  [id |-> <<clock, 0>>, function |-> function.name, contract |-> function.contract,
   bounded |-> bounded, in_loop |-> loop_depth > 0, storage_ops |-> {}, contract_calls |-> {},
   closed |-> FALSE, at |-> Place(open)]

LoopNode(kind) ==
  NodeOf(kind, NoName, NoName, FALSE, Len(loops) + 1, {s.id : s \in sites})

(* A for visits what it iterates before its body counts as a loop; a while  *)
(* counts its condition as part of the loop.  Only a for over a range with  *)
(* a literal end has a bound.                                               *)
OpenLoop(kind, bounded) ==
  /\ Room(kind) /\ IsOpen(Expression)
  /\ kind = "while" => Len(open) + 1 < MaxOpen
  /\ bounded => kind = "for"
  /\ loops' = Append(loops, LoopHere(bounded))
  /\ open' = CASE kind = "for" -> Append(open, LoopNode("iter"))
               [] kind = "while" -> Append(Append(open, LoopNode("loop")), Node("guard"))
               [] kind = "loop" -> Append(open, LoopNode("loop"))
  /\ loop_depth' = IF kind = "for" THEN loop_depth ELSE Up(loop_depth)
  /\ guarded_depth' = IF kind = "while" THEN Up(guarded_depth) ELSE guarded_depth
  /\ Tick /\ Kept
  /\ UNCHANGED <<impl_ctx, function, test_depth, key_bindings, sites, call_graph,
                 module_calls, defined_functions, declared_contracts, impl_contracts,
                 entrypoints, uttered>>

StartBody ==
  /\ Walking /\ IsOpen({"iter"})
  /\ loop_depth' = Up(loop_depth)
  /\ open' = [open EXCEPT ![Len(open)].kind = "loop"]
  /\ Kept
  /\ UNCHANGED <<impl_ctx, function, test_depth, guarded_depth, key_bindings, vectors, clock>>

(* Mutant of Since: everything the model holds is counted.                  *)
CountAll(vec) == {s.id : s \in {x \in sites : x.vec = vec}}

(* What a vector got since the loop at the top was entered.                 *)
Since(vec) == {s.id : s \in {x \in sites : x.vec = vec}} \ Top.before

CloseLoop ==
  /\ Walking /\ IsOpen({"loop"})
  /\ loop_depth' = Down(loop_depth)
  /\ loops' = [loops EXCEPT ![Top.index] =
                 [@ EXCEPT !.storage_ops = Since("storage_ops"),
                           !.contract_calls = Since("calls"), !.closed = TRUE]]
  /\ Truncate
  /\ open' = Below
  /\ Kept
  /\ UNCHANGED <<impl_ctx, function, test_depth, guarded_depth, sites, call_graph,
                 module_calls, defined_functions, declared_contracts, impl_contracts,
                 entrypoints, uttered, clock>>

(***************************************************************************)
(* finish: calls of what no file defines leave the graph, and those made   *)
(* through a module are remembered as external; entrypoints go to their    *)
(* contracts.                                                              *)
(***************************************************************************)
ContractOf(c) ==
  [name |-> c, declared |-> c \in declared_contracts,
   entrypoints |-> {e \in entrypoints : e.contract = c}]

Finish ==
  /\ Walking /\ open = << >>
  /\ model' = [built |-> TRUE,
               call_graph |-> {e \in call_graph : e[2] \in defined_functions},
               external_calls |-> {e \in module_calls : e[2] \notin defined_functions},
               contracts |-> {ContractOf(c) : c \in declared_contracts \cup impl_contracts}]
  /\ UNCHANGED <<vocabulary, include_tests, file, fields, vectors, open, clock, test_file>>

Init ==
  /\ vocabulary \in Vocabularies
  /\ include_tests \in BOOLEAN
  /\ include_tests => "mod" \in vocabulary.words
  /\ file = 0 /\ clock = 0 /\ test_file = FALSE
  /\ impl_ctx = NoImpl /\ function = NoFunction
  /\ test_depth = 0 /\ loop_depth = 0 /\ guarded_depth = 0
  /\ key_bindings = << >> /\ open = << >> /\ loops = << >>
  /\ sites = {} /\ call_graph = {} /\ module_calls = {} /\ defined_functions = {}
  /\ declared_contracts = {} /\ impl_contracts = {} /\ entrypoints = {} /\ uttered = {}
  /\ model = NoModel

Items ==
  \/ \E t \in BOOLEAN : BeginFile(t) \/ OpenMod(t)
  \/ \E c \in ContractName : DeclareContract(c)
  \/ \E i \in vocabulary.impls : OpenImpl(i)
  \/ \E n \in vocabulary.names, t, a \in BOOLEAN : OpenFn(n, t, a)
  \/ \E n \in vocabulary.names, p, r, t, a \in BOOLEAN : OpenMethod(n, p, r, t, a)
  \/ CloseMod \/ CloseImpl \/ CloseFn

Statements ==
  \/ \E k \in {"block", "trait_fn"} : OpenBlock(k)
  \/ \E k \in Ident, v \in Bound : Let(k, v)
  \/ \E k \in Ident : BindPattern(k)
  \/ \E c \in vocabulary.chains, k \in KeyExpr : VisitChain(c, k)
  \/ \E e \in vocabulary.operations : VisitExpr(e)
  \/ \E n \in vocabulary.names, m \in BOOLEAN : VisitCall(n, m)
  \/ OpenGuard("cond", FALSE) \/ \E w \in BOOLEAN : OpenGuard("guard", w)
  \/ \E k \in {"for", "while", "loop"}, b \in BOOLEAN : OpenLoop(k, b)
  \/ CloseBlock \/ CloseGuard \/ StartBody \/ CloseLoop

Next == Items \/ Statements \/ Finish

Spec == Init /\ [][Next]_vars

(***************************************************************************)
(* Properties.                                                             *)
(***************************************************************************)
Place_ == [fn : Name \cup {NoName}, contract : ContractName \cup {NoName},
           nested : BOOLEAN, cut : BOOLEAN, loop : BOOLEAN, guard : BOOLEAN,
           loops : SUBSET Nat, test_scope : BOOLEAN, test_item : BOOLEAN]

(* Every field of the builder has the type the code gives it.               *)
TypeOK ==
  /\ include_tests \in BOOLEAN /\ test_file \in BOOLEAN
  /\ file \in 0..MaxFiles /\ clock \in 0..vocabulary.events
  /\ impl_ctx \in ImplCtx /\ function \in FnCtx
  /\ test_depth \in 0..(Width - 1)
  /\ loop_depth \in 0..(Width - 1)
  /\ guarded_depth \in 0..(Width - 1)
  /\ key_bindings \in Seq(Binding)
  /\ \A s \in sites : s.vec \in Vector /\ s.key \in Bound /\ s.at \in Place_
  /\ call_graph \subseteq Name \X Name
  /\ module_calls \subseteq call_graph
  /\ defined_functions \subseteq Name

Recordings == sites \cup {loops[i] : i \in DOMAIN loops}

(* A site names the innermost function around it and that function's        *)
(* contract, or no function at all: never a function whose body ended       *)
(* before it, nor one of another file or impl block.                        *)
SitesAttributed ==
  \A s \in Recordings :
    IF s.at.cut THEN s.function = NoName /\ s.contract = NoName
    ELSE s.function = s.at.fn /\ s.contract = s.at.contract

(* What the detectors read off a site of a function is lexical: in_loop     *)
(* says whether a loop of that function surrounds it, guarded whether a     *)
(* condition or a checked operation of that function does, whatever was     *)
(* open around the function and however the counters got there.             *)
SiteContextLexical ==
  /\ \A s \in Recordings : s.function # NoName => s.in_loop = s.at.loop
  /\ \A s \in sites : s.function # NoName => s.guarded = s.at.guard

(* The counters of a loop count what stands in it and what it iterates, not *)
(* what came before it in the file or in an outer loop.                     *)
LoopCounters ==
  \A i \in DOMAIN loops : loops[i].closed =>
    LET Inside(vec) == {s.id : s \in {x \in sites : x.vec = vec /\ i \in x.at.loops}}
    IN /\ loops[i].storage_ops = Inside("storage_ops")
       /\ loops[i].contract_calls = Inside("calls")

(* A storage operation is recorded under the key its name stands for there: *)
(* bindings of closed blocks, of other functions and of other files never   *)
(* show through, and a let shadows earlier ones, whether its value is a key *)
(* expression or not. The exception is a name bound by what the builder     *)
(* does not note, a parameter or a pattern, while it still holds an earlier *)
(* binding of that name: a local of the function around a nested one, or a  *)
(* let before the pattern. There builder.rs:747-749 keeps the earlier key,  *)
(* although builder.rs:752 says that anything else shadows.                 *)
KeysInScope == \A s \in sites : ~s.meant.hidden => s.key = s.meant.text

(* Without include_tests nothing of a test-only file, module or impl block  *)
(* reaches the vectors, the graph or the entrypoints.                       *)
TestCodeSilent ==
  ~include_tests =>
    /\ \A s \in sites \cup entrypoints : ~s.at.test_scope
    /\ \A e \in call_graph : \E u \in uttered :
         e = <<u.at.fn, u.callee>> /\ ~u.at.test_scope

(* In the finished model a call the visitor saw in a function is an edge    *)
(* when some file defines the callee, wherever it stands relative to the    *)
(* call, and an external call when it went through a module and no file     *)
(* does; and every exported method is listed under its contract.            *)
FinishFaithful ==
  model.built =>
    /\ \A u \in uttered : (u.at.cut \/ (u.at.test_scope /\ ~include_tests))
         \/ IF u.callee \in defined_functions
            THEN <<u.at.fn, u.callee>> \in model.call_graph
            ELSE u.in_module => <<u.at.fn, u.callee>> \in model.external_calls
    /\ \A e \in entrypoints : e.contract # NoName =>
         \E c \in model.contracts : c.name = e.contract /\ e \in c.entrypoints

(* README.md:90 "Test code is excluded, whether inline #[cfg(test)] items,  *)
(* #[cfg(test)] mod test; files or tests/ directories": nothing recorded    *)
(* without include_tests stands in an item marked as a test.                *)
TestItemsExcluded ==
  ~include_tests => \A s \in sites \cup entrypoints : ~s.at.test_item

===========================================================================
