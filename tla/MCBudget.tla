----------------------------- MODULE MCBudget -----------------------------
(***************************************************************************)
(* Four families of contracts.                                             *)
(* Shapes: three functions behind one import of each kind, every call list *)
(*   of at most two callees for two of them and of one for the third, so   *)
(*   self calls, longer cycles, shared helpers and host calls all occur.   *)
(* Bodies: one function with every well-nested body of at most six         *)
(*   operators, in which blocks and loops nest three deep.                 *)
(* Ledgers: no module; accesses of two functions around the boundaries of  *)
(*   loops with literal, zero, huge and unknown counts, in one or two      *)
(*   files, in builds with and without overflow checks.                    *)
(* Edges: unexported entrypoints, exported imports, start functions,       *)
(*   truncated modules, flags and limits at and above the figure.          *)
(* With a u64 of 32 values, 31 stands for u64::MAX.                        *)
(***************************************************************************)
EXTENDS BudgetTruth

CONSTANTS pay, mint, helper, storage_put, require_auth

MCName == {pay, mint, helper, storage_put, require_auth}
MCWrites == {storage_put}
MCAuth == {require_auth}

Op(op) == [op |-> op, to |-> 0]
Call(i) == [op |-> "call", to |-> i]
CodeOf(ops) == [section |-> "code", body |-> Append(ops, Op("end"))]
Import(function, name) == [section |-> "import", function |-> function, name |-> name]
Export(name, i) == [section |-> "export", kind |-> "function", name |-> name, index |-> i]
Only(section) == [section |-> section]

Generous == [a \in Axis |-> 31]
Tight == [a \in Axis |-> IF a = "memory" THEN 2 ELSE 6]

Base ==
  [wasm |-> TRUE, payloads |-> << >>, size_bytes |-> 3, entrypoints |-> <<pay>>,
   reachable |-> [n \in MCName |-> {n}], storage_ops |-> << >>, loops |-> << >>,
   limits |-> Tight, max_entry_size |-> 7,
   cost_per_instruction |-> 1, cost_per_call |-> 2, assumed_loop_iterations |-> 3,
   overflow_checks |-> FALSE]

-----------------------------------------------------------------------------
Calls(n) == UNION {[1..k -> Index] : k \in 0..n}
CallBody(callees) == CodeOf([k \in DOMAIN callees |-> Call(callees[k])])

Shapes ==
  {[Base EXCEPT !.payloads =
      <<Import(FALSE, helper), Import(TRUE, storage_put), Export(pay, 1),
        CallBody(f), CallBody(g), CallBody(h)>>] :
     f \in Calls(2), g \in Calls(2), h \in Calls(1)}

-----------------------------------------------------------------------------
Nested(ops) ==
  /\ \A k \in DOMAIN ops : Closes(ops, 1, k) <= Opens(ops, 1, k)
  /\ Closes(ops, 1, Len(ops)) = Opens(ops, 1, Len(ops))

NestedBodies ==
  {ops \in UNION {[1..k -> {Op("plain"), Op("loop"), Op("block"), Op("end")}] : k \in 0..6} :
     Nested(ops)}

Bodies ==
  {[Base EXCEPT !.payloads = <<Export(pay, 0), CodeOf(ops)>>, !.cost_per_instruction = c] :
     ops \in NestedBodies, c \in {1, 5}}

-----------------------------------------------------------------------------
Access(f, file, line, access) ==
  [function |-> f, file |-> file, line |-> line, access |-> access]
LoopOf(f, file, from, to, count) ==
  [function |-> f, file |-> file, from |-> from, to |-> to, literal |-> count # 0 - 1,
   count |-> IF count = 0 - 1 THEN 0 ELSE count]

Ledgers ==
  {[Base EXCEPT
      !.wasm = FALSE, !.entrypoints = <<pay, mint>>,
      !.reachable = [n \in MCName |-> IF n = pay THEN {pay, helper} ELSE {n}],
      !.storage_ops = <<Access(pay, 1, 5, "get"), Access(pay, 1, line, a),
                        Access(helper, 1, 5, "set"), Access(mint, 1, 7, "extend_ttl")>>,
      !.loops = <<LoopOf(pay, 1, 4, 6, c), LoopOf(pay, file, 3, 8, d),
                  LoopOf(mint, 1, 7, 9, 2)>>,
      !.limits = limits, !.overflow_checks = checks] :
     line \in {2, 4, 8, 9}, a \in {"get", "set", "extend_ttl"},
     c \in {0 - 1, 0, 1, 3, 31}, d \in {0 - 1, 0, 2, 31}, file \in {1, 2},
     limits \in {Tight, Generous}, checks \in BOOLEAN}

-----------------------------------------------------------------------------
Flagged(op) == <<Op("plain"), Op(op)>>

Edges ==
  {[Base EXCEPT !.payloads = p, !.size_bytes = size, !.max_entry_size = 5,
                !.overflow_checks = checks, !.cost_per_instruction = 9] :
     size \in {5, 6}, checks \in BOOLEAN,
     p \in {<<Import(TRUE, storage_put), Export(mint, 1), CodeOf(<< >>), Only("start")>>,
            <<Import(TRUE, storage_put), Import(TRUE, require_auth), Export(pay, 0),
              CodeOf(<<Call(0)>>), Only("contractspec"), Only("other")>>,
            <<Only("malformed")>>,
            <<[section |-> "export", kind |-> "memory", name |-> pay, index |-> 0],
              CodeOf(<< >>)>>,
            <<Export(pay, 0), CodeOf(<<Op("plain"), Op("malformed")>>)>>,
            <<[section |-> "memory", pages |-> 2], Export(pay, 0), CodeOf(Flagged("memory_grow"))>>,
            <<[section |-> "memory", pages |-> 3], Export(pay, 0), CodeOf(Flagged("bulk"))>>,
            <<Export(pay, 0), Export(pay, 1), CodeOf(Flagged("call_indirect")),
              CodeOf(<<Op("plain"), Op("plain")>>)>>,
            <<Export(pay, 0), CodeOf(<<Op("loop"), Op("plain"), Op("end"), Call(1)>>),
              CodeOf(<<Op("plain")>>)>>}}

MCInputs == Shapes \cup Bodies \cup Ledgers \cup Edges
=============================================================================
