---------------------------- MODULE BudgetTruth ---------------------------
(***************************************************************************)
(* What a compiled contract really does, read off its binary and its       *)
(* source model without the reader or the estimator, and the properties    *)
(* that hold the estimate against it.                                      *)
(***************************************************************************)
EXTENDS Budget

(* The function the module exports under a name.                             *)
ExportIndex(name) == module.exports[Min(ExportsOf(name))].index

(* The code as it was compiled, read off the binary without the reader.      *)
FunctionImports == Cardinality({i \in DOMAIN input.payloads :
                                  /\ input.payloads[i].section = "import"
                                  /\ input.payloads[i].function})
CodeSections == {s \in DOMAIN input.payloads : input.payloads[s].section = "code"}

(* The index of the function whose code is at s: wasm numbers the imported   *)
(* functions first, then the code entries in their order.                    *)
NumberOf(s) == FunctionImports + Cardinality({t \in CodeSections : t < s})
SectionOf(i) == {s \in CodeSections : NumberOf(s) = i}
HasCode(i) == SectionOf(i) # {}
CodeAt(i) == input.payloads[CHOOSE s \in SectionOf(i) : TRUE].body

(* The binary format has every import before the first code entry.           *)
ImportsFirst ==
  \A s, t \in DOMAIN input.payloads :
    input.payloads[s].section = "import" /\ input.payloads[t].section = "code" => s < t

(* How many blocks are open before the p-th operator of a body, and whether  *)
(* the loop at q still is: nothing in between closed it.                     *)
Opens(body, a, b) == Cardinality({i \in a..b : body[i].op \in {"loop", "block"}})
Closes(body, a, b) == Cardinality({i \in a..b : body[i].op = "end"})
StillOpen(body, q, p) == \A r \in (q + 1)..(p - 1) :
                           Opens(body, q, r) > Closes(body, q, r)
LoopsAround(body, p) == {q \in 1..(p - 1) : body[q].op = "loop" /\ StillOpen(body, q, p)}

CallsIn(body) == {p \in DOMAIN body : body[p].op = "call"}

(* What the reader has to say of a body: every operator counted once, those  *)
(* inside some loop as looping, and the callees in the order of the calls.   *)
Describes(f, body) ==
  /\ f.instruction_count = Len(body)
  /\ f.loop_instructions = Cardinality({p \in DOMAIN body : LoopsAround(body, p) # {}})
  /\ Len(f.calls) = Cardinality(CallsIn(body))
  /\ \A p \in CallsIn(body) :
       f.calls[Cardinality({q \in CallsIn(body) : q <= p})] = body[p].to

(* Every index the compiler assigned leads to the profile of that very body, *)
(* and no other index leads anywhere.  profile_body, wasm.rs 431-475, keeps  *)
(* only a stack of booleans; function() subtracts the imports counted while  *)
(* reading.                                                                  *)
ProfileFaithful ==
  Parsed =>
    /\ \A i \in Index : Defined(module, i) <=> HasCode(i)
    /\ \A s \in CodeSections :
         LET f == Function(module, NumberOf(s))
         IN /\ Defined(module, NumberOf(s))
            /\ ImportsFirst => f.index = NumberOf(s)
            /\ Describes(f, input.payloads[s].body)

CallsAt(i) == IF HasCode(i) THEN CallsIn(CodeAt(i)) ELSE {}
CalledBy(i) == {CodeAt(i)[p].to : p \in CallsAt(i)}

(* What a function can lead to: the least set that holds its callees and the *)
(* callees of its members.                                                   *)
Descendants(i) ==
  {j \in Index : \A S \in SUBSET Index :
     CalledBy(i) \subseteq S /\ (\A k \in S : CalledBy(k) \subseteq S) => j \in S}

Recursive(i) == \E j \in {i} \cup Descendants(i) : j \in Descendants(j)

(* Recursion is reported for an entrypoint exactly when what it calls can    *)
(* call itself again: helpers shared by two callers are no recursion, and a  *)
(* cycle is found wherever in the graph it hangs (find_cycle, budget.rs      *)
(* 543-574).                                                                 *)
RecursionExact ==
  \A k \in DOMAIN report :
    report[k].instructions_from_wasm =>
      (report[k].instructions.reason = "recursion" <=> Recursive(ExportIndex(report[k].name)))

(* What one call of function i costs when no branch leaves any of its code   *)
(* early: all its operators once, a loop's body at least once, and the cost  *)
(* of every call it makes.  What the host does inside an import is not       *)
(* counted, and depth cuts what a recursion would add forever.               *)
Cost(i) ==
  LET at[depth \in 0..(MaxIndex + 1)] ==
        [j \in Index |->
           IF HasCode(j)
           THEN Len(CodeAt(j)) * input.cost_per_instruction
                  + SumFunction([p \in CallsAt(j) |->
                      input.cost_per_call
                        + (IF depth = 0 THEN 0 ELSE at[depth - 1][CodeAt(j)[p].to])])
           ELSE 0]
  IN at[MaxIndex + 1][i]

Code(i) == {j \in {i} \cup Descendants(i) : HasCode(j)}

Branchless(i) == \A j \in Code(i) : \A p \in DOMAIN CodeAt(j) : CodeAt(j)[p].op # "block"

CallSites(i) == UNION {{<<j, p>> : p \in CallsAt(j)} : j \in Code(i)}
CalledOnce(i) == \A s, t \in CallSites(i) :
                   CodeAt(s[1])[s[2]].to = CodeAt(t[1])[t[2]].to => s = t

Measured == {k \in DOMAIN report : report[k].instructions.reason \in {"none", "construct"}}

(* The lower bound is reached by every complete run of branch-free code, so  *)
(* a violation reported as certain really breaks the limit, and where no     *)
(* helper is called twice the exact figure is the cost itself                *)
(* (instruction_estimate, budget.rs 480-541; SSDK007's note, resources.rs    *)
(* 105-106).  Wrapping sums only ever make the bound smaller.                *)
BoundsHold ==
  \A k \in Measured :
    LET i == ExportIndex(report[k].name)
        e == report[k].instructions
    IN Branchless(i) =>
         /\ e.lower_bound <= Cost(i)
         /\ \A f \in findings :
              /\ f.rule = "SSDK007"
              /\ f.function = report[k].name
              /\ f.axis = "instructions"
              /\ f.severity = "high"
              => Cost(i) > input.limits["instructions"]
         /\ e.reason = "none" /\ CalledOnce(i) /\ Cost(i) <= Largest => e.upper = {Cost(i)}

(* The three figures of an axis never contradict each other, even when a sum *)
(* wrapped: the estimate is no smaller than the lower bound, a bound is      *)
(* given exactly where nothing is unbounded, and no violation is reported    *)
(* whose estimate lies within the limit (BudgetEstimate, budget.rs 79-133).  *)
FiguresAgree ==
  \A k \in DOMAIN report :
    /\ \A e \in {report[k].instructions, report[k].reads, report[k].writes} :
         /\ e.lower_bound <= e.estimate
         /\ e.upper = (IF IsUnbounded(e) THEN {} ELSE {e.estimate})
    /\ \A v \in report[k].violations :
         LET e == CASE v.axis = "instructions" -> report[k].instructions
                    [] v.axis = "memory" -> Exact(MemoryBytes(module))
                    [] v.axis = "read-entries" -> report[k].reads
                    [] v.axis = "write-entries" -> report[k].writes
         IN e.estimate > v.limit

(* One execution of an access is an iteration of each loop around it.        *)
Around(op) == {i \in DOMAIN input.loops : /\ input.loops[i].function = op.function
                                          /\ input.loops[i].file = op.file
                                          /\ op.line \in input.loops[i].from..input.loops[i].to}
Executions(op) ==
  {v \in [Around(op) -> 1..Max({input.loops[i].count : i \in Around(op)} \cup {1})] :
     \A i \in Around(op) : v[i] <= input.loops[i].count}

(* Where every loop around them has a literal count of at least one, and     *)
(* functions of one name sit in one file, the ledger accesses of an          *)
(* entrypoint are counted execution by execution, as long as the figure fits *)
(* (source_ledger_usage and loop_weight, budget.rs 393-478).                 *)
LedgerExact ==
  \A k \in DOMAIN report :
    \A axis \in {"read-entries", "write-entries"} :
      LET accesses == IF axis = "read-entries" THEN ReadsOf(report[k].name)
                                              ELSE WritesOf(report[k].name)
          figure == IF axis = "read-entries" THEN report[k].reads ELSE report[k].writes
          Op(i) == input.storage_ops[i]
          total == MapThenSumSet(LAMBDA i : Cardinality(Executions(Op(i))), accesses)
      IN /\ \A i \in accesses : /\ Around(Op(i)) = Enclosing(Op(i))
                                /\ \A l \in Around(Op(i)) : /\ input.loops[l].literal
                                                              /\ input.loops[l].count > 0
         /\ total <= Largest
         => figure = Exact(total)

(* The doc calls the upper bound exact (budget.rs:84).  It is not when a     *)
(* helper is called twice: it is counted once.                               *)
UpperBoundExact ==
  \A k \in Measured :
    LET i == ExportIndex(report[k].name) IN
      Branchless(i) /\ Cost(i) <= Largest =>
        \A bound \in report[k].instructions.upper : Cost(i) <= bound

(* The estimate always ends, whatever the module's calls look like: with a   *)
(* report, with the reader's error, or with the panic of a checked sum       *)
(* (the work list, budget.rs 485-494, and the recursion of find_cycle).      *)
Ends == <>(phase \in {"done", "panicked"} \/ reading = "failed")
=============================================================================
