------------------------------ MODULE Budget ------------------------------
(***************************************************************************)
(* BudgetReport::estimate (src/crates/soroban-security-sdk/src/budget.rs)  *)
(* and the rules that read it.  The compiled module, if there is one, is   *)
(* read first (WasmModule); then every entrypoint of the source model is   *)
(* estimated on its own: a walk over the functions its code reaches, a     *)
(* depth-first search for recursion, and the sums over what was reached.   *)
(* Sums are u64: an optimised build wraps them, a debug build panics.      *)
(***************************************************************************)
EXTENDS WasmModule

CONSTANTS
  Inputs,               \* what estimate is called with, each an Input
  StorageWrites,        \* the imports is_storage_write accepts
  AuthImports,          \* the imports is_auth_import accepts
  Width,                \* 2^64, the range of a u64
  NarrowWidth           \* 2^32, the range of a u32

ASSUME WidthsAssumption ==
  /\ Width \in Nat \ {0}
  /\ NarrowWidth \in 1..Width

Largest == Width - 1
Narrow == NarrowWidth - 1
U64 == 0..Largest
Wrap(n) == n % Width
Saturate(n) == Min({n, Largest})

Axis == {"instructions", "memory", "read-entries", "write-entries"}

(* The parts of the source model the estimate reads.  A line number stands   *)
(* for a span's start; a loop's body spans lines from..to of its file.       *)
StorageOp == [function : Name, file : Nat, line : Nat, access : {"get", "set", "extend_ttl"}]
Loop == [function : Name, file : Nat, from : Nat, to : Nat, literal : BOOLEAN, count : U64]

Input == [wasm : BOOLEAN, payloads : Seq(Payload), size_bytes : Nat,
          entrypoints : Seq(Name), reachable : [Name -> SUBSET Name],
          storage_ops : Seq(StorageOp), loops : Seq(Loop),
          limits : [Axis -> U64], max_entry_size : 0..Narrow,
          cost_per_instruction : U64, cost_per_call : U64,
          assumed_loop_iterations : U64, overflow_checks : BOOLEAN]

ASSUME InputsAssumption == Inputs \subseteq Input

(* What the report says of one entrypoint: three figures, and the limits it  *)
(* breaks.  An optional upper bound is a set of at most one value.           *)
Reason == {"none", "construct", "no module", "not exported", "recursion"}
Figure == [lower_bound : Nat, upper : SUBSET Nat, estimate : Nat, reason : Reason]
Breach == [axis : Axis, limit : U64, certain : BOOLEAN]
EntryBudget ==
  [name : Name, instructions : Figure, reads : Figure, writes : Figure,
   instructions_from_wasm : BOOLEAN, violations : SUBSET Breach]

VARIABLES
  input,                \* the call's arguments
  phase,                \* "idle", "reach", "cycle", "done" or "panicked"
  todo,                 \* the entrypoints not estimated yet
  entry,                \* the index the entrypoint under way is exported as
  stack,                \* reach: indices still to look at
  reached,              \* reach: indices taken from the stack and inserted
  frames,               \* find_cycle: the calls of walk() still open
  open,                 \* find_cycle: the indices coloured InProgress
  finished,             \* find_cycle: the indices coloured Done
  report,               \* the entrypoint budgets made so far
  findings              \* what the rules report in the end

estimator == <<phase, todo, entry, stack, reached, frames, open, finished, report, findings>>
vars == <<input, reader, estimator>>

-----------------------------------------------------------------------------
Exact(n) == [lower_bound |-> n, upper |-> {n}, estimate |-> n, reason |-> "none"]

Unknown(reason) == [lower_bound |-> 0, upper |-> {}, estimate |-> 0, reason |-> reason]

(* Mutant of Unbounded: the estimate is kept as it was summed up.            *)
UnboundedAsSummed(lower, estimate) ==
  [lower_bound |-> lower, upper |-> {}, estimate |-> estimate, reason |-> "construct"]

Unbounded(lower, estimate) ==
  [lower_bound |-> lower, upper |-> {}, estimate |-> Max({estimate, lower}),
   reason |-> "construct"]

IsUnbounded(e) == e.reason # "none"

CertainlyExceeds(e, limit) == \E bound \in e.upper \cup {e.lower_bound} : bound > limit
MayExceed(e, limit) == e.estimate > limit

(* push_violation: the largest u64 is no limit at all.                       *)
Violation(axis, e) ==
  LET limit == input.limits[axis]
      certain == CertainlyExceeds(e, limit)
  IN IF limit # Largest /\ (certain \/ MayExceed(e, limit))
     THEN {[axis |-> axis, limit |-> limit, certain |-> certain]}
     ELSE {}

-----------------------------------------------------------------------------
(* source_ledger_usage: every access of a reachable function is one, times   *)
(* the literal loops around it.  A loop is around it when it belongs to a    *)
(* function of the same name and its lines hold the access's.                *)
ReadAccess == {"get", "extend_ttl"}
WriteAccess == {"set", "extend_ttl"}

Enclosing(op) ==
  {i \in DOMAIN input.loops :
     /\ input.loops[i].function = op.function
     /\ input.loops[i].from <= op.line
     /\ op.line <= input.loops[i].to}

Bounded(op) == \A i \in Enclosing(op) : input.loops[i].literal

(* Mutant of LoopWeight: nested loops add up.                                *)
SummedWeight(op) == Saturate(SumSet({input.loops[i].count : i \in Enclosing(op)}))

LoopWeight(op) ==
  FoldFunction(LAMBDA a, b : Saturate(a * b), 1,
               [i \in Enclosing(op) |-> input.loops[i].count])

Extra(op) == IF LoopWeight(op) = 0 THEN 0 ELSE LoopWeight(op) - 1

Accesses(name, kinds) ==
  {i \in DOMAIN input.storage_ops :
     /\ input.storage_ops[i].function \in input.reachable[name]
     /\ input.storage_ops[i].access \in kinds}

BoundedIn(accesses) == {i \in accesses : Bounded(input.storage_ops[i])}

(* What Usage adds up, before any sum is cut to its width.                   *)
LedgerBase(accesses) ==
  Cardinality(accesses)
    + SumFunction([i \in BoundedIn(accesses) |-> Extra(input.storage_ops[i])])
LedgerSum(accesses) ==
  LedgerBase(accesses)
    + Cardinality(accesses \ BoundedIn(accesses)) * input.assumed_loop_iterations

LedgerEstimate(accesses) ==
  IF accesses = BoundedIn(accesses)
  THEN Exact(Wrap(LedgerBase(accesses)))
  ELSE Unbounded(Cardinality(accesses), Wrap(LedgerSum(accesses)))

-----------------------------------------------------------------------------
(* instruction_estimate: the sums over the functions reached, each once.     *)
Reached == {i \in reached : Defined(module, i)}

StraightCost ==
  SumFunction([i \in Reached |->
                 StraightLine(Function(module, i)) * input.cost_per_instruction
                   + Len(Callees(module, i)) * input.cost_per_call])

LoopedCost ==
  SumFunction([i \in Reached |->
                 Function(module, i).loop_instructions * input.cost_per_instruction])

(* Whatever hides the cost: a host function, an indirect call, growing or    *)
(* bulk memory, or any loop.                                                 *)
HardToBound ==
  \/ Reached # reached
  \/ Wrap(LoopedCost) > 0
  \/ \E i \in Reached : \/ Function(module, i).has_call_indirect
                        \/ Function(module, i).has_memory_grow
                        \/ Function(module, i).has_bulk_memory

InstructionSum == StraightCost + LoopedCost * input.assumed_loop_iterations

InstructionOverflows ==
  \/ StraightCost > Largest
  \/ LoopedCost > Largest
  \/ HardToBound /\ InstructionSum > Largest

(* Mutant of InstructionEstimate: loop bodies are taken to run as often as   *)
(* assumed, in the lower bound too.                                          *)
EstimateAsLowerBound ==
  IF HardToBound
  THEN Unbounded(Wrap(InstructionSum), Wrap(InstructionSum))
  ELSE Exact(Wrap(StraightCost))

InstructionEstimate ==
  IF HardToBound
  THEN Unbounded(Wrap(StraightCost), Wrap(InstructionSum))
  ELSE Exact(Wrap(StraightCost))

-----------------------------------------------------------------------------
(* build_entrypoint, once the instructions are known.                        *)
Parsed == reading = "parsed"

ReadsOf(name) == Accesses(name, ReadAccess)
WritesOf(name) == Accesses(name, WriteAccess)

BudgetOf(name, instructions, compiled) ==
  LET reads == LedgerEstimate(ReadsOf(name))
      writes == LedgerEstimate(WritesOf(name))
      memory == IF Parsed THEN {Exact(MemoryBytes(module))} ELSE {}
  IN [name |-> name, instructions |-> instructions, reads |-> reads, writes |-> writes,
      instructions_from_wasm |-> compiled,
      violations |-> Violation("instructions", instructions)
                       \cup (UNION {Violation("memory", e) : e \in memory})
                       \cup Violation("read-entries", reads)
                       \cup Violation("write-entries", writes)]

LedgerOverflows(name) ==
  \/ LedgerSum(ReadsOf(name)) > Largest
  \/ LedgerSum(WritesOf(name)) > Largest

Current == Head(todo)

(* The debug build stops at the first sum that does not fit.                 *)
Emit(instructions, compiled, overflows) ==
  /\ IF input.overflow_checks /\ (overflows \/ LedgerOverflows(Current))
     THEN /\ phase' = "panicked"
          /\ UNCHANGED <<todo, report>>
     ELSE /\ phase' = "idle"
          /\ report' = Append(report, BudgetOf(Current, instructions, compiled))
          /\ todo' = Tail(todo)
  /\ entry' = 0
  /\ stack' = << >>
  /\ reached' = {}
  /\ frames' = << >>
  /\ open' = {}
  /\ finished' = {}
  /\ UNCHANGED <<input, reader, findings>>

Ready == phase = "idle" /\ todo # << >> /\ reading \in {"absent", "parsed"}

(* The export an entrypoint compiles to: the first function of that name.    *)
ExportsOf(name) ==
  {i \in DOMAIN module.exports :
     module.exports[i].kind = "function" /\ module.exports[i].name = name}

EstimateFromSource ==
  /\ Ready
  /\ ~Parsed \/ ExportsOf(Current) = {}
  /\ Emit(Unknown(IF Parsed THEN "not exported" ELSE "no module"), FALSE, FALSE)

StartWalk ==
  /\ Ready
  /\ Parsed
  /\ \E i \in ExportsOf(Current) :
       /\ \A j \in ExportsOf(Current) : i <= j
       /\ entry' = module.exports[i].index
       /\ stack' = <<module.exports[i].index>>
  /\ phase' = "reach"
  /\ UNCHANGED <<input, reader, todo, reached, frames, open, finished, report, findings>>

(* Mutant of SkipReached: the loop looks at the top without taking it off.   *)
SkipWithoutPop ==
  /\ phase = "reach"
  /\ stack # << >>
  /\ Last(stack) \in reached
  /\ UNCHANGED vars

SkipReached ==
  /\ phase = "reach"
  /\ stack # << >>
  /\ Last(stack) \in reached
  /\ stack' = Front(stack)
  /\ UNCHANGED <<input, reader, phase, todo, entry, reached, frames, open, finished, report, findings>>

Reach ==
  /\ phase = "reach"
  /\ stack # << >>
  /\ Last(stack) \notin reached
  /\ reached' = reached \cup {Last(stack)}
  /\ stack' = Front(stack) \o Callees(module, Last(stack))
  /\ UNCHANGED <<input, reader, phase, todo, entry, frames, open, finished, report, findings>>

-----------------------------------------------------------------------------
(* find_cycle: walk() calls itself for every callee, in order.               *)
Frame(i) == [index |-> i, next |-> 1]
Top == Last(frames)
Body == Callees(module, Top.index)
Callee == Body[Top.next]
Passed(fs) == [fs EXCEPT ![Len(fs)].next = @ + 1]

StartCycleSearch ==
  /\ phase = "reach"
  /\ stack = << >>
  /\ phase' = "cycle"
  /\ frames' = <<Frame(entry)>>
  /\ open' = {entry}
  /\ finished' = {}
  /\ UNCHANGED <<input, reader, todo, entry, stack, reached, report, findings>>

InCall == phase = "cycle" /\ frames # << >> /\ Top.next <= Len(Body)

(* Mutant of CallsBack: any function met before is taken for recursion.      *)
MetBefore(i) == i \in open \cup finished

CallsBack(i) == i \in open

PassFinished ==
  /\ InCall
  /\ ~CallsBack(Callee)
  /\ Callee \in finished
  /\ frames' = Passed(frames)
  /\ UNCHANGED <<input, reader, phase, todo, entry, stack, reached, open, finished, report, findings>>

Descend ==
  /\ InCall
  /\ ~CallsBack(Callee)
  /\ Callee \notin finished
  /\ frames' = Append(frames, Frame(Callee))
  /\ open' = open \cup {Callee}
  /\ UNCHANGED <<input, reader, phase, todo, entry, stack, reached, finished, report, findings>>

(* Mutant of Return: the function stays InProgress.                          *)
ReturnInProgress ==
  /\ phase = "cycle"
  /\ frames # << >>
  /\ Top.next > Len(Body)
  /\ frames' = IF Len(frames) = 1 THEN << >> ELSE Passed(Front(frames))
  /\ finished' = finished \cup {Top.index}
  /\ UNCHANGED <<input, reader, phase, todo, entry, stack, reached, open, report, findings>>

Return ==
  /\ phase = "cycle"
  /\ frames # << >>
  /\ Top.next > Len(Body)
  /\ frames' = IF Len(frames) = 1 THEN << >> ELSE Passed(Front(frames))
  /\ open' = open \ {Top.index}
  /\ finished' = finished \cup {Top.index}
  /\ UNCHANGED <<input, reader, phase, todo, entry, stack, reached, report, findings>>

ReportRecursion ==
  /\ InCall
  /\ CallsBack(Callee)
  /\ Emit(Unknown("recursion"), TRUE, FALSE)

Estimate ==
  /\ phase = "cycle"
  /\ frames = << >>
  /\ Emit(InstructionEstimate, TRUE, InstructionOverflows)

(* What the rules make of the report: SSDK007 for every violation of an      *)
(* entrypoint, SSDK020 to SSDK022 for the module as a whole.                 *)
ResourceBudgetExceeded ==
  UNION {{[rule |-> "SSDK007", function |-> report[k].name, axis |-> v.axis,
           severity |-> IF v.certain THEN "high" ELSE "medium",
           confidence |-> IF v.certain THEN "high" ELSE "low"] :
            v \in report[k].violations} : k \in DOMAIN report}

ImportedFunctions == {module.imports[i].name : i \in {i \in DOMAIN module.imports :
                                                         module.imports[i].function}}

WasmStorageWithoutAuth ==
  /\ Parsed
  /\ ImportedFunctions \cap StorageWrites # {}
  /\ ImportedFunctions \cap AuthImports = {}

(* The unlimited preset leaves the largest u32 as the entry size.            *)
ContractOversized ==
  /\ Parsed
  /\ input.max_entry_size # Narrow
  /\ input.size_bytes > input.max_entry_size

WasmStartFunction == Parsed /\ module.has_start

ModuleRules ==
  {r \in {"SSDK020", "SSDK021", "SSDK022"} :
     \/ r = "SSDK020" /\ WasmStorageWithoutAuth
     \/ r = "SSDK021" /\ ContractOversized
     \/ r = "SSDK022" /\ WasmStartFunction}

(* With every entrypoint estimated, the rules read the report.               *)
Detect ==
  /\ phase = "idle"
  /\ todo = << >>
  /\ reading \in {"absent", "parsed"}
  /\ phase' = "done"
  /\ findings' = ResourceBudgetExceeded \cup {[rule |-> r] : r \in ModuleRules}
  /\ UNCHANGED <<input, reader, todo, entry, stack, reached, frames, open, finished, report>>

-----------------------------------------------------------------------------
Init ==
  /\ input \in Inputs
  /\ payloads = input.payloads
  /\ reading = IF input.wasm THEN "payloads" ELSE "absent"
  /\ ReaderInit
  /\ phase = "idle"
  /\ todo = input.entrypoints
  /\ entry = 0
  /\ stack = << >>
  /\ reached = {}
  /\ frames = << >>
  /\ open = {}
  /\ finished = {}
  /\ report = << >>
  /\ findings = {}

ReadModule == Read /\ UNCHANGED <<input, estimator>>

Search ==
  \/ StartCycleSearch
  \/ PassFinished
  \/ Descend
  \/ Return

Next ==
  \/ ReadModule
  \/ EstimateFromSource
  \/ StartWalk
  \/ SkipReached
  \/ Reach
  \/ Search
  \/ ReportRecursion
  \/ Estimate
  \/ Detect

Spec == Init /\ [][Next]_vars /\ WF_vars(Next)

TypeOK ==
  /\ input \in Input
  /\ ReaderTypeOK
  /\ phase \in {"idle", "reach", "cycle", "done", "panicked"}
  /\ todo \in Seq(Name)
  /\ entry \in Index
  /\ stack \in Seq(Index)
  /\ reached \in SUBSET Index
  /\ open \in SUBSET Index
  /\ finished \in SUBSET Index
  /\ frames \in Seq([index : Index, next : Nat \ {0}])
  /\ report \in Seq(EntryBudget)
  /\ phase \in {"reach", "cycle"} => Parsed /\ todo # << >>

-----------------------------------------------------------------------------
CalleesOf(i) == ToSet(Callees(module, i))

(* While find_cycle runs, its frames are a chain of calls from the           *)
(* entrypoint, the functions coloured InProgress are those of the frames,    *)
(* each once, and what has been passed over in a frame is Done.              *)
FramesAreCalls ==
  /\ open = {frames[k].index : k \in DOMAIN frames}
  /\ open \cap finished = {}
  /\ \A j, k \in DOMAIN frames : frames[j].index = frames[k].index => j = k
  /\ \A k \in DOMAIN frames :
       /\ \A n \in 1..(frames[k].next - 1) :
            n \in DOMAIN Callees(module, frames[k].index) =>
              Callees(module, frames[k].index)[n] \in finished
       /\ k < Len(frames) =>
            /\ frames[k].next \in DOMAIN Callees(module, frames[k].index)
            /\ Callees(module, frames[k].index)[frames[k].next] = frames[k + 1].index

(* No set of functions in which every one calls another of the set.          *)
Acyclic(functions) ==
  \A s \in SUBSET functions : s # {} => \E i \in s : CalleesOf(i) \cap s = {}

(* What is Done calls only what is Done, and never in a circle; the          *)
(* entrypoint is among it once no frame is left.                             *)
FinishedIsSafe ==
  /\ \A i \in finished : CalleesOf(i) \subseteq finished
  /\ Acyclic(finished)
  /\ IF frames = << >>
     THEN entry \in finished
     ELSE frames[1].index = entry

(* The two together say why the search may answer when it does: a callee     *)
(* that is InProgress closes a circle of real calls, and a search that ends  *)
(* without one has seen everything (find_cycle, budget.rs 543-574).          *)
SearchInv == phase = "cycle" => FramesAreCalls /\ FinishedIsSafe
=============================================================================
