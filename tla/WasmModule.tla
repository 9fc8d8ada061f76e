---------------------------- MODULE WasmModule ----------------------------
(***************************************************************************)
(* WasmModule::parse (src/crates/soroban-security-sdk/src/wasm.rs): one    *)
(* pass over the payloads of a compiled contract, and inside each code     *)
(* entry one pass over its operators (profile_body).  The reader keeps a   *)
(* stack of open blocks only to know whether an operator sits inside a     *)
(* loop, and numbers functions the way wasm does: imported ones first.     *)
(***************************************************************************)
EXTENDS Naturals, FiniteSetsExt, SequencesExt

CONSTANTS
  Name,                 \* the names imports and exports carry
  MaxIndex,             \* bound: function indices are 0..MaxIndex
  PageSize              \* bytes of a memory page

ASSUME SizesAssumption == MaxIndex \in Nat /\ PageSize \in Nat \ {0}

Index == 0..MaxIndex

ExportKind == {"function", "memory"}

(* What the profile tells operators apart by: `if`, `block` and `try` open a *)
(* block, "call" carries its callee, "bulk" stands for the memory and table  *)
(* copies, fills and inits, "plain" for every operator the match ignores,    *)
(* and "malformed" for bytes the parser cannot decode.                       *)
Operators == {"plain", "loop", "block", "end", "call", "call_indirect",
              "memory_grow", "bulk", "malformed"}
Operator == [op : Operators, to : Index]

Payload ==
  [section : {"import"}, function : BOOLEAN, name : Name]
    \cup [section : {"memory"}, pages : Nat]
    \cup [section : {"export"}, kind : ExportKind, name : Name, index : Index]
    \cup [section : {"code"}, body : Seq(Operator)]
    \cup [section : {"start", "contractspec", "other", "malformed"}]

Profile == [index : Nat, instruction_count : Nat, loop_instructions : Nat,
            loop_count : Nat, max_loop_depth : Nat, calls : Seq(Index),
            has_call_indirect : BOOLEAN, has_memory_grow : BOOLEAN,
            has_bulk_memory : BOOLEAN]

VARIABLES
  payloads,             \* the payloads not read yet
  module,               \* what has been recorded of the module so far
  operators,            \* inside a code entry: its operators not read yet
  blocks,               \* the open blocks, TRUE for a loop, outermost first
  profile,              \* the profile of the body being read
  reading               \* "absent", "payloads", "body", "parsed" or "failed"

reader == <<payloads, module, operators, blocks, profile, reading>>

Module ==
  [exports : Seq([kind : ExportKind, name : Name, index : Index]),
   imports : Seq([function : BOOLEAN, name : Name]), memories : Seq(Nat),
   functions : Seq(Profile), has_start : BOOLEAN, has_contract_spec : BOOLEAN,
   imported_function_count : Nat]

ReaderTypeOK ==
  /\ payloads \in Seq(Payload)
  /\ module \in Module
  /\ operators \in Seq(Operator)
  /\ blocks \in Seq(BOOLEAN)
  /\ profile \in Profile
  /\ reading \in {"absent", "payloads", "body", "parsed", "failed"}

NoProfile ==
  [index |-> 0, instruction_count |-> 0, loop_instructions |-> 0, loop_count |-> 0,
   max_loop_depth |-> 0, calls |-> << >>, has_call_indirect |-> FALSE,
   has_memory_grow |-> FALSE, has_bulk_memory |-> FALSE]

EmptyModule ==
  [exports |-> << >>, imports |-> << >>, memories |-> << >>, functions |-> << >>,
   has_start |-> FALSE, has_contract_spec |-> FALSE, imported_function_count |-> 0]

(* Queries over a module, as the estimator and the rules ask them.           *)
Defined(m, i) == m.imported_function_count <= i
                   /\ i - m.imported_function_count < Len(m.functions)
Function(m, i) == m.functions[i - m.imported_function_count + 1]
Callees(m, i) == IF Defined(m, i) THEN Function(m, i).calls ELSE << >>

StraightLine(f) == f.instruction_count - f.loop_instructions

MemoryBytes(m) == Max({m.memories[i] * PageSize : i \in DOMAIN m.memories} \cup {0})

TotalInstructions(m) == MapThenSumSet(LAMBDA i : m.functions[i].instruction_count,
                                      DOMAIN m.functions)

ExportedFunctionNames(m) ==
  {e.name : e \in {x \in ToSet(m.exports) : x.kind = "function"}}

Imports(m, name) == \E i \in DOMAIN m.imports : m.imports[i] = [function |-> TRUE, name |-> name]

-----------------------------------------------------------------------------
ReaderInit ==
  /\ module = EmptyModule
  /\ operators = << >>
  /\ blocks = << >>
  /\ profile = NoProfile

Section(name) ==
  /\ reading = "payloads"
  /\ payloads # << >>
  /\ Head(payloads).section = name
  /\ payloads' = Tail(payloads)

CountImport(m, p) ==
  [m EXCEPT !.imported_function_count = IF p.function THEN @ + 1 ELSE @]

ReadImport ==
  /\ Section("import")
  /\ LET p == Head(payloads) IN
       module' = [CountImport(module, p) EXCEPT
                    !.imports = Append(@, [function |-> p.function, name |-> p.name])]
  /\ UNCHANGED <<operators, blocks, profile, reading>>

ReadMemory ==
  /\ Section("memory")
  /\ module' = [module EXCEPT !.memories = Append(@, Head(payloads).pages)]
  /\ UNCHANGED <<operators, blocks, profile, reading>>

ReadExport ==
  /\ Section("export")
  /\ LET p == Head(payloads) IN
       module' = [module EXCEPT
         !.exports = Append(@, [kind |-> p.kind, name |-> p.name, index |-> p.index])]
  /\ UNCHANGED <<operators, blocks, profile, reading>>

ReadStart ==
  /\ Section("start")
  /\ module' = [module EXCEPT !.has_start = TRUE]
  /\ UNCHANGED <<operators, blocks, profile, reading>>

ReadContractSpec ==
  /\ Section("contractspec")
  /\ module' = [module EXCEPT !.has_contract_spec = TRUE]
  /\ UNCHANGED <<operators, blocks, profile, reading>>

(* Types, tables, globals and segments are counted and never asked about.    *)
ReadOther ==
  /\ Section("other")
  /\ UNCHANGED <<module, operators, blocks, profile, reading>>

(* Any payload may fail to decode: parse returns the error, and no module.   *)
ReadMalformed ==
  /\ Section("malformed")
  /\ reading' = "failed"
  /\ UNCHANGED <<module, operators, blocks, profile>>

OpenBody ==
  /\ Section("code")
  /\ operators' = Head(payloads).body
  /\ blocks' = << >>
  /\ profile' = [NoProfile EXCEPT
                   !.index = module.imported_function_count + Len(module.functions)]
  /\ reading' = "body"
  /\ UNCHANGED module

-----------------------------------------------------------------------------
InsideLoop == \E i \in DOMAIN blocks : blocks[i]
LoopDepth(b) == Cardinality({i \in DOMAIN b : b[i]})

(* Every operator counts; it counts as looping when a loop is already open,  *)
(* so the loop operator itself belongs to what is around it.                 *)
Counted ==
  [profile EXCEPT !.instruction_count = @ + 1,
                  !.loop_instructions = IF InsideLoop THEN @ + 1 ELSE @]

Reads(op) ==
  /\ reading = "body"
  /\ operators # << >>
  /\ Head(operators).op = op
  /\ operators' = Tail(operators)
  /\ UNCHANGED <<payloads, module>>

EnterLoop ==
  /\ Reads("loop")
  /\ blocks' = Append(blocks, TRUE)
  /\ profile' = [Counted EXCEPT
                   !.loop_count = @ + 1,
                   !.max_loop_depth = Max({@, LoopDepth(blocks')})]
  /\ UNCHANGED reading

(* Mutant of EnterBlock: only loops are remembered, so the end of a block    *)
(* closes the loop around it.                                                *)
ForgetBlock ==
  /\ Reads("block")
  /\ blocks' = blocks
  /\ profile' = Counted
  /\ UNCHANGED reading

EnterBlock ==
  /\ Reads("block")
  /\ blocks' = Append(blocks, FALSE)
  /\ profile' = Counted
  /\ UNCHANGED reading

(* The end of the body itself finds no open block: pop() of nothing.         *)
LeaveBlock ==
  /\ Reads("end")
  /\ blocks' = IF blocks = << >> THEN << >> ELSE Front(blocks)
  /\ profile' = Counted
  /\ UNCHANGED reading

RecordCall ==
  /\ Reads("call")
  /\ profile' = [Counted EXCEPT !.calls = Append(@, Head(operators).to)]
  /\ UNCHANGED <<blocks, reading>>

RecordFlag ==
  /\ \/ Reads("call_indirect") /\ profile' = [Counted EXCEPT !.has_call_indirect = TRUE]
     \/ Reads("memory_grow") /\ profile' = [Counted EXCEPT !.has_memory_grow = TRUE]
     \/ Reads("bulk") /\ profile' = [Counted EXCEPT !.has_bulk_memory = TRUE]
  /\ UNCHANGED <<blocks, reading>>

ReadPlain ==
  /\ Reads("plain")
  /\ profile' = Counted
  /\ UNCHANGED <<blocks, reading>>

ReadMalformedOperator ==
  /\ Reads("malformed")
  /\ reading' = "failed"
  /\ UNCHANGED <<blocks, profile>>

CloseBody ==
  /\ reading = "body"
  /\ operators = << >>
  /\ module' = [module EXCEPT !.functions = Append(@, profile)]
  /\ reading' = "payloads"
  /\ UNCHANGED <<payloads, operators, blocks, profile>>

FinishReading ==
  /\ reading = "payloads"
  /\ payloads = << >>
  /\ reading' = "parsed"
  /\ UNCHANGED <<payloads, module, operators, blocks, profile>>

ReadOperator ==
  \/ EnterLoop
  \/ EnterBlock
  \/ LeaveBlock
  \/ RecordCall
  \/ RecordFlag
  \/ ReadPlain
  \/ ReadMalformedOperator

Read ==
  \/ ReadImport
  \/ ReadMemory
  \/ ReadExport
  \/ ReadStart
  \/ ReadContractSpec
  \/ ReadOther
  \/ ReadMalformed
  \/ OpenBody
  \/ ReadOperator
  \/ CloseBody
  \/ FinishReading
=============================================================================
