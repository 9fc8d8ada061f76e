# soroban-security-sdk: verification project

TLA+ models of the static analyzer and fuzz harness in this repository, the TLC
runs that check them on small instances, and TLAPS proofs of what matters most for
every instance. Paths below are relative to the repository; `sdk/` stands for
`crates/soroban-security-sdk/src/`, `cli` for `crates/soroban-sec/src/main.rs`,
`fuzz` for `crates/soroban-sec-fuzz/src/lib.rs`.

## 1. The system

The toolkit is three crates: a library that analyses the Rust sources (and, if
there is one, the compiled module) of Soroban contracts, a command line around it,
and a harness for property-based tests of a contract. Everything is single-threaded.
What is hard is not concurrency but sequences of phases that overwrite one
another's results, decisions made one file, package or candidate at a time whose sum
must still be right, state that outlives one run (the baseline file, the cell of the
fuzz harness), and files that can be missing, broken or half written.

| Component | State it keeps | Operations | Makes it correct |
|---|---|---|---|
| Workspace loader (`sdk/analysis.rs` from_dir, from_workspace, load; `manifest.rs`) | projects, skipped packages, diagnostics, file ids | discover packages, collect files, parse, skip | each file goes to one package; a file id names one file; one broken package does not cost another |
| Model builder (`sdk/model/builder.rs` and siblings) | impl block, function, test, loop and guard depth, key bindings, model so far, call graph | begin a file; enter and leave modules, impl blocks, functions, blocks, loops, guards; record chains, operators, macros, calls; finish | a site carries the function, contract, loop, guard and key of the place it stands at; test code leaves no trace; the graph holds each call between known functions |
| Call-graph queries (`sdk/model/mod.rs`) | work list, visited set | has_transitive, reachable_functions | exact on cyclic graphs, always returns |
| Budget estimator (`sdk/budget.rs`) | work list, colours of the cycle search, usage sums in u64 | estimate per entrypoint, find_cycle, loop_weight, push_violation | recursion is reported exactly where it is; a bound is one; the three figures of an axis never contradict each other; it ends |
| Module reader (`sdk/wasm.rs`) | module so far, stack of open blocks, profile of the body | parse section by section, profile_body | an index leads to the profile of that very function; a malformed module is an error |
| Detectors (`sdk/detectors/`) | none | detect | a rule reports what the project does, at the place it does it |
| Analysis pipeline (`sdk/analysis.rs` analyze_with, analyze_workspace; decisions in `finding.rs`, `config.rs`, `registry.rs`) | findings, suppressed, diagnostics, rules, merged report | run detectors, rank, suppress, filter, merge | no finding disappears untold; the report is a function of its inputs |
| Suppression comments (`sdk/suppression.rs`) | suppressions found so far | collect, scope_for, covers, apply, unused | a comment silences its item and no other |
| Fix planning (`sdk/fix.rs`) | edits accepted per file, patches | plan, apply_edits | a patched file is the original with whole fixes in it; nothing overlaps |
| Command line (`cli`) | the baseline file, across runs | load, analyse, write, record, judge | a gate that succeeds hides nothing |
| Fuzz harness (`fuzz`) | the cell `failure`, across executions of the closure | fuzz | what is reported reproduces; an empty report means that all held |
| Metadata, syntax helpers, SARIF | none | - | - |

How they interact: the command line builds an `AnalysisConfig` (with the baseline's
fingerprints in it) and calls the pipeline; the pipeline asks the loader for
projects and runs each selected detector on the builder's model, the budget report
(estimated from the model and the module, which the reader parses) and the module;
detectors query the call graph; the pipeline then passes the
findings through ranking, suppression and baseline and folds the packages' reports
into one; the command line writes the report and then either records it as a baseline
or compares it with a threshold. A caller of the library may hand the findings to
`fix::plan`. The fuzz harness shares nothing with the rest.

## 2. Modules

| Module | Models | Read it as |
|---|---|---|
| `TransitiveQuery` | what a detector is promised of a transitive question | abstract specification, one step |
| `CallGraph` | the loop of has_transitive (reachable_functions is the same loop with a predicate that never holds) | one action per way through the loop body |
| `Findings` | Suppression::covers, Finding::fingerprint, RuleConfig, registry selection, severity, and what a configuration makes of one package | operators only |
| `AnalysisPromise` | the report of analyze_workspace as a function of its inputs | abstract specification, one step |
| `AnalysisRun` | analyze_with and analyze_workspace | one action per phase, `pkg` for the loop over packages |
| `WorkspaceLoad` | from_workspace, from_dir, load, discover_packages, collect_rust_files | one action per directory read, package started or passed over, file parsed, project kept |
| `CliWorkflow` | run() of the command line, over any number of runs | one action per call that can fail, plus the developer's edits |
| `MethodChains` | record_method_call and its helpers: what one chain of method calls is recorded as | operators over one chain, no state |
| `ModelBuilder` | the whole `Visit` of builder.rs, build and finish | one action per node entered, node left or leaf recorded |
| `Detectors` | the rules over the source model and the queries of `model/mod.rs` they ask | one operator per rule: a set of findings |
| `ContractScan` | builder and rules together, over any project | `ModelBuilder` extended by `Detectors` |
| `WasmModule` | WasmModule::parse and profile_body | one action per section and per kind of operator |
| `Budget` | BudgetReport::estimate, find_cycle and the rules over the budget and the module | `WasmModule`, then per entrypoint a walk, a search and the sums |
| `BudgetTruth` | what a binary and its accesses really do | operators that use neither reader nor estimator, and the properties that compare |
| `Suppression` | collect, scope_for, collect_items | one action per comment line, operators for the scope |
| `FixPlan` | plan and apply_edits | one action per fix gathered, file started, group tried, file written |
| `FuzzRun` | fuzz and its closure, with proptest's runner around it | one action per call executed, invariant checked, decision of the runner |
| `*_proofs` | theorems about the module of that name | |
| `MC*` | instances for TLC | |

Composition: `AnalysisRun` and `CliWorkflow` are both built on `Findings`.
`AnalysisRun` shows that the phases compute `ReportedIn`, `SilencedIn` and `NotesIn`
of `Findings`; `CliWorkflow` takes an analysis as one step that yields `ReportedIn`.
`Suppression` computes the records `[comment, lo, hi, rules, fileWide]` that
`Findings!Covers` takes. What `WorkspaceLoad` leaves, projects and what is said of them, is what
`AnalysisRun` takes as its packages. `ContractScan` puts `Detectors` on the model
`ModelBuilder` made, so that a property can hold a finding against the project itself;
`Detectors!Reachable` is the set `CallGraph` shows the walk to compute. `Budget` extends
`WasmModule`: it estimates from the module that was just read, and takes the source
model's accesses, loops and reachable functions as inputs. `CallGraph` refines `TransitiveQuery`, `AnalysisRun`
refines `AnalysisPromise`, both through `INSTANCE ... WITH`.

State and code, module by module:

* `CallGraph`: `visited` and `stack` are the locals of has_transitive, `verdict` its
  return value, `holds` the predicate, `graph` the `call_graph` with `callees`'
  empty default.
* `AnalysisRun`: `findings`, `suppressed`, `notes`, `ran`, `skipped` are the vectors
  of analyze_with (`notes` is `diagnostics`, `ran` is `rules`), `wasm` whether
  `loaded_wasm.or(project.wasm())` is there, `merged` the report being folded.
  Vectors are sets: the sorts change no property stated here.
* `ModelBuilder`: `impl_ctx`, `function`, `test_depth`, `loop_depth`, `guarded_depth`,
  `key_bindings` are the fields of Builder, `call_graph`, `module_calls`,
  `defined_functions`, `declared_contracts`, `impl_contracts`, `entrypoints` and `loops`
  those of the model it fills; `sites` holds the other vectors, each element with the
  name of its vector. `open` is the Rust call stack of the visitor: one node per visit_
  method that has not returned, with the locals it restores (`previous`, `scope`, `before`).
  The syntax tree is not an input: it is made up as the visitor goes, so TLC tries every
  tree within the bounds. What `at`, `names` and `meant` note down is read off `open`
  alone and never by an action of the code, it is what the properties compare with; `uttered`
  and `test_file` are history too. usize counters are numbers modulo `Width`.
* `names` of an open node says what every local name stands for there, by the scoping rules
  of Rust: a node sees the names around it, a function has parameters of its own. A `let`
  with a key expression makes the name stand for that key, any other `let` (`a.key()`,
  `symbol_short!(..)`, a block) for a value of its own, and so does a pattern that is not one
  identifier (`BindPattern`), of which visit_local notes nothing. A value is told apart by the
  binding that made it (`of`); `hidden` marks one that the builder cannot see while it holds
  an earlier binding of the name.
* `MethodChains`: a chain is its root and its methods, innermost first; `Upto(c, i)` is the
  receiver that call i is recorded with. What the code decides from types and names
  (a collection, an integer, an amount, a token client) comes as `marks`.
* `Detectors`: a finding is its rule, its function and the id of the site it points at.
* `WasmModule`: `module`, `blocks`, `profile` are the locals of parse and profile_body,
  `payloads` and `operators` what the two iterators still hold.
* `Budget`: `stack` and `reached` are the work list and the set of instruction_estimate,
  `frames` the calls of walk() inside find_cycle that are open, each with the callee it is
  at, `open` and `finished` the functions coloured InProgress and Done, `report` the
  budgets made so far. A sum wraps or, in a checked build, ends in the phase "panicked".
* `WorkspaceLoad`: `stack` is the vector of that name in both walks, `packages` what
  discovery found and the loop has not reached, `package`, `paths`, `sources` and `notes`
  the package being loaded, its files, the parsed ones and the diagnostics of the others;
  `projects`, `skipped`, `harnesses` are from_workspace's own. `tree` is the disk.
  read_dir gives entries in any order, so any directory of the stack may be next;
  packages are sorted, so the least comes first.
* `CliWorkflow`: `file` is the baseline file, `Unset` when there is none; `config`
  and `report` are run()'s locals and vanish with the process; `exit` is the exit
  code of the run that just ended; `presented` and `recorded` are history variables
  that no action reads. `fs::write` is two steps, truncation and writing.
* `Suppression`: `line` is the loop variable, `layout` the syntax tree reduced to
  spans on whole lines, `directives` the comments after parse_directive's split.
* `FixPlan`: `pending`, `files`, `accepted`, `applied`, `skipped`, `patches` are the
  locals of plan, `unattributed` its list of that name. A text is the sequence of the places its pieces come
  from, so that a patched file tells which bytes and edits it is made of.
* `FuzzRun`: `failure` is the RefCell, `generated`, `index`, `invariant`, `state` the
  closure's run, `passed`, `failing`, `shrinks` what proptest keeps. A system under
  test is a table of what each call does in each state (accepted, rejected with an
  effect, panic) and of what each invariant says of each state.

## 3. What the runs check

| Run | Shows |
|---|---|
| `callgraph` | `VerdictExact`: yes means a reachable function satisfies the predicate, no means that none does and that visited is the closure. `AlwaysProgress`, `EventuallyAnswered`: the walk ends on recursive contracts. `Refines`: it is one atomic answer. |
| `analysis` | `DeliversPromise`: phases and merge amount to the declared report. `FindingAccountedFor`: each finding of each detector is reported, suppressed, in the baseline, switched off, or its rule is said not to have run. `SuppressionVerdict`: no comment called unused silences anything. `PipelineInv` is the argument. |
| `cli` | `NothingPassesUnseen`: across edits, re-recordings and torn baselines, a successful gate lets no finding through that is neither commented nor was in a report written by a recording run. `RecordedPasses`: a gate on a full record of the unchanged contract does not fail. `BaselineInv` is the argument. Deadlock is checked. |
| `contract_scan` | `SitesAttributed`: a site or loop names the innermost function around it and its contract, or none. `SiteContextLexical`: in_loop and guarded say what is around the site in its function. `LoopCounters`: a loop counts what stands in it and what it iterates. `KeysInScope`: a key is resolved to what its name stands for there, unless a pattern or a parameter bound the name while an earlier binding of it is held. `TestCodeSilent`: nothing of test files, modules and impl blocks is recorded. `FinishFaithful`: every call seen is an edge, an external call or a call of nothing known, and every exported method is listed under its contract. `MissingAuthExact` (SSDK001): reported exactly where the project has it. `TierConfusionExact` (SSDK002): each value reached through two tiers is reported, and nothing else but names that stand for several values in one function, none of them a key expression. `FindingsPlaced`: whatever the rule, a finding names the function it stands in and is in no test code. |
| `budget` | `ProfileFaithful`: an index leads to the profile of its function, and looping operators are those in a loop. `RecursionExact`: recursion is reported exactly where there is some. `BoundsHold`: branch-free code costs at least the lower bound, a certain violation is one, and the exact figure is the cost where no helper is called twice. `FiguresAgree`: the figures of an axis agree, wrapped or not. `LedgerExact`: accesses in literal loops are counted execution by execution. `Ends`. `SearchInv` is the argument of the search. |
| `suppression` | `InsideFunctionCovered`, `SiblingsUntouched`, `NothingAboveSilenced`: what a comment reaches, from inside an item, beside it and from above. |
| `fixplan` | `PatchFaithful`: what is written is the original with exactly the accepted edits in their places. `SkippedForEarlier`: a fix gives way only to one that ranks before it (or to itself). `EveryFixReported`: nothing is passed over in silence. |
| `fuzz` | `ReportReproduces`: the reported sequence, run on a fresh system, breaks the named invariant at the named step and nothing before. `ReportIsLastFailure`: it is the last, shortest failure, unless that one was a panic. `FuzzReturns`. `HarnessInv` is the argument. |
| `workspace_load` | `FilesBelong`: a project has each file of its package once, parsed or noted as not parsing, and none of a package inside it. `IdsResolve`: an id leads to its file, whatever failed before it. `EveryPackagePlaced`: each package is a project, or named as skipped or as a harness, whatever the ones before it were. |

Three runs state what a doc or a comment says, and TLC finds a behaviour of the
code that differs:

| Run | Statement | What the code does |
|---|---|---|
| `fix_all_or_nothing` | fix.rs:7 a patch never ends up half-applied | a fix over two files is decided file by file |
| `test_items` | README.md:90 test code is excluded, inline `#[cfg(test)]` items too | a function's own attributes are never asked: one marked as a test, outside test modules, is analysed, and a method of a contract becomes an entrypoint (builder.rs:817, 857) |
| `budget_upper` | budget.rs:84 "Exact upper bound" | a helper that is called twice is added once (budget.rs:485-529), and the code costs more than the bound |

Type invariants are in no run: each is proved as a theorem, or states the types of
its module.

Every property of a passing run has a mutant beside the definition it breaks (a
comment "Mutant of ..." marks it); mutants are used by no specification.

### Bounds

* `callgraph`: three functions, at most two distinct callees each. Self calls, cycles
  of two and three, shared helpers and unreachable functions all occur; a function
  seen through two paths needs no fourth.
* `analysis`: two packages (the merge has a first and a later report), three rules
  (source, wasm-only, opt-in), an unknown rule id, one duplicate; findings that share
  a fingerprint, that have no line, that have no file; comments that are used, stale,
  for the whole file; a module that is attached, named, both or missing.
* `contract_scan`: two files; nodes nest at most `MaxOpen` = 4 deep; a project is written
  in one of nine vocabularies, each the node kinds, names, chains and operators of one
  concern (loops, guards, keys, tiers, test code, calls, authorization, the __check_auth
  hook, the rules), with at most four or five nodes. Four deep holds a loop in a method in
  an impl block in a module, and a function nested in a guard in a loop of another; five
  nodes hold a nested function, what follows it, and a function after that. `Width` is 8
  for 2^64: the counters go below zero within the bounds.
* `budget`: four families of inputs, described in `MCBudget`: every call graph of three
  functions behind two imports, every well-nested body of up to six operators, accesses
  around the boundaries of loops with unknown, zero, small and huge literal counts in one
  or two files, and malformed, truncated and flagged modules with limits at and above the
  figure. `Width` is 32 for the 2^64 values of a u64 and `NarrowWidth` 8 for those of a
  u32, so sums wrap and the largest value that stands for "no limit" occurs. Inputs have no try_table, return_call or further operators that
  profile_body does not look for.
* `cli`: four findings, two of which share a fingerprint, one below the threshold;
  one comment; one threshold. The number of runs and edits is not bounded.
* `suppression`: `LastLine` 7, `Reach` 2 in place of the code's 10, three nodes: enough
  for a method in an impl in a module, a sibling on each side of a comment, and an
  item beyond the reach. Nodes are on whole lines and share none, as rustfmt lays
  them out.
* `fixplan`: files of four and two bytes; edits that insert at both ends and inside
  of a replacement, touch, nest, cross, reach beyond the file, have no span or no file.
* `fuzz`: three states, two calls, two invariants, sequences up to three calls,
  `Cases` 2, `MaxShrinks` 2 (proptest's own budget is larger). Two candidates are
  enough for a failure to be replaced by another, or by a panic.
* `workspace_load`: four directories, in a row below the root or in two branches, so
  that a package lies in a package in a package and beside another; each is no package,
  a contract, another package or broken, with up to two files, the first of which may
  not parse. File names are left out and the order of parsing is open.

`CHECK_DEADLOCK FALSE` is set where the modelled program ends: a query that has
answered, a report delivered, a model finished, an estimate made, a file scanned, a plan
made, a load ended, a fuzz run over. The
command line never ends, there is always a next run.

### Fairness

`CallGraph`, `Budget` and `FuzzRun` state fairness, `WF_vars(Next)`: a single thread
executes the loop and nothing else can stop it. The others promise nothing that needs it:
how long a visit or a sequence of runs takes is up to its input. For `FuzzRun` it supposes that
execute and check return or panic, as the traits suppose, and that proptest bounds
its shrinking, as its configuration does.

## 4. What is proved

All proofs are in `*_proofs.tla` and hold for every value of the constants that
satisfies the assumptions named in the modules.

* **AnalysisRun_proofs** (`NPackagesAssumption`, `WorkspacesAssumption`: a line holds at
  most one comment, as collect looks at each line once, and a file is loaded for one
  package, which `EachFileBelongsOnce` proves of the loader). `PipelineInv` says for each
  phase what the phases before it have computed, in terms of `Findings`, and that the merged
  report is the union over the packages done. `RunDeliversPromise` and
  `EveryFindingAccountedFor` follow from it at the last phase, and so does `VerdictIsRight`:
  a comment the merged report calls unused is unused in its own package, and no finding of
  another package is in its file.
* **CliWorkflow_proofs** (`UnsetAssumption`, `ThresholdAssumption`: the value for
  "not given" is no other value). `BaselineInv` ties the file to the history: what it
  accepts was presented, also after a crash, since presenting comes before truncation
  and a torn file holds less. `GateIsSound` needs in addition that the configuration
  a run judges with is the one it loaded.
* **FuzzRun_proofs** (`SystemsAssumption`). `HarnessInv` says that the state at any
  point of a candidate is where its sequence leads a fresh system, so each entry in
  the cell reproduces, and that the cell agrees with the runner about the last failure
  or that failure was a panic. `ReportReproduces` is about finished runs only and is not
  inductive without it.
* **WorkspaceLoad_proofs** (`DirectoryAssumption`, `TreesAssumption`: the directories
  above one form a chain up to the root). `LoadInv` says at each moment of a walk which
  files are still to come: those of the package's directories that lie at or below
  something on the stack. `RegionSplits` is the step of the argument: reading a directory
  replaces what lies below it by what lies below its children, and stopping at a package
  leaves out exactly that package. `FilesBelong` speaks of finished projects and is not
  inductive without it. `PlaceInv` adds where the packages are: in discovery each is found
  or lies at or below something on the stack (`RegionSplits` again), and afterwards the ones
  that are neither waiting nor being loaded are the projects, the skipped and the harnesses,
  as `EveryPackagePlaced` wants them of a finished load; a package that is dropped in silence
  has nothing that parses, because its notes are then all of its files.

* **Suppression_proofs** (`LayoutsAssumption`: nodes nest or are disjoint). `ScopeInv`
  says that what is collected for a comment is its scope in the layout. The rest is about
  minima: the innermost node around a line lies in every node around it, so it lies in a
  function around the comment and apart from the function's siblings; and a node below a
  comment that is outside every item starts below it.
* **FixPlan_proofs** (`NoneAssumption`, `LengthAssumption`, `InputsAssumption`). First
  two results about the algorithms: `AppliesIsExact`, comparing neighbours in sorted order
  finds every collision of a finite set of edits, and `RewriteIsFaithful`, the loop that
  copies and inserts lays out the bytes outside the edits and each replacement, once and in
  order. `FixInvariant` is inductive over the four phases of plan: each usable edit of a fix
  that was looked at is in the group of its fix and file or noted, groups stand in the order
  of the findings, and a file has settled each group it was offered: accepted, or skipped
  because of what was accepted before. `PatchIsFaithful`, `SkippedOnlyForEarlier` and
  `EveryFixIsReported` follow for the finished patches.
* **Budget_proofs** (`InputsAssumption`, `SizesAssumption`, `WidthsAssumption`), in six parts.
  - The search. `SearchInv` is inductive: the frames of find_cycle are a chain of calls from
    the entrypoint, what is coloured InProgress are their functions, each once, and what is
    Done calls only what is Done, in no circle. A callee that is InProgress therefore closes a
    circle of real calls (`ReportedRecursionIsReal`), and when no frame is left the entrypoint
    is Done and nothing it reaches lies on a circle (`EstimateOnlyWithoutRecursion`).
  - The figures. A sum is a fold, and what a fold yields is a choice; `FoldExists` and
    `SumType` show by least counterexample that it is a number, so that every figure is one
    after wrapping and the estimate no smaller than the lower bound: `EstimatesAgree`.
  - The reader. `ReadInv` says after every payload and every operator what the module holds of
    the sections and the body passed so far. The stack of booleans of profile_body has one
    entry for each block still open, in order (`StackPushed`, `StackPopped`), which makes
    "some entry is a loop" the same as "some loop around here is not closed". `NthElement`
    (a finite set of positions has a k-th one) turns counting into indexing:
    `ProfilesAreFaithful`.
  - The two together. By the third part the callees of the profile are the calls in the binary
    (`CalledByIs`), so a circle of frames is a descendant of itself in `BudgetTruth` and a
    closed set without circles holds no such function: `RecursionIsExact`.
  - The ledger. A fold over a set is determined by what it does to each subset (`LeastSubset`,
    `SumsUnique`), which makes sums of equal terms equal and no term larger than its sum. The
    executions of an access are the points of a box (`BoxGrows`: one side more multiplies
    them), and a product of positive counts cut to the width at every step is that number when
    it fits (`SaturateTwice`, `WeightIs`). `LedgerInv`, that the report holds the estimates of
    the accesses, needs that a fold of the same counts stays the same: `LedgersAreExact`.
  - The bounds. The code adds up over the set of functions reached, the reference over the calls
    they make, to any depth. `Measures` is what sums over sets of functions have in common,
    `IsTower` the reference unrolled level by level (`CostIs`). Without recursion a callee has
    fewer functions to lead to than its caller (`LeadsToLess`), so an induction over that number
    ends: a function costs at least what it leads to weighs (`CostCovers`), since helpers that
    share callees count them twice, and just that where no helper is called twice, since then the
    callees lead to disjoint sets (`CallsLeadApart`). `ReachInv`: when the walk is over it has
    reached all an entrypoint leads to. `CostInv` says so of every entrypoint in the report, and
    `FindingsInv` leads a finding of SSDK007 back to a violation there: `BoundsAreRight`.
* **ModelBuilder_proofs**, about `CallGraph` (`GraphsAssumption`: graphs are functions into sequences of
  functions). `WalkInv` is inductive: everything visited or queued lies in each
  closed set around the root, and the callees of all that was expanded are visited or
  queued. When the stack is empty visited is therefore itself closed and contains the
  root, so it is the closure: `VerdictIsExact`. `VerdictExact` alone is not inductive,
  as it says nothing while the walk is under way. `WalkRefinesQuery` maps ReturnYes
  and ReturnNo to Answer and the rest to stuttering.
* **ModelBuilder_proofs**, about the builder (`BoundsAssumption`: the counters are wider than nodes nest, as
  2^64 is; `VocabulariesAssumption`, `NamesAssumption`). Six invariants, for trees of any shape:
  `ContextInv` (function is the innermost open function with the contract of its impl
  block, or none when it was left by a nested one; impl_ctx is the innermost open impl
  block, and each open one holds what it will restore), `DepthInv` (as long as that
  function is still the context, the depths are the numbers of loops and guards open in
  it; they may be anything after a nested function reset them, and wrap, which is why
  nothing is claimed of them then), `TestInv` (test_depth counts the open test modules and
  the file, is_test says whether one of the open impl blocks is a test), `KeysInv` (for every
  open node, the bindings there were when the next one was entered, or are now, show for each
  name the key it stands for in that node, unless the name is hidden: this for all open nodes
  and not the innermost alone, since a truncate brings back what an outer one saw),
  `SeenInv` (each open loop holds the sites that were there when it began, so what it has
  not seen stands in it, and a closed one counts what stands in it), and `EnteredInv` (an
  open function has a name, and the contract of an open impl block is listed unless the block
  stands in test code);
  what is recorded then carries what the open nodes say:
  `SitesNameTheirFunction`, `SiteContextIsLexical`, `TestCodeIsSilent`, `KeysAreInScope`,
  `LoopsCountTheirOwn`, `FinishLosesNothing`.
* **ModelBuilder_proofs**, about `ContractScan` (`NamesOfHooks`: the constructor and
  `__check_auth` have names of their own; `KeysOfLocals`: a key is written as an identifier or
  as a constructed value and is never both, the identifiers and the constructed keys of the
  vocabulary being apart in the code's own grammar). A detector has ids, names and text where
  the reference has places in the project, so the three theorems need that these agree.
  - `IdsInv`: what one step records has one number and one place, and no other step has that
    number, so a finding leads back to one function; `TestLoopsInv`: the loops of test code, which
    are recorded, stand below a test node, so that what they counted is test code too (`ModelInv`:
    the finished model is the vectors). `FindingsArePlaced` follows for each rule in turn.
  - `KeysTypedInv` with the invariants of the builder says what the text of a key can be. An entry
    may be operated on many times in one chain or function; `FirstOperation` takes the earliest,
    which is the one the rule reports at: `TierConfusionIsFound`. Two operations the rule groups
    have one text, and by `ScopedInv` one value each stands for, unless that text is a local name:
    then they may be several values of one function, which the theorem lets be reported
    (`SameName`).
  - `ReachableIsLeast`: the walk of reachable_functions as rounds over the edges. As long as the
    set is not closed every round finds the caller of an edge that no earlier one found, so as
    many rounds as there are edges are enough, and the result is the least closed set. `CalledInv`:
    the edges of the model are the calls in the project, and with no function left by a nested one
    all of them. What the rule asks of sites by their function is then asked of what runs:
    `MissingAuthIsFound`.

Every safety invariant of the passing runs is a theorem. Model-checked only is liveness
(`EventuallyAnswered`, `FuzzReturns`, `Ends`), which is beyond the prover.

## 5. Where docs and code part

Besides the three runs above. What is in a module is there as the code has it.

| Place | The code | Said of it |
|---|---|---|
| analysis.rs:524 | the rule's severity replaces every finding's own (`AnalysisRun`) | finding.rs:370 "Override the severity for this finding." |
| cli:174 | with `--baseline B --write-baseline B` accepted findings drop out of B and fail the next gate; `RecordedPasses` asks for a full record | cli:172 later runs "fail on *new* findings only" |
| suppression.rs:210 | a comment above a method silences the impl block, which contains the comment | suppression.rs:11 a comment above an item silences that item |
| suppression.rs:183 | a directive whose words are all misspelt rule ids silences every rule | - |
| fuzz:349 | after a panic in a call or an invariant the report is empty; `ReportIsLastFailure` excepts it | fuzz:223 "empty means the invariants held for every case" |
| analysis.rs:143 | a package none of whose files parses is dropped with its parse diagnostics | analysis.rs:19-22 such files become diagnostics |
| builder.rs:912, 977, 1001, 1026, 1047 | after a nested function reset them, the depths count down from zero: a panic in a build with overflow checks, 2^64 - 1 in one without (`Down`); no site of a function is affected (`SiteContextIsLexical`) | - |
| builder.rs:301 | what follows a nested function in the outer one is attributed to no function | - |
| builder.rs:747 | a let whose pattern is not one identifier returns early, and the patterns of for, match arms, if let and closures are never noted: `let k = DataKey::A; let (k, n) = pair; set(&k)` is recorded under `DataKey::A`; `KeysInScope` excepts it (`hidden`) | builder.rs:752 "Anything else shadows an outer binding of the same name." |
| builder.rs:753, 220 | a name whose initialiser is no key expression (`a.key()`, `symbol_short!(..)`) is recorded by the bare name, and names are compared within a function: with `let k = a.key(); persistent.get(&k)` in one block and `let k = b.key(); instance.set(&k)` in another SSDK002 is reported for two keys; `TierConfusionExact` excepts it (`SameName`) | builder.rs:217-219 one "that reuses the name for two different keys in separate branches is not either" mistaken for one entry |
| builder.rs:818, 858 | the name of a test function counts as defined, so calls of a library function of that name are no external calls | - |
| builder.rs:985 | loops of test code, of default methods of traits and of constants are recorded; no rule reports the first (`FindingsPlaced`) | - |
| builder.rs:341 | functions of one name in two modules are one node of the graph | - |
| control.rs:99 | a loop's counters include what a `for` iterates over (builder.rs:998) | "body" |
| budget.rs:469 | loop_weight matches a loop by function name and lines, not by file; `LedgerExact` excepts it | - |
| budget.rs:431 | an access in a loop over an empty literal range counts once in the lower bound | budget.rs:82 definitely reached |
| config.rs:165 | literal_loop_iterations_cap is read by nothing | - |
| detectors/misc.rs:66, 90 | SSDK012 and SSDK024 ask the function holding the upgrade for authorization, not the entrypoint that calls it | - |

## 6. Not modelled, and why

* Types and names in the builder: whether a value is a collection, an integer, an amount
  or a token client comes as a mark of the chain or operator, not from the tree. Spans,
  contract types, events, error enums and the names of test files are left out, and so are
  the rules that read only these.
* Of a key the text: what its arguments stand for (`DataKey::Balance(id)` with two `id`s) or
  whether two calls of one function return one key is not, and an initialiser that is no key
  expression is a new value at every binding, though two of them may be equal.
* `CastRecords` has a record for every cast; which are lossy is a mark of the operation.
* The product of pages and page size at wasm.rs:375 is taken to fit (`MemoryBytes`): only
  the page counts of a 64-bit memory could exceed a u64.
* `FixPlan` takes ranges already resolved: source.rs has clamped the end of a span to the
  file by then.
* The messages, notes and fixes of detectors. To `AnalysisRun` a detector is the set of
  findings it emits.
* The contract spec, metadata and custom sections of a module.
* Syntax helpers, rule metadata, SARIF, text rendering: no state, no decision over time.
* `--list-rules` and `--explain`: print and exit.
* The hash in Finding::fingerprint is taken as injective on what it is fed; what it
  is not fed (message, severity) is modelled as collisions.
* The loader's root as a single file, links, and the facts of a manifest that only
  detectors read. Of what the loader is silent about, the model has the code's: a nested
  `Cargo.toml` that is not TOML makes its directory part of the package around it.
* File ids are per package (analysis.rs:209); a lookup of one package's id in another's
  project is a caller's mistake and not in the model.
* The budget part of the report, `AnalysisReport::rules` beyond its merge, and the order
  of findings.
* Code under test and proptest itself are external; `FuzzRun` uses of proptest that it
  runs cases, tries candidates no longer than the failing one, and catches panics.

## 7. Plan

Done, in this order: call graph, pipeline, command line, suppression, fix planning, fuzz
harness, workspace loader; then the compiled module and the budget, the model builder, the
detectors on top of it, and the proofs about suppression, budget, builder, the placing
of packages, fix planning and what the detectors find.

Left, most useful first:

1. A model of the types the builder infers, which are marks now.
2. Proofs shorter where two components state the same fact about sums and sequences.
