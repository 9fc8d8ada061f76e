---------------------------- MODULE AnalysisRun ----------------------------
(***************************************************************************)
(* analyze_workspace and analyze_with (src/crates/soroban-security-sdk/src/*)
(* analysis.rs): the phases one package goes through, in the code's order, *)
(* and the merge of the packages' reports.                                 *)
(*                                                                         *)
(* Reports are sets here: the sorts that order them change no property of  *)
(* this module.                                                            *)
(***************************************************************************)
EXTENDS Findings, FiniteSets

CONSTANTS
  NPackages,            \* the packages are 1..NPackages, in path order
  Configs,              \* the configurations considered
  Workspaces,           \* the contents of the packages considered
  WorkspaceNotes        \* what loading the workspace had to say

ASSUME NPackagesAssumption == NPackages \in Nat \ {0}

Package == 1..NPackages

(* The diagnostics of a load: none of them is about a comment.              *)
LoadKinds == {"ParseFailure", "Manifest"}

(* A line of a file holds at most one suppression comment, collect looking  *)
(* at each line once, and a file is loaded for one package only             *)
(* (WorkspaceLoad's FilesBelong): what silences a finding is in its package.*)
ASSUME WorkspacesAssumption ==
  /\ \A n \in WorkspaceNotes : n.kind \in LoadKinds
  /\ \A ws \in Workspaces : \A p \in Package :
       /\ \A n \in ws[p].loadNotes : n.kind \in LoadKinds
       /\ \A s \in ws[p].sups, q \in Package :
            /\ \A t \in ws[q].sups : s.file = t.file /\ s.comment = t.comment => s = t
            /\ \A r \in Rule : \A f \in ws[q].found[r] : f.file = s.file => p = q

VARIABLES
  cfg,                  \* the AnalysisConfig of the run
  inputs,               \* the contents of each package
  phase,                \* where analyze_with stands
  pkg,                  \* the package being analysed
  wasm,                 \* a module is available to the detectors
  queue,                \* selected rules whose detector is still to be run
  ran, skipped,         \* rules that ran, rules left out for want of a module
  findings,             \* findings of this package so far
  suppressed,           \* those a suppression comment covers
  notes,                \* diagnostics of this package so far
  merged                \* the reports folded together so far

vars == <<cfg, inputs, phase, pkg, wasm, queue, ran, skipped, findings,
          suppressed, notes, merged>>
packageVars == <<wasm, queue, ran, skipped, findings, suppressed, notes>>
fixed == <<cfg, inputs>>

This == inputs[pkg]

EmptyReport == [findings |-> {}, suppressed |-> {}, diagnostics |-> {}, rules |-> {}]

Phase == {"begin", "wasm", "detect", "rank", "suppress", "filter", "merge",
          "finish", "done"}

Init ==
  /\ cfg \in Configs
  /\ inputs \in Workspaces
  /\ phase = "begin" /\ pkg = 1 /\ wasm = FALSE
  /\ queue = {} /\ ran = {} /\ skipped = {}
  /\ findings = {} /\ suppressed = {} /\ notes = {}
  /\ merged = EmptyReport

(* The diagnostics of the load and of the registry, before anything runs.   *)
Begin ==
  /\ phase = "begin"
  /\ notes' = This.loadNotes
       \cup {[kind |-> "UnknownRule", of |-> r] : r \in UnknownEnabled(cfg)}
       \cup {[kind |-> "DuplicateRule", of |-> r] : r \in Duplicates}
  /\ wasm' = FALSE
  /\ queue' = Selected(cfg) /\ ran' = {} /\ skipped' = {}
  /\ findings' = {} /\ suppressed' = {}
  /\ phase' = "wasm"
  /\ UNCHANGED <<fixed, pkg, merged>>

(* Mutant of ResolveWasm: a path that does not load hides the attached      *)
(* module.                                                                  *)
ResolvePathOnly ==
  /\ phase = "wasm"
  /\ wasm' = IF cfg.wasmPath THEN This.wasmLoads ELSE This.wasmAttached
  /\ notes' = notes \cup
       (IF cfg.wasmPath /\ ~This.wasmLoads
          THEN {[kind |-> "Wasm", of |-> This.name]} ELSE {})
  /\ phase' = "detect"
  /\ UNCHANGED <<fixed, pkg, queue, ran, skipped, findings, suppressed, merged>>

(* A module that config.wasm_path names and that does not load is reported, *)
(* and the module attached to the project, if any, is used in its place.    *)
ResolveWasm ==
  /\ phase = "wasm"
  /\ wasm' = HasWasm(cfg, This)
  /\ notes' = notes \cup
       (IF cfg.wasmPath /\ ~This.wasmLoads
          THEN {[kind |-> "Wasm", of |-> This.name]} ELSE {})
  /\ phase' = "detect"
  /\ UNCHANGED <<fixed, pkg, queue, ran, skipped, findings, suppressed, merged>>

(* A registry built by hand keeps the order of its registrations, so the    *)
(* detectors may run in any order.                                          *)
Detect(r) ==
  /\ phase = "detect"
  /\ r \in queue
  /\ Meta[r].wasmOnly => wasm
  /\ findings' = findings \cup {Emitted(f) : f \in This.found[r]}
  /\ ran' = ran \cup {r}
  /\ queue' = queue \ {r}
  /\ UNCHANGED <<fixed, phase, pkg, wasm, skipped, suppressed, notes, merged>>

(* Mutant of SkipDetector: the rule is passed over and nobody is told.      *)
SkipSilently(r) ==
  /\ phase = "detect"
  /\ r \in queue
  /\ Meta[r].wasmOnly /\ ~wasm
  /\ queue' = queue \ {r}
  /\ UNCHANGED <<fixed, phase, pkg, wasm, ran, skipped, findings, suppressed,
                 notes, merged>>

SkipDetector(r) ==
  /\ phase = "detect"
  /\ r \in queue
  /\ Meta[r].wasmOnly /\ ~wasm
  /\ skipped' = skipped \cup {r}
  /\ queue' = queue \ {r}
  /\ UNCHANGED <<fixed, phase, pkg, wasm, ran, findings, suppressed, notes, merged>>

EndDetectors ==
  /\ phase = "detect"
  /\ queue = {}
  /\ notes' = notes \cup
       (IF skipped = {} THEN {} ELSE {[kind |-> "MissingWasm", of |-> skipped]})
  /\ phase' = "rank"
  /\ UNCHANGED <<fixed, pkg, wasm, queue, ran, skipped, findings, suppressed, merged>>

(* finding.severity = config.rules.severity_for(meta), for every finding    *)
Rank ==
  /\ phase = "rank"
  /\ findings' = {Ranked(cfg, x) : x \in findings}
  /\ phase' = "suppress"
  /\ UNCHANGED <<fixed, pkg, wasm, queue, ran, skipped, suppressed, notes, merged>>

Unused(sups, found) == {s \in sups : \A x \in found : ~Covers(s, x.finding)}

UnusedNotes(sups, found) ==
  {[kind |-> "UnusedSuppression", of |-> <<s.file, s.comment>>]
     : s \in Unused(sups, found)}

(* Mutant of Suppress: staleness is judged on what is left afterwards.      *)
SuppressThenJudge ==
  /\ phase = "suppress"
  /\ suppressed' = {x \in findings : Silenced(This.sups, x)}
  /\ findings' = {x \in findings : ~Silenced(This.sups, x)}
  /\ notes' = notes \cup UnusedNotes(This.sups, findings')
  /\ phase' = "filter"
  /\ UNCHANGED <<fixed, pkg, wasm, queue, ran, skipped, merged>>

Suppress ==
  /\ phase = "suppress"
  /\ notes' = notes \cup UnusedNotes(This.sups, findings)
  /\ suppressed' = {x \in findings : Silenced(This.sups, x)}
  /\ findings' = {x \in findings : ~Silenced(This.sups, x)}
  /\ phase' = "filter"
  /\ UNCHANGED <<fixed, pkg, wasm, queue, ran, skipped, merged>>

(* Mutant of Filter: the suppressed findings are brought back before the    *)
(* baseline is applied.                                                     *)
ExtendThenFilter ==
  /\ phase = "filter"
  /\ findings' = {x \in findings \cup (IF cfg.reportSuppressed THEN suppressed ELSE {})
                    : ~InBaseline(cfg, x)}
  /\ phase' = "merge"
  /\ UNCHANGED <<fixed, pkg, wasm, queue, ran, skipped, suppressed, notes, merged>>

(* The baseline applies to what the comments left; report_suppressed brings *)
(* the rest back, accepted or not.                                          *)
Filter ==
  /\ phase = "filter"
  /\ findings' = {x \in findings : ~InBaseline(cfg, x)}
                   \cup (IF cfg.reportSuppressed THEN suppressed ELSE {})
  /\ phase' = "merge"
  /\ UNCHANGED <<fixed, pkg, wasm, queue, ran, skipped, suppressed, notes, merged>>

(* AnalysisReport::merge, the first report being folded into an empty one.  *)
(* The rules of a later report count only while none ran before.            *)
Merge ==
  /\ phase = "merge"
  /\ merged' = [findings    |-> merged.findings \cup findings,
                suppressed  |-> merged.suppressed \cup suppressed,
                diagnostics |-> merged.diagnostics \cup notes,
                rules       |-> IF merged.rules = {} THEN ran ELSE merged.rules]
  /\ IF pkg < NPackages
       THEN pkg' = pkg + 1 /\ phase' = "begin"
       ELSE phase' = "finish" /\ UNCHANGED pkg
  /\ UNCHANGED <<fixed, packageVars>>

Finish ==
  /\ phase = "finish"
  /\ merged' = [findings    |-> merged.findings,
                suppressed  |-> merged.suppressed,
                diagnostics |-> merged.diagnostics \cup WorkspaceNotes,
                rules       |-> merged.rules]
  /\ phase' = "done"
  /\ UNCHANGED <<fixed, pkg, packageVars>>

Next ==
  \/ Begin \/ ResolveWasm
  \/ \E r \in Rule : Detect(r) \/ SkipDetector(r)
  \/ EndDetectors \/ Rank \/ Suppress \/ Filter \/ Merge \/ Finish

Spec == Init /\ [][Next]_vars

--------------------------------------------------------------------------
Promise == INSTANCE AnalysisPromise WITH
  delivered <- IF phase = "done"
                 THEN {[findings    |-> merged.findings,
                        suppressed  |-> merged.suppressed,
                        diagnostics |-> merged.diagnostics]}
                 ELSE {}

TypeOK ==
  /\ cfg \in Configs
  /\ inputs \in Workspaces
  /\ phase \in Phase
  /\ pkg \in Package
  /\ wasm \in BOOLEAN
  /\ queue \in SUBSET Rule /\ ran \in SUBSET Rule /\ skipped \in SUBSET Rule
  /\ DOMAIN merged = {"findings", "suppressed", "diagnostics", "rules"}

(* The diagnostics a package has once its module is resolved.               *)
LoadNotes(c, in) ==
  in.loadNotes
    \cup {[kind |-> "UnknownRule", of |-> r] : r \in UnknownEnabled(c)}
    \cup {[kind |-> "DuplicateRule", of |-> r] : r \in Duplicates}

WasmNotes(c, in) ==
  IF c.wasmPath /\ ~in.wasmLoads THEN {[kind |-> "Wasm", of |-> in.name]} ELSE {}

MissingNotes(c, in) ==
  IF MissingWasm(c, in) = {}
    THEN {} ELSE {[kind |-> "MissingWasm", of |-> MissingWasm(c, in)]}

EmittedBy(rules, in) == {Emitted(f) : f \in UNION {in.found[r] : r \in rules}}

Analysed == IF phase \in {"finish", "done"} THEN Package ELSE 1..(pkg - 1)

(* What each phase has computed when the next one begins.  Every phase      *)
(* overwrites what the one before it left, so the claim that the whole is   *)
(* the promised report rests on their order: staleness is judged before the *)
(* findings are split, the split precedes the baseline, the ranking precedes*)
(* both.                                                                    *)
PhaseInv ==
  /\ phase = "wasm" =>
       /\ queue = Selected(cfg) /\ ran = {} /\ skipped = {}
       /\ findings = {} /\ notes = LoadNotes(cfg, This)
  /\ phase = "detect" =>
       /\ wasm = HasWasm(cfg, This)
       /\ queue \cup ran \cup skipped = Selected(cfg)
       /\ ran \subseteq Runs(cfg, This)
       /\ skipped \subseteq MissingWasm(cfg, This)
       /\ findings = EmittedBy(ran, This)
       /\ notes = LoadNotes(cfg, This) \cup WasmNotes(cfg, This)
  /\ phase \in {"rank", "suppress", "filter", "merge"} =>
       ran = Runs(cfg, This)
  /\ phase = "rank" => findings = EmittedBy(Runs(cfg, This), This)
  /\ phase \in {"rank", "suppress"} =>
       notes = LoadNotes(cfg, This) \cup WasmNotes(cfg, This) \cup MissingNotes(cfg, This)
  /\ phase = "suppress" => findings = FoundIn(cfg, This)
  /\ phase = "filter" => findings = FoundIn(cfg, This) \ SilencedIn(cfg, This)
  /\ phase = "merge" => findings = ReportedIn(cfg, This)
  /\ phase \in {"filter", "merge"} =>
       suppressed = SilencedIn(cfg, This) /\ notes = NotesIn(cfg, This)

MergedInv ==
  /\ phase \in {"finish", "done"} => pkg = NPackages
  /\ merged.findings = UNION {ReportedIn(cfg, inputs[p]) : p \in Analysed}
  /\ merged.suppressed = UNION {SilencedIn(cfg, inputs[p]) : p \in Analysed}
  /\ merged.diagnostics = (UNION {NotesIn(cfg, inputs[p]) : p \in Analysed})
       \cup (IF phase = "done" THEN WorkspaceNotes ELSE {})

PipelineInv == PhaseInv /\ MergedInv

(* No finding disappears without a trace: whatever a registered detector    *)
(* would find in a package is in the merged report, or is listed as         *)
(* suppressed, or is in the accepted baseline, or its rule was switched off *)
(* by the configuration, or the report says that the rule could not run.    *)
(* The code hands findings through five vectors and a merge to get there.   *)
FindingAccountedFor ==
  phase = "done" =>
    \A p \in Package, r \in Rule : \A f \in inputs[p].found[r] :
      \/ \E x \in merged.findings \cup merged.suppressed : x.finding = f
      \/ Fingerprint(f) \in cfg.baseline
      \/ ~IsEnabled(cfg, r)
      \/ \E n \in merged.diagnostics : n.kind = "MissingWasm" /\ r \in n.of

(* The report never calls a comment stale that silences something in it,    *)
(* and every suppressed finding has a comment that is not called stale:     *)
(* deleting the comments the diagnostics list brings no finding back.       *)
SuppressionVerdict ==
  phase = "done" =>
    LET Stale(s) == [kind |-> "UnusedSuppression", of |-> <<s.file, s.comment>>]
                      \in merged.diagnostics
        sups == UNION {inputs[p].sups : p \in Package}
    IN  /\ \A s \in sups : Stale(s) =>
             \A x \in merged.findings \cup merged.suppressed : ~Covers(s, x.finding)
        /\ \A x \in merged.suppressed :
             \E s \in sups : Covers(s, x.finding) /\ ~Stale(s)

(* The phases and the merge implement the one-step promise: the report is   *)
(* the declared function of configuration and packages (AnalysisPromise).   *)
DeliversPromise == Promise!PromiseSpec
==========================================================================
