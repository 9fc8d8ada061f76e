----------------------------- MODULE Findings -----------------------------
(***************************************************************************)
(* What a finding, a suppression and a configuration are to each other:    *)
(* the pure decisions of finding.rs, suppression.rs, config.rs and         *)
(* registry.rs that the run of an analysis (AnalysisRun) and the command   *)
(* line (CliWorkflow) are built from.                                      *)
(*                                                                         *)
(* A finding is a record                                                   *)
(*   rule  the rule that produced it                                       *)
(*   file  the source file of its primary location, NoFile for a location  *)
(*         inside the compiled module, which belongs to no source file     *)
(*   line  the first line of that location, 0 when the span is unknown     *)
(*   fn    the function of that location                                   *)
(*   own   the severity the detector gave this finding                     *)
(*   nth   what the message tells apart and the location does not          *)
(* and, once it is in the pipeline, it carries the severity it is reported *)
(* with: [finding, severity].                                              *)
(*                                                                         *)
(* A suppression is a record file, lo, hi, rules, fileWide, comment: the   *)
(* file and line of the comment and the lines it covers; rules = {} is the *)
(* code's None, every rule.  How lo..hi is found is Suppression's subject. *)
(***************************************************************************)
EXTENDS Integers

CONSTANTS
  Rule,        \* the ids of the rules the registry has a detector for
  Meta,        \* [Rule -> [severity, category, onByDefault, wasmOnly]]
  NoFile,      \* the file_id None of a wasm location
  Duplicates   \* rules registered more than once, the first kept

Severity == 0..4        \* Info, Low, Medium, High, Critical

(* Suppression::covers, without the guard that a primary location exists:   *)
(* every detector sets one.                                                 *)
Covers(s, f) ==
  /\ f.file = s.file
  /\ s.rules = {} \/ f.rule \in s.rules
  /\ s.fileWide \/ f.line = 0 \/ f.line \in s.lo..s.hi

(* Finding::fingerprint: the hash is taken as injective on what it is fed.  *)
Fingerprint(f) == <<f.rule, f.file, f.line, f.fn>>

(* RuleConfig::is_enabled                                                   *)
IsEnabled(cfg, r) ==
  /\ r \notin cfg.disabled
  /\ cfg.categories = {} \/ Meta[r].category \in cfg.categories
  /\ IF cfg.enabled = {} THEN Meta[r].onByDefault ELSE r \in cfg.enabled

(* DetectorRegistry::selected and ::unknown_enabled_rules                   *)
Selected(cfg) == {r \in Rule : IsEnabled(cfg, r)}
UnknownEnabled(cfg) == cfg.enabled \ Rule

(* RuleConfig::severity_for                                                 *)
SeverityFor(cfg, r) ==
  IF r \in DOMAIN cfg.severity THEN cfg.severity[r] ELSE Meta[r].severity

(* A finding as its detector emits it, and as the user's ranking leaves it. *)
Emitted(f) == [finding |-> f, severity |-> f.own]
Ranked(cfg, x) == [x EXCEPT !.severity = SeverityFor(cfg, x.finding.rule)]

Silenced(sups, x) == \E s \in sups : Covers(s, x.finding)
InBaseline(cfg, x) == Fingerprint(x.finding) \in cfg.baseline

(* AnalysisReport::has_findings_at_or_above                                 *)
HasFindingsAtOrAbove(findings, threshold) ==
  \E x \in findings : x.severity >= threshold

--------------------------------------------------------------------------
(* What a configuration makes of one package.  A package's contents are a   *)
(* record                                                                   *)
(*   name          its display path                                         *)
(*   loadNotes     diagnostics of loading it (a file that did not parse)    *)
(*   found         what each rule's detector finds in it                    *)
(*   sups          the suppression comments in it                           *)
(*   wasmAttached  a compiled module was attached to the project            *)
(*   wasmLoads     config.wasm_path names a module that loads               *)
HasWasm(cfg, in) == (cfg.wasmPath /\ in.wasmLoads) \/ in.wasmAttached

Runs(cfg, in) == {r \in Selected(cfg) : Meta[r].wasmOnly => HasWasm(cfg, in)}

(* Everything the rules that run find in the package, ranked by the user.   *)
FoundIn(cfg, in) ==
  {Ranked(cfg, Emitted(f)) : f \in UNION {in.found[r] : r \in Runs(cfg, in)}}

SilencedIn(cfg, in) == {x \in FoundIn(cfg, in) : Silenced(in.sups, x)}

ReportedIn(cfg, in) ==
  {x \in FoundIn(cfg, in) : ~Silenced(in.sups, x) /\ ~InBaseline(cfg, x)}
    \cup (IF cfg.reportSuppressed THEN SilencedIn(cfg, in) ELSE {})

StaleIn(cfg, in) == {s \in in.sups : \A x \in FoundIn(cfg, in) : ~Covers(s, x.finding)}

MissingWasm(cfg, in) == Selected(cfg) \ Runs(cfg, in)

NotesIn(cfg, in) ==
  in.loadNotes
    \cup {[kind |-> "UnknownRule", of |-> r] : r \in UnknownEnabled(cfg)}
    \cup {[kind |-> "DuplicateRule", of |-> r] : r \in Duplicates}
    \cup (IF cfg.wasmPath /\ ~in.wasmLoads
            THEN {[kind |-> "Wasm", of |-> in.name]} ELSE {})
    \cup (IF MissingWasm(cfg, in) # {}
            THEN {[kind |-> "MissingWasm", of |-> MissingWasm(cfg, in)]} ELSE {})
    \cup {[kind |-> "UnusedSuppression", of |-> <<s.file, s.comment>>]
            : s \in StaleIn(cfg, in)}
==========================================================================
