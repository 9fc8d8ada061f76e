---------------------------- MODULE CliWorkflow ----------------------------
(***************************************************************************)
(* The command line as its users live with it: a sequence of runs of       *)
(* soroban-sec over a contract that changes between the runs, with a       *)
(* baseline file that some runs write and other runs read                  *)
(* (src/crates/soroban-sec/src/main.rs).                                   *)
(*                                                                         *)
(* One run goes through main.rs's run(): load the configuration and the    *)
(* baseline, analyse, write the report, then either write the baseline or  *)
(* judge the threshold.  Reading a file and writing a report may fail, and *)
(* writing the baseline truncates the file before it fills it, so a run    *)
(* may die between the two.  What the analysis reports is the declared     *)
(* function of Findings, which AnalysisRun shows the phases to compute.    *)
(***************************************************************************)
EXTENDS Findings

CONSTANTS
  Universe,       \* the findings the contract's code can give rise to
  Comments,       \* the suppression comments it can carry
  Thresholds,     \* the severities --fail-on may name
  Unset           \* an option not given, and no baseline file

ASSUME UnsetAssumption ==
  /\ \A S \in SUBSET {Fingerprint(f) : f \in Universe} : Unset # S
  /\ Unset \notin 0..2
ASSUME ThresholdAssumption == Unset \notin Thresholds

Invocation == [baseline : BOOLEAN, writeBaseline : BOOLEAN,
               failOn : Thresholds \cup {Unset}, reportSuppressed : BOOLEAN]

VARIABLES
  code,           \* the findings the code as it stands gives rise to
  comments,       \* the suppression comments it carries
  file,           \* the fingerprints in the baseline file, or Unset
  flags,          \* the options of the run under way
  pc,             \* where that run stands
  config,         \* its AnalysisConfig
  report,         \* the findings of its report
  exit,           \* the exit code of the run that just ended
  presented,      \* history: fingerprints in a report that was written by a
                  \* run asked to record a baseline
  recorded        \* history: what the run that filled the file saw

vars == <<code, comments, file, flags, pc, config, report, exit, presented, recorded>>
contract == <<code, comments>>
history == <<presented, recorded>>

SUCCESS == 0
EXIT_FINDINGS == 1
EXIT_ERROR == 2

Contents == [name |-> "contract", loadNotes |-> {},
             found |-> [r \in Rule |-> {f \in code : f.rule = r}],
             sups |-> comments, wasmAttached |-> FALSE, wasmLoads |-> FALSE]

(* The contract's configuration file leaves the rules as they are; it may   *)
(* ask for suppressed findings, and the options add the baseline.           *)
RunConfig(show, accepted) ==
  [enabled |-> {}, disabled |-> {}, categories |-> {}, severity |-> << >>,
   baseline |-> accepted, reportSuppressed |-> show, wasmPath |-> FALSE]

Fingerprints(findings) == {Fingerprint(x.finding) : x \in findings}

Init ==
  /\ code \in SUBSET Universe /\ comments \in SUBSET Comments
  /\ file = Unset
  /\ flags \in Invocation
  /\ pc = "idle"
  /\ config = RunConfig(FALSE, {})
  /\ report = {} /\ exit = Unset
  /\ presented = {} /\ recorded = Unset

(* The process is gone, and its memory with it.                             *)
End(status) ==
  /\ exit' = status /\ pc' = "idle"
  /\ config' = RunConfig(FALSE, {}) /\ report' = {}

--------------------------------------------------------------------------
(* Between two runs the developer edits the contract.                       *)
EditCode ==
  /\ pc = "idle"
  /\ \E f \in Universe : code' = (code \ {f}) \cup ({f} \ code)
  /\ exit' = Unset
  /\ UNCHANGED <<comments, file, flags, pc, config, report, history>>

EditComments ==
  /\ pc = "idle"
  /\ \E s \in Comments : comments' = (comments \ {s}) \cup ({s} \ comments)
  /\ exit' = Unset
  /\ UNCHANGED <<code, file, flags, pc, config, report, history>>

Invoke ==
  /\ pc = "idle"
  /\ flags' \in Invocation
  /\ pc' = "load"
  /\ exit' = Unset
  /\ UNCHANGED <<contract, file, config, report, history>>

--------------------------------------------------------------------------
(* Mutant of LoadConfig: the fingerprints of the file are read and dropped. *)
LoadConfigOnly ==
  /\ pc = "load"
  /\ flags.baseline => file # Unset
  /\ config' = RunConfig(flags.reportSuppressed, {})
  /\ pc' = "analyze"
  /\ UNCHANGED <<contract, file, flags, report, exit, history>>

LoadConfig ==
  /\ pc = "load"
  /\ flags.baseline => file # Unset
  /\ config' = RunConfig(flags.reportSuppressed, IF flags.baseline THEN file ELSE {})
  /\ pc' = "analyze"
  /\ UNCHANGED <<contract, file, flags, report, exit, history>>

(* A configuration that cannot be read, a baseline that is not there.       *)
LoadFails ==
  /\ pc = "load"
  /\ End(EXIT_ERROR)
  /\ UNCHANGED <<contract, file, flags, history>>

Analyze ==
  /\ pc = "analyze"
  /\ report' = ReportedIn(config, Contents)
  /\ pc' = "output"
  /\ UNCHANGED <<contract, file, flags, config, exit, history>>

Present ==
  presented' = IF flags.writeBaseline THEN presented \cup Fingerprints(report)
                                      ELSE presented

(* Mutant of WriteOutput: a report that could not be written is ignored.    *)
WriteOutputOrNot ==
  /\ pc = "output"
  /\ Present \/ UNCHANGED presented
  /\ pc' = IF flags.writeBaseline THEN "open" ELSE "judge"
  /\ UNCHANGED <<contract, file, flags, config, report, exit, recorded>>

WriteOutput ==
  /\ pc = "output"
  /\ Present
  /\ pc' = IF flags.writeBaseline THEN "open" ELSE "judge"
  /\ UNCHANGED <<contract, file, flags, config, report, exit, recorded>>

OutputFails ==
  /\ pc = "output"
  /\ End(EXIT_ERROR)
  /\ UNCHANGED <<contract, file, flags, history>>

(* std::fs::write opens with truncation.                                    *)
OpenBaseline ==
  /\ pc = "open"
  /\ file' = {} /\ recorded' = Unset
  /\ pc' = "fill"
  /\ UNCHANGED <<contract, flags, config, report, exit, presented>>

OpenFails ==
  /\ pc = "open"
  /\ End(EXIT_ERROR)
  /\ UNCHANGED <<contract, file, flags, history>>

(* The run ends with success whatever --fail-on says.                       *)
FillBaseline ==
  /\ pc = "fill"
  /\ file' = Fingerprints(report)
  /\ recorded' = [code |-> code, comments |-> comments, filtered |-> flags.baseline]
  /\ End(SUCCESS)
  /\ UNCHANGED <<contract, flags, presented>>

(* The disk is full or the process is killed: the file holds the lines that *)
(* were written.  Any subset stands for the prefixes of the sorted list; a  *)
(* torn last line is a fingerprint of nothing.                              *)
FillFails ==
  /\ pc = "fill"
  /\ file' \in SUBSET Fingerprints(report)
  /\ End(EXIT_ERROR)
  /\ UNCHANGED <<contract, flags, history>>

(* Mutant of Judge: the threshold itself is let through.                    *)
JudgeAbove ==
  /\ pc = "judge"
  /\ End(IF flags.failOn # Unset /\ HasFindingsAtOrAbove(report, flags.failOn + 1)
           THEN EXIT_FINDINGS ELSE SUCCESS)
  /\ UNCHANGED <<contract, file, flags, history>>

Judge ==
  /\ pc = "judge"
  /\ End(IF flags.failOn # Unset /\ HasFindingsAtOrAbove(report, flags.failOn)
           THEN EXIT_FINDINGS ELSE SUCCESS)
  /\ UNCHANGED <<contract, file, flags, history>>

Next ==
  \/ EditCode \/ EditComments \/ Invoke
  \/ LoadConfig \/ LoadFails \/ Analyze
  \/ WriteOutput \/ OutputFails
  \/ OpenBaseline \/ OpenFails \/ FillBaseline \/ FillFails
  \/ Judge

Spec == Init /\ [][Next]_vars

--------------------------------------------------------------------------
Phases == {"idle", "load", "analyze", "output", "open", "fill", "judge"}

TypeOK ==
  /\ code \in SUBSET Universe /\ comments \in SUBSET Comments
  /\ file = Unset \/ file \in SUBSET {Fingerprint(f) : f \in Universe}
  /\ flags \in Invocation
  /\ pc \in Phases
  /\ config.baseline \in SUBSET {Fingerprint(f) : f \in Universe}
  /\ exit \in {SUCCESS, EXIT_FINDINGS, EXIT_ERROR, Unset}
  /\ presented \in SUBSET {Fingerprint(f) : f \in Universe}

(* A run that gates and says success.                                       *)
GatePassed ==
  /\ pc = "idle" /\ exit = SUCCESS
  /\ flags.failOn # Unset /\ ~flags.writeBaseline

(* What the rules that need no compiled module find in a state of the       *)
(* contract and no comment silences.                                        *)
Open(found, sups) ==
  {f \in found : /\ f.rule \in Selected(RunConfig(FALSE, {}))
                 /\ ~Meta[f.rule].wasmOnly
                 /\ \A s \in sups : ~Covers(s, f)}

(* A gate lets nothing through that nobody has seen: when a run with        *)
(* --fail-on succeeds, every finding of the code at that severity or above  *)
(* is silenced by a comment, or its fingerprint was in a report that some   *)
(* earlier recording run wrote out before it touched the baseline - however *)
(* often the baseline was rewritten, torn by a crash, or left from code     *)
(* that has changed since.                                                  *)
NothingPassesUnseen ==
  GatePassed =>
    \A f \in Open(code, comments) :
      SeverityFor(RunConfig(FALSE, {}), f.rule) >= flags.failOn
      => Fingerprint(f) \in presented

(* What holds in every state of a run: the report is the one the            *)
(* configuration at hand promises, everything the file or the configuration *)
(* accepts was presented, and a file that is the record of an unfiltered    *)
(* run accepts all that was open then.                                      *)
BaselineInv ==
  /\ pc # "idle" => exit = Unset
  /\ pc \in {"analyze", "output", "open", "fill", "judge"} =>
       /\ config = RunConfig(flags.reportSuppressed, config.baseline)
       /\ ~flags.baseline => config.baseline = {}
  /\ pc \in {"analyze", "output", "judge"} /\ flags.baseline =>
       file # Unset /\ config.baseline = file
  /\ pc \in {"output", "open", "fill", "judge"} => report = ReportedIn(config, Contents)
  /\ pc \in {"open", "fill"} =>
       flags.writeBaseline /\ Fingerprints(report) \subseteq presented
  /\ pc = "judge" => ~flags.writeBaseline
  /\ pc = "fill" => recorded = Unset
  /\ file # Unset => file \subseteq presented
  /\ recorded # Unset /\ ~recorded.filtered =>
       \A f \in Open(recorded.code, recorded.comments) : Fingerprint(f) \in file

(* Recording the findings and gating on the record passes as long as the    *)
(* contract has not changed (tests/baseline.rs), whatever happened before   *)
(* the recording and in between - if the recording run did not itself       *)
(* filter by a baseline, and the gate does not bring back what comments     *)
(* silence.                                                                 *)
Gated == flags.baseline /\ ~flags.writeBaseline /\ ~flags.reportSuppressed

UnchangedSince(r) == r # Unset /\ r.code = code /\ r.comments = comments

RecordedPasses ==
  /\ pc = "idle" /\ Gated
  /\ UnchangedSince(recorded) /\ ~recorded.filtered
  => exit # EXIT_FINDINGS
==========================================================================
