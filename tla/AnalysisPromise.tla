-------------------------- MODULE AnalysisPromise --------------------------
(***************************************************************************)
(* What analysing the packages of a workspace under one configuration      *)
(* promises, told without phases: one report that is a function of the     *)
(* configuration and of what each package contains.                        *)
(***************************************************************************)
EXTENDS Findings

CONSTANTS
  NPackages,            \* the packages are 1..NPackages, in path order
  Configs,              \* the configurations considered
  Workspaces,           \* the contents of the packages considered
  WorkspaceNotes        \* what loading the workspace had to say

Package == 1..NPackages

VARIABLES
  cfg,                  \* the AnalysisConfig of the run
  inputs,               \* the contents of each package
  delivered             \* {} until the report is there, then {report}

promiseVars == <<cfg, inputs, delivered>>

Report ==
  [findings    |-> UNION {ReportedIn(cfg, inputs[p]) : p \in Package},
   suppressed  |-> UNION {SilencedIn(cfg, inputs[p]) : p \in Package},
   diagnostics |-> (UNION {NotesIn(cfg, inputs[p]) : p \in Package})
                     \cup WorkspaceNotes]

PromiseInit ==
  /\ cfg \in Configs
  /\ inputs \in Workspaces
  /\ delivered = {}

Deliver ==
  /\ delivered = {}
  /\ delivered' = {Report}
  /\ UNCHANGED <<cfg, inputs>>

PromiseSpec == PromiseInit /\ [][Deliver]_promiseVars
==========================================================================
