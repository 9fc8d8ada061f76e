------------------------ MODULE AnalysisRun_proofs ------------------------
(***************************************************************************)
(* Proofs about the analysis pipeline, for every registry, configuration,  *)
(* workspace and number of packages.                                       *)
(***************************************************************************)
EXTENDS AnalysisRun, TLAPS

(* Every phase and every package counter keeps its type.                    *)
THEOREM TypeCorrect == Spec => []TypeOK
<1>1. Init => TypeOK
  <2> SUFFICES ASSUME Init PROVE TypeOK
    OBVIOUS
  <2>1. DOMAIN merged = {"findings", "suppressed", "diagnostics", "rules"}
    BY DEF Init, EmptyReport
  <2>2. 1 \in Package
    BY NPackagesAssumption DEF Package
  <2> QED
    BY <2>1, <2>2 DEF Init, TypeOK, Phase
<1>2. TypeOK /\ [Next]_vars => TypeOK'
  <2> SUFFICES ASSUME TypeOK, [Next]_vars PROVE TypeOK'
    OBVIOUS
  <2> USE DEF TypeOK, Phase, Package, fixed
  <2>1. CASE Begin
    BY <2>1 DEF Begin, Selected
  <2>2. CASE ResolveWasm
    BY <2>2, HasWasm(cfg, This) \in BOOLEAN DEF ResolveWasm, HasWasm
  <2>3. ASSUME NEW r \in Rule, Detect(r) PROVE TypeOK'
    BY <2>3 DEF Detect
  <2>4. ASSUME NEW r \in Rule, SkipDetector(r) PROVE TypeOK'
    BY <2>4 DEF SkipDetector
  <2>5. CASE EndDetectors
    BY <2>5 DEF EndDetectors
  <2>6. CASE Rank
    BY <2>6 DEF Rank
  <2>7. CASE Suppress
    BY <2>7 DEF Suppress
  <2>8. CASE Filter
    BY <2>8 DEF Filter
  <2>9. CASE Merge
    BY <2>9, NPackagesAssumption DEF Merge, packageVars
  <2>10. CASE Finish
    BY <2>10 DEF Finish, packageVars
  <2>11. CASE UNCHANGED vars
    BY <2>11 DEF vars
  <2> QED
    BY <2>1, <2>2, <2>3, <2>4, <2>5, <2>6, <2>7, <2>8, <2>9, <2>10, <2>11 DEF Next
<1> QED BY <1>1, <1>2, PTL DEF Spec
--------------------------------------------------------------------------
(* What each phase computes from what the one before it left.               *)

(* The queue is empty when every selected rule ran or was passed over.      *)
LEMMA QueueEmpty ==
  ASSUME NEW c, NEW in, NEW done, NEW left,
         done \cup left = Selected(c),
         done \subseteq Runs(c, in), left \subseteq MissingWasm(c, in)
  PROVE  done = Runs(c, in) /\ left = MissingWasm(c, in)
BY DEF MissingWasm, Runs

LEMMA RankedIsFound ==
  ASSUME NEW c, NEW in
  PROVE  {Ranked(c, x) : x \in EmittedBy(Runs(c, in), in)} = FoundIn(c, in)
BY DEF EmittedBy, FoundIn

LEMMA NotesAreComplete ==
  ASSUME NEW c, NEW in
  PROVE  (LoadNotes(c, in) \cup WasmNotes(c, in) \cup MissingNotes(c, in))
           \cup UnusedNotes(in.sups, FoundIn(c, in)) = NotesIn(c, in)
BY DEF LoadNotes, WasmNotes, MissingNotes, UnusedNotes, Unused, NotesIn, StaleIn

LEMMA FilteredIsReported ==
  ASSUME NEW c, NEW in
  PROVE  {x \in FoundIn(c, in) \ SilencedIn(c, in) : ~InBaseline(c, x)}
           \cup (IF c.reportSuppressed THEN SilencedIn(c, in) ELSE {})
         = ReportedIn(c, in)
BY DEF SilencedIn, ReportedIn

(* Whatever the registry, the configuration and the packages, every phase   *)
(* leaves what PipelineInv says of it.                                      *)
THEOREM PipelineInvariant == Spec => []PipelineInv
<1>1. Init => PipelineInv
  BY NPackagesAssumption DEF Init, PipelineInv, PhaseInv, MergedInv, Analysed, EmptyReport
<1>2. TypeOK /\ TypeOK' /\ PipelineInv /\ [Next]_vars => PipelineInv'
  <2> SUFFICES ASSUME TypeOK, TypeOK', PhaseInv, MergedInv, [Next]_vars
               PROVE  PhaseInv' /\ MergedInv'
    BY DEF PipelineInv
  <2>1. CASE Begin
    <3>1. PhaseInv'
      BY <2>1 DEF Begin, PhaseInv, This, LoadNotes, fixed
    <3>2. MergedInv'
      BY <2>1 DEF Begin, MergedInv, Analysed, fixed
    <3> QED BY <3>1, <3>2
  <2>2. CASE ResolveWasm
    <3>1. PhaseInv'
      BY <2>2 DEF ResolveWasm, PhaseInv, This, WasmNotes, EmittedBy, fixed
    <3>2. MergedInv'
      BY <2>2 DEF ResolveWasm, MergedInv, Analysed, fixed
    <3> QED BY <3>1, <3>2
  <2>3. ASSUME NEW r \in Rule, Detect(r) PROVE PhaseInv' /\ MergedInv'
    <3>1. PhaseInv'
      <4>1. r \in Runs(cfg, This)
        BY <2>3 DEF Detect, PhaseInv, Runs
      <4>2. findings' = EmittedBy(ran', This)
        BY <2>3 DEF Detect, PhaseInv, EmittedBy
      <4> QED BY <2>3, <4>1, <4>2 DEF Detect, PhaseInv, This, fixed
    <3>2. MergedInv'
      BY <2>3 DEF Detect, MergedInv, Analysed, fixed
    <3> QED BY <3>1, <3>2
  <2>4. ASSUME NEW r \in Rule, SkipDetector(r) PROVE PhaseInv' /\ MergedInv'
    <3>1. PhaseInv'
      <4>1. r \in MissingWasm(cfg, This)
        BY <2>4 DEF SkipDetector, PhaseInv, Runs, MissingWasm
      <4> QED BY <2>4, <4>1 DEF SkipDetector, PhaseInv, This, fixed
    <3>2. MergedInv'
      BY <2>4 DEF SkipDetector, MergedInv, Analysed, fixed
    <3> QED BY <3>1, <3>2
  <2>5. CASE EndDetectors
    <3>1. PhaseInv'
      <4>1. ran = Runs(cfg, This) /\ skipped = MissingWasm(cfg, This)
        BY <2>5, QueueEmpty DEF EndDetectors, PhaseInv
      <4> QED BY <2>5, <4>1 DEF EndDetectors, PhaseInv, This, MissingNotes, fixed
    <3>2. MergedInv'
      BY <2>5 DEF EndDetectors, MergedInv, Analysed, fixed
    <3> QED BY <3>1, <3>2
  <2>6. CASE Rank
    <3>1. PhaseInv'
      BY <2>6, RankedIsFound DEF Rank, PhaseInv, This, fixed
    <3>2. MergedInv'
      BY <2>6 DEF Rank, MergedInv, Analysed, fixed
    <3> QED BY <3>1, <3>2
  <2>7. CASE Suppress
    <3>1. PhaseInv'
      <4>1. notes' = NotesIn(cfg, This)
        BY <2>7, NotesAreComplete DEF Suppress, PhaseInv
      <4>2. /\ suppressed' = SilencedIn(cfg, This)
            /\ findings' = FoundIn(cfg, This) \ SilencedIn(cfg, This)
        BY <2>7 DEF Suppress, PhaseInv, SilencedIn
      <4> QED BY <2>7, <4>1, <4>2 DEF Suppress, PhaseInv, This, fixed
    <3>2. MergedInv'
      BY <2>7 DEF Suppress, MergedInv, Analysed, fixed
    <3> QED BY <3>1, <3>2
  <2>8. CASE Filter
    <3>1. PhaseInv'
      BY <2>8, FilteredIsReported DEF Filter, PhaseInv, This, fixed
    <3>2. MergedInv'
      BY <2>8 DEF Filter, MergedInv, Analysed, fixed
    <3> QED BY <3>1, <3>2
  <2>9. CASE Merge
    <3>1. PhaseInv'
      BY <2>9 DEF Merge, PhaseInv
    <3>2. Analysed' = Analysed \cup {pkg} /\ (phase' = "finish" => pkg' = NPackages)
      BY <2>9, NPackagesAssumption DEF Merge, Analysed, TypeOK, Package
    <3>3. /\ merged'.findings = merged.findings \cup ReportedIn(cfg, This)
          /\ merged'.suppressed = merged.suppressed \cup SilencedIn(cfg, This)
          /\ merged'.diagnostics = merged.diagnostics \cup NotesIn(cfg, This)
      BY <2>9 DEF Merge, PhaseInv
    <3>4. phase \notin {"finish", "done"} /\ phase' # "done"
          /\ cfg' = cfg /\ inputs' = inputs
      BY <2>9 DEF Merge, fixed
    <3>5. MergedInv'
      <4>1. merged'.findings = UNION {ReportedIn(cfg, inputs[p]) : p \in Analysed'}
        BY <3>2, <3>3 DEF MergedInv, This
      <4>2. merged'.suppressed = UNION {SilencedIn(cfg, inputs[p]) : p \in Analysed'}
        BY <3>2, <3>3 DEF MergedInv, This
      <4>3. merged'.diagnostics = UNION {NotesIn(cfg, inputs[p]) : p \in Analysed'}
        BY <3>2, <3>3, <3>4 DEF MergedInv, This
      <4>4. phase' \in {"finish", "done"} => pkg' = NPackages
        BY <3>2, <3>4
      <4> QED BY <3>4, <4>1, <4>2, <4>3, <4>4 DEF MergedInv
    <3> QED BY <3>1, <3>5
  <2>10. CASE Finish
    <3>1. PhaseInv'
      BY <2>10 DEF Finish, PhaseInv
    <3>2. MergedInv'
      BY <2>10 DEF Finish, MergedInv, Analysed, fixed
    <3> QED BY <3>1, <3>2
  <2>11. CASE UNCHANGED vars
    BY <2>11 DEF vars, PhaseInv, MergedInv, Analysed, This, Package
  <2> QED
    BY <2>1, <2>2, <2>3, <2>4, <2>5, <2>6, <2>7, <2>8, <2>9, <2>10, <2>11 DEF Next
<1>3. Spec => []TypeOK
  BY TypeCorrect
<1> QED BY <1>1, <1>2, <1>3, PTL DEF Spec
--------------------------------------------------------------------------
(* What the finished report says.                                           *)

(* The finished report is the promised one, and so says PipelineInv.        *)
LEMMA DoneIsReport ==
  ASSUME PipelineInv, phase = "done"
  PROVE  /\ merged.findings = UNION {ReportedIn(cfg, inputs[p]) : p \in Package}
         /\ merged.suppressed = UNION {SilencedIn(cfg, inputs[p]) : p \in Package}
         /\ merged.diagnostics = (UNION {NotesIn(cfg, inputs[p]) : p \in Package})
                                   \cup WorkspaceNotes
BY DEF PipelineInv, MergedInv, Analysed

(* A detector's finding is in the report, silenced or accepted, or its rule *)
(* is off or reported as not run: on every workspace and configuration.     *)
THEOREM EveryFindingAccountedFor == Spec => []FindingAccountedFor
<1>1. PipelineInv => FindingAccountedFor
  <2> SUFFICES ASSUME PipelineInv, phase = "done",
                      NEW p \in Package, NEW r \in Rule, NEW f \in inputs[p].found[r],
                      Fingerprint(f) \notin cfg.baseline, IsEnabled(cfg, r)
               PROVE  \/ \E x \in merged.findings \cup merged.suppressed : x.finding = f
                      \/ \E n \in merged.diagnostics :
                           n.kind = "MissingWasm" /\ r \in n.of
    BY DEF FindingAccountedFor
  <2>1. CASE r \in MissingWasm(cfg, inputs[p])
    <3> DEFINE n == [kind |-> "MissingWasm", of |-> MissingWasm(cfg, inputs[p])]
    <3>1. n \in NotesIn(cfg, inputs[p])
      BY <2>1 DEF NotesIn
    <3>2. n \in merged.diagnostics
      BY <3>1, DoneIsReport
    <3> QED BY <2>1, <3>2
  <2>2. CASE r \in Runs(cfg, inputs[p])
    <3> DEFINE x == Ranked(cfg, Emitted(f))
    <3>1. x \in FoundIn(cfg, inputs[p])
      BY <2>2 DEF FoundIn
    <3>2. x.finding = f
      BY DEF Ranked, Emitted
    <3>3. CASE Silenced(inputs[p].sups, x)
      <4>1. x \in SilencedIn(cfg, inputs[p])
        BY <3>1, <3>3 DEF SilencedIn
      <4> QED BY <3>2, <4>1, DoneIsReport
    <3>4. CASE ~Silenced(inputs[p].sups, x)
      <4>1. x \in ReportedIn(cfg, inputs[p])
        BY <3>1, <3>2, <3>4 DEF ReportedIn, InBaseline
      <4> QED BY <3>2, <4>1, DoneIsReport
    <3> QED BY <3>3, <3>4
  <2>3. r \in Selected(cfg)
    BY DEF Selected
  <2> QED BY <2>1, <2>2, <2>3 DEF MissingWasm
<1> QED BY <1>1, PipelineInvariant, PTL

(* What a package's findings are silenced by is one of its own comments, and *)
(* one it says is unused silences nothing.                                   *)
LEMMA StaleNote ==
  ASSUME TypeOK, PipelineInv, phase = "done", NEW q \in Package, NEW s \in inputs[q].sups,
         [kind |-> "UnusedSuppression", of |-> <<s.file, s.comment>>] \in merged.diagnostics,
         NEW p \in Package, NEW x \in FoundIn(cfg, inputs[p])
  PROVE  ~Covers(s, x.finding)
<1> DEFINE note == [kind |-> "UnusedSuppression", of |-> <<s.file, s.comment>>]
<1>0. inputs \in Workspaces
  BY DEF TypeOK
<1>1. \/ \E o \in Package : note \in NotesIn(cfg, inputs[o])
      \/ note \in WorkspaceNotes
  BY DoneIsReport
<1>2. note \notin WorkspaceNotes
  BY WorkspacesAssumption DEF LoadKinds
<1>3. PICK o \in Package : note \in NotesIn(cfg, inputs[o])
  BY <1>1, <1>2
<1>4. note \notin inputs[o].loadNotes
  BY <1>0, WorkspacesAssumption DEF LoadKinds
<1>5. PICK t \in StaleIn(cfg, inputs[o]) :
        note = [kind |-> "UnusedSuppression", of |-> <<t.file, t.comment>>]
  BY <1>3, <1>4 DEF NotesIn
<1>6. t \in inputs[o].sups /\ t.file = s.file /\ t.comment = s.comment
  BY <1>5 DEF StaleIn
<1>7. s = t
  BY <1>0, <1>6, WorkspacesAssumption
<1>8. PICK r \in Rule : x.finding \in inputs[p].found[r]
  <2>1. PICK r \in Runs(cfg, inputs[p]) :
          \E f \in inputs[p].found[r] : x = Ranked(cfg, Emitted(f))
    BY DEF FoundIn
  <2>2. \A f : Ranked(cfg, Emitted(f)).finding = f
    BY DEF Ranked, Emitted
  <2> QED BY <2>1, <2>2 DEF Runs, Selected
<1> SUFFICES ASSUME Covers(s, x.finding) PROVE FALSE
  OBVIOUS
<1>9. x.finding.file = s.file
  BY DEF Covers
<1>10. p = o
  BY <1>0, <1>6, <1>7, <1>8, <1>9, WorkspacesAssumption
<1> QED BY <1>5, <1>7, <1>10 DEF StaleIn

(* No comment is called stale that silences something in the report, its own *)
(* package's or another's, and whatever is suppressed has a comment that is  *)
(* not (analysis.rs 526-545): deleting the stale ones brings nothing back.   *)
THEOREM VerdictIsRight == Spec => []SuppressionVerdict
<1>1. TypeOK /\ PipelineInv => SuppressionVerdict
  <2> SUFFICES ASSUME TypeOK, PipelineInv, phase = "done" PROVE SuppressionVerdict
    BY DEF SuppressionVerdict
  <2> DEFINE Stale(s) == [kind |-> "UnusedSuppression", of |-> <<s.file, s.comment>>]
                           \in merged.diagnostics
             sups == UNION {inputs[p].sups : p \in Package}
  <2>1. ASSUME NEW s \in sups, Stale(s), NEW x \in merged.findings \cup merged.suppressed
        PROVE  ~Covers(s, x.finding)
    <3>1. PICK q \in Package : s \in inputs[q].sups
      OBVIOUS
    <3>2. PICK p \in Package : x \in ReportedIn(cfg, inputs[p]) \cup SilencedIn(cfg, inputs[p])
      BY DoneIsReport
    <3>3. x \in FoundIn(cfg, inputs[p])
      BY <3>2 DEF ReportedIn, SilencedIn
    <3> QED BY <2>1, <3>1, <3>3, StaleNote
  <2>2. ASSUME NEW x \in merged.suppressed
        PROVE  \E s \in sups : Covers(s, x.finding) /\ ~Stale(s)
    <3>1. PICK p \in Package : x \in SilencedIn(cfg, inputs[p])
      BY DoneIsReport
    <3>2. PICK s \in inputs[p].sups : Covers(s, x.finding)
      BY <3>1 DEF SilencedIn, Silenced
    <3> HIDE DEF Stale
    <3> QED BY <2>1, <3>2
  <2> HIDE DEF Stale, sups
  <2>3. /\ \A s \in sups : Stale(s) =>
             \A x \in merged.findings \cup merged.suppressed : ~Covers(s, x.finding)
        /\ \A x \in merged.suppressed : \E s \in sups : Covers(s, x.finding) /\ ~Stale(s)
    BY <2>1, <2>2
  <2> QED BY <2>3 DEF SuppressionVerdict, Stale, sups
<1> QED BY <1>1, TypeCorrect, PipelineInvariant, PTL

--------------------------------------------------------------------------
(* The refinement.  The operators of Findings are instantiated a second     *)
(* time inside AnalysisPromise; these lemmas say they are the same.         *)

LEMMA SameFound ==
  ASSUME NEW c, NEW in
  PROVE  /\ Promise!FoundIn(c, in) = FoundIn(c, in)
         /\ Promise!MissingWasm(c, in) = MissingWasm(c, in)
<1>1. Promise!Runs(c, in) = Runs(c, in)
  BY DEF Promise!Runs, Runs, Promise!HasWasm, HasWasm, Promise!Selected, Selected,
         Promise!IsEnabled, IsEnabled
<1>2. Promise!Selected(c) = Selected(c)
  BY DEF Promise!Selected, Selected, Promise!IsEnabled, IsEnabled
<1>3. ASSUME NEW x PROVE Promise!Ranked(c, x) = Ranked(c, x)
  BY DEF Promise!Ranked, Ranked, Promise!SeverityFor, SeverityFor
<1>4. ASSUME NEW f PROVE Promise!Emitted(f) = Emitted(f)
  BY DEF Promise!Emitted, Emitted
<1> QED
  BY <1>1, <1>2, <1>3, <1>4
  DEF Promise!FoundIn, FoundIn, Promise!MissingWasm, MissingWasm

LEMMA SameCovers ==
  ASSUME NEW s, NEW f
  PROVE  Promise!Covers(s, f) = Covers(s, f)
BY DEF Promise!Covers, Covers

LEMMA SameSilenced ==
  ASSUME NEW c, NEW in
  PROVE  Promise!SilencedIn(c, in) = SilencedIn(c, in)
BY SameFound, SameCovers
DEF Promise!SilencedIn, SilencedIn, Promise!Silenced, Silenced

LEMMA SameReported ==
  ASSUME NEW c, NEW in
  PROVE  Promise!ReportedIn(c, in) = ReportedIn(c, in)
<1>1. ASSUME NEW x
      PROVE  /\ Promise!InBaseline(c, x) = InBaseline(c, x)
             /\ Promise!Silenced(in.sups, x) = Silenced(in.sups, x)
  BY SameCovers DEF Promise!InBaseline, InBaseline, Promise!Fingerprint, Fingerprint,
                    Promise!Silenced, Silenced
<1> QED
  BY <1>1, SameFound, SameSilenced DEF Promise!ReportedIn, ReportedIn

LEMMA SameNotes ==
  ASSUME NEW c, NEW in
  PROVE  Promise!NotesIn(c, in) = NotesIn(c, in)
<1>1. Promise!StaleIn(c, in) = StaleIn(c, in)
  BY SameFound, SameCovers DEF Promise!StaleIn, StaleIn
<1>2. Promise!UnknownEnabled(c) = UnknownEnabled(c)
  BY DEF Promise!UnknownEnabled, UnknownEnabled
<1> QED
  BY <1>1, <1>2, SameFound DEF Promise!NotesIn, NotesIn

(* The phases and the merge implement the one-step promise.                 *)
THEOREM RunDeliversPromise == Spec => DeliversPromise
<1> DEFINE promised ==
      IF phase = "done" THEN {[findings    |-> merged.findings,
                               suppressed  |-> merged.suppressed,
                               diagnostics |-> merged.diagnostics]}
                        ELSE {}
<1>1. Init => Promise!PromiseInit
  BY DEF Init, Promise!PromiseInit
<1>2. PipelineInv' /\ [Next]_vars => [Promise!Deliver]_(Promise!promiseVars)
  <2> SUFFICES ASSUME PipelineInv', [Next]_vars
               PROVE  \/ Promise!Deliver
                      \/ cfg' = cfg /\ inputs' = inputs /\ promised' = promised
    BY DEF Promise!promiseVars
  <2>1. CASE Finish
    <3>1. /\ merged'.findings = UNION {ReportedIn(cfg, inputs[p]) : p \in Package}
          /\ merged'.suppressed = UNION {SilencedIn(cfg, inputs[p]) : p \in Package}
          /\ merged'.diagnostics =
               (UNION {NotesIn(cfg, inputs[p]) : p \in Package}) \cup WorkspaceNotes
      BY <2>1 DEF Finish, PipelineInv, MergedInv, Analysed, fixed
    <3>2. Promise!Package = Package
      BY DEF Promise!Package, Package
    <3>3. Promise!Report = [findings    |-> merged'.findings,
                            suppressed  |-> merged'.suppressed,
                            diagnostics |-> merged'.diagnostics]
      BY <3>1, <3>2, SameReported, SameSilenced, SameNotes DEF Promise!Report
    <3> QED BY <2>1, <3>3 DEF Finish, Promise!Deliver, fixed
  <2>2. CASE \/ Begin \/ ResolveWasm \/ EndDetectors \/ Rank \/ Suppress
             \/ Filter \/ Merge \/ \E r \in Rule : Detect(r) \/ SkipDetector(r)
    <3>1. phase # "done" /\ phase' # "done" /\ cfg' = cfg /\ inputs' = inputs
      BY <2>2 DEF Begin, ResolveWasm, EndDetectors, Rank, Suppress, Filter, Merge,
                  Detect, SkipDetector, fixed
    <3> QED BY <3>1
  <2>3. CASE UNCHANGED vars
    BY <2>3 DEF vars
  <2> QED BY <2>1, <2>2, <2>3 DEF Next
<1> QED
  BY <1>1, <1>2, PipelineInvariant, PTL DEF Spec, DeliversPromise, Promise!PromiseSpec
==========================================================================
