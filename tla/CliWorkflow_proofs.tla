------------------------ MODULE CliWorkflow_proofs ------------------------
(***************************************************************************)
(* Proofs about the baseline workflow, for every registry, every contract  *)
(* and every set of thresholds.                                            *)
(***************************************************************************)
EXTENDS CliWorkflow, TLAPS

(* What is open is found by every run, ranked as without options.           *)
LEMMA OpenIsFound ==
  ASSUME NEW show, NEW accepted, NEW f \in Open(code, comments)
  PROVE  \E x \in FoundIn(RunConfig(show, accepted), Contents) :
           /\ ~Silenced(Contents.sups, x)
           /\ x.finding = f
           /\ x.severity = SeverityFor(RunConfig(FALSE, {}), f.rule)
<1> DEFINE c == RunConfig(show, accepted)
           x == Ranked(c, Emitted(f))
<1>1. x.finding = f /\ x.severity = SeverityFor(c, f.rule)
  BY DEF Ranked, Emitted
<1>2. SeverityFor(c, f.rule) = SeverityFor(RunConfig(FALSE, {}), f.rule)
  BY DEF SeverityFor, RunConfig
<1>3. f.rule \in Runs(c, Contents)
  BY DEF Open, Runs, Selected, IsEnabled, RunConfig
<1>4. f \in Contents.found[f.rule]
  BY DEF Open, Contents, Selected
<1>5. x \in FoundIn(c, Contents)
  BY <1>3, <1>4 DEF FoundIn
<1>6. ~Silenced(Contents.sups, x)
  BY <1>1 DEF Open, Silenced, Contents
<1> QED BY <1>1, <1>2, <1>5, <1>6

(* An open finding is reported unless the configuration accepts it.         *)
LEMMA OpenIsReported ==
  ASSUME NEW show, NEW accepted, NEW f \in Open(code, comments),
         Fingerprint(f) \notin accepted
  PROVE  \E x \in ReportedIn(RunConfig(show, accepted), Contents) :
           x.finding = f /\ x.severity = SeverityFor(RunConfig(FALSE, {}), f.rule)
<1> DEFINE c == RunConfig(show, accepted)
<1>1. PICK x \in FoundIn(c, Contents) :
        /\ ~Silenced(Contents.sups, x)
        /\ x.finding = f /\ x.severity = SeverityFor(RunConfig(FALSE, {}), f.rule)
  BY OpenIsFound
<1>2. ~InBaseline(c, x)
  BY <1>1 DEF InBaseline, RunConfig
<1>3. x \in ReportedIn(c, Contents)
  BY <1>1, <1>2 DEF ReportedIn
<1> QED BY <1>1, <1>3

(* Every reported finding is one of the code's.                             *)
LEMMA FoundInCode ==
  ASSUME NEW c, NEW x \in ReportedIn(c, Contents)
  PROVE  x.finding \in code
<1>1. x \in FoundIn(c, Contents)
  BY DEF ReportedIn, SilencedIn
<1>2. PICK r \in Runs(c, Contents) :
        \E f \in Contents.found[r] : x = Ranked(c, Emitted(f))
  BY <1>1 DEF FoundIn
<1> PICK f \in Contents.found[r] : x = Ranked(c, Emitted(f))
  BY <1>2
<1>3. x.finding = f
  BY DEF Ranked, Emitted
<1>4. f \in code
  BY DEF Runs, Selected, Contents
<1> QED BY <1>3, <1>4

(* A run that brings back nothing reports only what is open and not         *)
(* accepted.                                                                *)
LEMMA ReportedIsOpen ==
  ASSUME NEW accepted, NEW x \in ReportedIn(RunConfig(FALSE, accepted), Contents)
  PROVE  x.finding \in Open(code, comments) /\ Fingerprint(x.finding) \notin accepted
<1> DEFINE c == RunConfig(FALSE, accepted)
<1>1. x \in FoundIn(c, Contents) /\ ~Silenced(Contents.sups, x) /\ ~InBaseline(c, x)
  BY DEF ReportedIn, RunConfig
<1>2. PICK r \in Runs(c, Contents) :
        \E f \in Contents.found[r] : x = Ranked(c, Emitted(f))
  BY <1>1 DEF FoundIn
<1> PICK f \in Contents.found[r] : x = Ranked(c, Emitted(f))
  BY <1>2
<1>3. x.finding = f
  BY DEF Ranked, Emitted
<1>4. r \in Rule /\ f \in code /\ f.rule = r
  BY <1>2 DEF Runs, Selected, Contents
<1>5. r \in Selected(RunConfig(FALSE, {})) /\ ~Meta[r].wasmOnly
  BY <1>2 DEF Runs, HasWasm, Contents, Selected, IsEnabled, RunConfig
<1>6. \A s \in comments : ~Covers(s, f)
  BY <1>1, <1>3 DEF Silenced, Contents
<1> QED BY <1>1, <1>3, <1>4, <1>5, <1>6 DEF Open, InBaseline, RunConfig

--------------------------------------------------------------------------
(* What holds in every state of every sequence of runs.                     *)
THEOREM BaselineInvariant == Spec => []BaselineInv
<1>1. Init => BaselineInv
  BY DEF Init, BaselineInv
<1>2. BaselineInv /\ [Next]_vars => BaselineInv'
  <2> SUFFICES ASSUME BaselineInv, [Next]_vars PROVE BaselineInv'
    OBVIOUS
  <2> USE DEF BaselineInv, contract, history
  <2>1. CASE EditCode
    BY <2>1 DEF EditCode
  <2>2. CASE EditComments
    BY <2>2 DEF EditComments
  <2>3. CASE Invoke
    BY <2>3 DEF Invoke
  <2>4. CASE LoadConfig
    BY <2>4 DEF LoadConfig, RunConfig
  <2>5. CASE LoadFails
    BY <2>5 DEF LoadFails, End
  <2>6. CASE Analyze
    BY <2>6 DEF Analyze, Contents
  <2>7. CASE WriteOutput
    BY <2>7 DEF WriteOutput, Present, Contents
  <2>8. CASE OutputFails
    BY <2>8 DEF OutputFails, End
  <2>9. CASE OpenBaseline
    BY <2>9 DEF OpenBaseline, Contents
  <2>10. CASE OpenFails
    BY <2>10 DEF OpenFails, End
  <2>11. CASE FillBaseline
    <3>1. ASSUME ~flags.baseline, NEW f \in Open(code, comments)
          PROVE  Fingerprint(f) \in Fingerprints(report)
      <4>1. PICK x \in ReportedIn(RunConfig(flags.reportSuppressed, {}), Contents) :
              x.finding = f
        <5>1. \A a : Fingerprint(f) \notin a =>
                \E x \in ReportedIn(RunConfig(flags.reportSuppressed, a), Contents) :
                  x.finding = f
          BY OpenIsReported
        <5> QED BY <5>1
      <4>2. x \in report
        BY <2>11, <3>1, <4>1 DEF FillBaseline
      <4> QED BY <4>1, <4>2 DEF Fingerprints
    <3>2. recorded' = [code |-> code, comments |-> comments, filtered |-> flags.baseline]
          /\ file' = Fingerprints(report) /\ presented' = presented
          /\ pc' = "idle" /\ Fingerprints(report) \subseteq presented
      BY <2>11 DEF FillBaseline, End
    <3> QED BY <3>1, <3>2
  <2>12. CASE FillFails
    BY <2>12 DEF FillFails, End
  <2>13. CASE Judge
    BY <2>13 DEF Judge, End
  <2>14. CASE UNCHANGED vars
    BY <2>14 DEF vars, Contents
  <2> QED
    BY <2>1, <2>2, <2>3, <2>4, <2>5, <2>6, <2>7, <2>8, <2>9, <2>10, <2>11,
       <2>12, <2>13, <2>14 DEF Next
<1> QED BY <1>1, <1>2, PTL DEF Spec

(* Every option, file, exit code and history keeps its type.               *)
THEOREM TypeCorrect == Spec => []TypeOK
<1> DEFINE Known == {Fingerprint(f) : f \in Universe}
<1>1. Init => TypeOK
  BY DEF Init, TypeOK, Phases, RunConfig
<1>2. BaselineInv /\ TypeOK /\ [Next]_vars => TypeOK'
  <2> SUFFICES ASSUME BaselineInv, TypeOK, [Next]_vars PROVE TypeOK'
    OBVIOUS
  <2> USE DEF TypeOK, Phases, contract, history, SUCCESS, EXIT_FINDINGS, EXIT_ERROR
  <2>1. CASE EditCode
    BY <2>1 DEF EditCode
  <2>2. CASE EditComments
    BY <2>2 DEF EditComments
  <2>3. CASE Invoke
    BY <2>3 DEF Invoke
  <2>4. CASE LoadConfig
    <3>1. config'.baseline \in SUBSET Known
      BY <2>4 DEF LoadConfig, RunConfig
    <3> QED BY <2>4, <3>1 DEF LoadConfig
  <2>5. ASSUME NEW status \in {SUCCESS, EXIT_FINDINGS, EXIT_ERROR}, End(status)
        PROVE  /\ exit' \in {SUCCESS, EXIT_FINDINGS, EXIT_ERROR, Unset} /\ pc' \in Phases
               /\ config'.baseline \in SUBSET Known
    BY <2>5 DEF End, RunConfig
  <2>6. CASE LoadFails \/ OutputFails \/ OpenFails
    BY <2>5, <2>6 DEF LoadFails, OutputFails, OpenFails
  <2>7. CASE Analyze
    BY <2>7 DEF Analyze
  <2>8. CASE WriteOutput
    <3>1. Fingerprints(report) \subseteq Known
      BY <2>8, FoundInCode DEF WriteOutput, BaselineInv, Fingerprints
    <3>2. presented' \in SUBSET Known
      BY <2>8, <3>1 DEF WriteOutput, Present
    <3> QED BY <2>8, <3>2 DEF WriteOutput
  <2>9. CASE OpenBaseline
    BY <2>9 DEF OpenBaseline
  <2>10. CASE FillBaseline
    <3>1. file' \in SUBSET Known
      BY <2>10 DEF FillBaseline, BaselineInv
    <3> QED BY <2>5, <2>10, <3>1 DEF FillBaseline
  <2>11. CASE FillFails
    <3>1. file' \in SUBSET Known
      BY <2>11 DEF FillFails, BaselineInv
    <3> QED BY <2>5, <2>11, <3>1 DEF FillFails
  <2>12. CASE Judge
    BY <2>5, <2>12 DEF Judge
  <2>13. CASE UNCHANGED vars
    BY <2>13 DEF vars
  <2> QED
    BY <2>1, <2>2, <2>3, <2>4, <2>6, <2>7, <2>8, <2>9, <2>10, <2>11, <2>12,
       <2>13 DEF Next
<1> QED BY <1>1, <1>2, BaselineInvariant, PTL DEF Spec

(* A gate lets nothing through that no recording run has presented.         *)
THEOREM GateIsSound == Spec => []NothingPassesUnseen
<1>1. Init => NothingPassesUnseen
  BY UnsetAssumption DEF Init, NothingPassesUnseen, GatePassed, SUCCESS
<1>2. BaselineInv /\ NothingPassesUnseen /\ [Next]_vars => NothingPassesUnseen'
  <2> SUFFICES ASSUME BaselineInv, NothingPassesUnseen, [Next]_vars
               PROVE  NothingPassesUnseen'
    OBVIOUS
  <2>1. CASE EditCode \/ EditComments \/ Invoke
    <3>1. exit' # SUCCESS
      BY <2>1, UnsetAssumption DEF EditCode, EditComments, Invoke, SUCCESS
    <3> QED BY <3>1 DEF NothingPassesUnseen, GatePassed
  <2>2. CASE LoadFails \/ OutputFails \/ OpenFails \/ FillFails
    <3>1. exit' = EXIT_ERROR
      BY <2>2 DEF LoadFails, OutputFails, OpenFails, FillFails, End
    <3>2. exit' # SUCCESS
      BY <3>1 DEF EXIT_ERROR, SUCCESS
    <3> QED BY <3>2 DEF NothingPassesUnseen, GatePassed
  <2>3. CASE LoadConfig \/ Analyze \/ WriteOutput \/ OpenBaseline
    <3>1. pc' # "idle"
      BY <2>3 DEF LoadConfig, Analyze, WriteOutput, OpenBaseline
    <3> QED BY <3>1 DEF NothingPassesUnseen, GatePassed
  <2>4. CASE FillBaseline
    <3>1. flags'.writeBaseline
      BY <2>4 DEF FillBaseline, BaselineInv
    <3> QED BY <3>1 DEF NothingPassesUnseen, GatePassed
  <2>5. CASE Judge
    <3>0. UNCHANGED <<code, comments, flags, presented>>
      BY <2>5 DEF Judge, contract, history
    <3> SUFFICES ASSUME GatePassed', NEW f \in Open(code, comments),
                        SeverityFor(RunConfig(FALSE, {}), f.rule) >= flags.failOn,
                        Fingerprint(f) \notin presented
                 PROVE  FALSE
      BY <3>0 DEF NothingPassesUnseen
    <3>1. Fingerprint(f) \notin config.baseline
      BY <2>5 DEF Judge, BaselineInv
    <3>2. config = RunConfig(flags.reportSuppressed, config.baseline)
      BY <2>5 DEF Judge, BaselineInv
    <3>3. \E x \in ReportedIn(RunConfig(flags.reportSuppressed, config.baseline), Contents) :
            x.severity = SeverityFor(RunConfig(FALSE, {}), f.rule)
      <4> DEFINE show == flags.reportSuppressed
                 accepted == config.baseline
      <4>1. Fingerprint(f) \notin accepted
        BY <3>1
      <4> HIDE DEF show, accepted
      <4>2. \E x \in ReportedIn(RunConfig(show, accepted), Contents) :
              x.severity = SeverityFor(RunConfig(FALSE, {}), f.rule)
        BY <4>1, OpenIsReported
      <4> QED BY <4>2 DEF show, accepted
    <3>4. PICK x \in ReportedIn(config, Contents) :
            x.severity = SeverityFor(RunConfig(FALSE, {}), f.rule)
      BY <3>2, <3>3
    <3>5. HasFindingsAtOrAbove(report, flags.failOn)
      BY <2>5, <3>4 DEF Judge, BaselineInv, HasFindingsAtOrAbove
    <3> QED
      BY <2>5, <3>5 DEF Judge, End, GatePassed, SUCCESS, EXIT_FINDINGS
  <2>6. CASE UNCHANGED vars
    BY <2>6 DEF vars, NothingPassesUnseen, GatePassed
  <2> QED BY <2>1, <2>2, <2>3, <2>4, <2>5, <2>6 DEF Next
<1> QED BY <1>1, <1>2, BaselineInvariant, PTL DEF Spec

(* An unfiltered record makes the gate pass while the contract stays as it  *)
(* was.                                                                     *)
THEOREM RecordIsAccepted == Spec => []RecordedPasses
<1>1. Init => RecordedPasses
  BY DEF Init, RecordedPasses, UnchangedSince
<1>2. TypeOK /\ BaselineInv /\ RecordedPasses /\ [Next]_vars => RecordedPasses'
  <2> SUFFICES ASSUME TypeOK, BaselineInv, RecordedPasses, [Next]_vars
               PROVE  RecordedPasses'
    OBVIOUS
  <2>1. CASE EditCode \/ EditComments \/ Invoke
    <3>1. exit' # EXIT_FINDINGS
      BY <2>1, UnsetAssumption DEF EditCode, EditComments, Invoke, EXIT_FINDINGS
    <3> QED BY <3>1 DEF RecordedPasses
  <2>2. CASE LoadFails \/ OutputFails \/ OpenFails \/ FillFails \/ FillBaseline
    <3>1. exit' \in {SUCCESS, EXIT_ERROR}
      BY <2>2 DEF LoadFails, OutputFails, OpenFails, FillFails, FillBaseline, End
    <3>2. exit' # EXIT_FINDINGS
      BY <3>1 DEF EXIT_ERROR, EXIT_FINDINGS, SUCCESS
    <3> QED BY <3>2 DEF RecordedPasses
  <2>3. CASE LoadConfig \/ Analyze \/ WriteOutput \/ OpenBaseline
    <3>1. pc' # "idle"
      BY <2>3 DEF LoadConfig, Analyze, WriteOutput, OpenBaseline
    <3> QED BY <3>1 DEF RecordedPasses
  <2>4. CASE Judge
    <3> SUFFICES ASSUME Gated, UnchangedSince(recorded), ~recorded.filtered,
                        exit' = EXIT_FINDINGS
                 PROVE  FALSE
      BY <2>4 DEF Judge, RecordedPasses, Gated, UnchangedSince, contract, history
    <3>1. HasFindingsAtOrAbove(report, flags.failOn)
      BY <2>4 DEF Judge, End, SUCCESS, EXIT_FINDINGS
    <3>2. config = RunConfig(FALSE, file) /\ report = ReportedIn(config, Contents)
      <4>1. config = RunConfig(flags.reportSuppressed, config.baseline)
            /\ config.baseline = file /\ report = ReportedIn(config, Contents)
        BY <2>4 DEF Judge, BaselineInv, Gated
      <4>2. flags.reportSuppressed = FALSE
        BY DEF Gated, TypeOK, Invocation
      <4> QED BY <4>1, <4>2
    <3>3. PICK x \in ReportedIn(RunConfig(FALSE, file), Contents) : TRUE
      BY <3>1, <3>2 DEF HasFindingsAtOrAbove
    <3>4. x.finding \in Open(code, comments) /\ Fingerprint(x.finding) \notin file
      BY <3>3, ReportedIsOpen
    <3> QED
      BY <2>4, <3>4 DEF BaselineInv, UnchangedSince
  <2>5. CASE UNCHANGED vars
    BY <2>5 DEF vars, RecordedPasses, Gated, UnchangedSince
  <2> QED BY <2>1, <2>2, <2>3, <2>4, <2>5 DEF Next
<1> QED BY <1>1, <1>2, BaselineInvariant, TypeCorrect, PTL DEF Spec
==========================================================================
