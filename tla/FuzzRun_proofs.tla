-------------------------- MODULE FuzzRun_proofs --------------------------
(***************************************************************************)
(* What a FuzzReport is worth, for every system, strategy and budget: the  *)
(* run under way is always where its sequence leads a fresh system         *)
(* (RunInv), so what CheckBroken writes into the cell reproduces (CellInv),*)
(* and the report holds what the cell holds (ReportInv).                   *)
(***************************************************************************)
EXTENDS FuzzRun, TLAPS

(* A fresh system is where no call at all leads.                            *)
LEMMA FreshLeads ==
  ASSUME NEW sys, NEW calls
  PROVE  LeadsTo(sys, calls, 1, Initial)
<1>1. Initial \in State  BY SystemsAssumption
<1> DEFINE trace == [i \in 0..(1 - 1) |-> Initial]
<1>2. /\ trace \in [0..(1 - 1) -> State]
      /\ trace[0] = Initial /\ trace[1 - 1] = Initial
  BY <1>1
<1>3. Traces(sys, calls, 1, trace)  BY <1>2 DEF Traces
<1> QED  BY <1>2, <1>3 DEF LeadsTo

(* One more call that does not end the run.                                 *)
LEMMA OneMoreCall ==
  ASSUME NEW sys \in Systems, NEW calls \in Seq(Call), NEW n \in DOMAIN calls,
         NEW s \in State, LeadsTo(sys, calls, n, s),
         Continues(sys, sys.effect[s][calls[n]])
  PROVE  LeadsTo(sys, calls, n + 1, sys.effect[s][calls[n]].state)
<1> DEFINE t == sys.effect[s][calls[n]].state
<1>1. PICK trace \in [0..(n - 1) -> State] :
        Traces(sys, calls, n, trace) /\ trace[n - 1] = s
  BY DEF LeadsTo
<1>2. n \in Nat /\ n >= 1 /\ calls[n] \in Call  OBVIOUS
<1>3. t \in State
  <2>1. sys.effect \in [State -> [Call -> Effect]]  BY SystemsAssumption
  <2>2. sys.effect[s][calls[n]] \in Effect  BY <2>1, <1>2
  <2> QED  BY <2>2 DEF Effect
<1> DEFINE longer == [i \in 0..((n + 1) - 1) |-> IF i = n THEN t ELSE trace[i]]
<1>4. \A i \in 0..(n - 1) : longer[i] = trace[i]  BY <1>2
<1>5. longer[n] = t  BY <1>2
<1>6. longer \in [0..((n + 1) - 1) -> State]
  <2> SUFFICES ASSUME NEW i \in 0..((n + 1) - 1)
               PROVE  (IF i = n THEN t ELSE trace[i]) \in State
    OBVIOUS
  <2>1. CASE i = n  BY <2>1, <1>3
  <2>2. CASE i # n
    <3>1. i \in 0..(n - 1)  BY <2>2, <1>2
    <3> QED  BY <3>1, <2>2
  <2> QED  BY <2>1, <2>2
<1>7. longer[0] = Initial /\ longer[(n + 1) - 1] = t
  BY <1>1, <1>2, <1>4, <1>5 DEF Traces
<1>8. ASSUME NEW i \in 1..((n + 1) - 1)
      PROVE  /\ longer[i] = sys.effect[longer[i - 1]][calls[i]].state
             /\ Continues(sys, sys.effect[longer[i - 1]][calls[i]])
  <2>1. CASE i = n
    <3>1. longer[i - 1] = s /\ longer[i] = t  BY <2>1, <1>1, <1>2, <1>4, <1>5
    <3> QED  BY <3>1, <2>1
  <2>2. CASE i # n
    <3>1. i \in 1..(n - 1) /\ i - 1 \in 0..(n - 1) /\ i \in 0..(n - 1)  BY <2>2, <1>2
    <3>2. longer[i - 1] = trace[i - 1] /\ longer[i] = trace[i]  BY <3>1, <1>4
    <3> QED  BY <3>1, <3>2, <1>1 DEF Traces
  <2> QED  BY <2>1, <2>2
<1>9. Traces(sys, calls, n + 1, longer)  BY <1>7, <1>8 DEF Traces
<1> HIDE DEF longer
<1> QED  BY <1>6, <1>7, <1>9 DEF LeadsTo

(* What a system does stays among its states and answers.                   *)
LEMMA SystemType ==
  ASSUME NEW sys \in Systems, NEW s \in State, NEW c \in Call
  PROVE  sys.effect[s][c].state \in State
<1>1. sys.effect \in [State -> [Call -> Effect]]  BY SystemsAssumption
<1>2. sys.effect[s][c] \in Effect  BY <1>1
<1> QED  BY <1>2 DEF Effect

--------------------------------------------------------------------------
(* The types of the harness's variables (fuzz, lib.rs).                     *)
THEOREM TypeCorrect == Spec => []TypeOK
<1>1. Init => TypeOK
  BY SystemsAssumption DEF Init, TypeOK
<1>2. TypeOK /\ [Next]_vars => TypeOK'
  <2> SUFFICES ASSUME TypeOK, [Next]_vars PROVE TypeOK'
    OBVIOUS
  <2> USE SystemsAssumption DEF TypeOK
  <2>1. CASE Generate  BY <2>1 DEF Generate, Fresh, runner
  <2>2. CASE Shrink  BY <2>2 DEF Shrink, Fresh
  <2>3. CASE ReportPassed  BY <2>3 DEF ReportPassed, Report, runner, closure
  <2>4. CASE ReportFailed  BY <2>4 DEF ReportFailed, Report, runner, closure
  <2>5. CASE ReportAborted  BY <2>5 DEF ReportAborted, Report, runner, closure
  <2>6. Executing => Executed.state \in State
    BY SystemType DEF Executing, Executed
  <2>7. CASE CallRejected
    BY <2>6, <2>7 DEF CallRejected, Executing, runner
  <2>8. CASE CallAccepted
    BY <2>6, <2>8 DEF CallAccepted, Executing, runner
  <2>9. CASE CallPanics  BY <2>9 DEF CallPanics, Executing, CaseFails, closure
  <2>10. CASE CheckHolds  BY <2>10 DEF CheckHolds, Checking, Invariants, runner
  <2>11. CASE CheckBroken
    <3>1. [invariant |-> invariant, sequence |-> generated, step |-> index] \in Violation
      BY <2>11 DEF CheckBroken, Checking, Violation
    <3> QED  BY <3>1, <2>11 DEF CheckBroken, Checking, CaseFails, closure
  <2>12. CASE CheckPanics  BY <2>12 DEF CheckPanics, Checking, CaseFails, closure
  <2>13. CASE ChecksDone  BY <2>13 DEF ChecksDone, runner
  <2>14. CASE CasePasses
    <3>1. CASE failing = None
      BY <3>1, <2>14 DEF CasePasses, closure
    <3>2. CASE failing # None
      BY <3>2, <2>14 DEF CasePasses, closure
    <3> QED  BY <3>1, <3>2
  <2>15. CASE UNCHANGED vars  BY <2>15 DEF vars
  <2> QED
    BY <2>1, <2>2, <2>3, <2>4, <2>5, <2>7, <2>8, <2>9, <2>10, <2>11, <2>12,
       <2>13, <2>14, <2>15 DEF Next
<1> QED  BY <1>1, <1>2, PTL DEF Spec

--------------------------------------------------------------------------
(* RunInv: a run starts where a fresh system is (Fresh), each call that does*)
(* not end it leads one further (OneMoreCall), and a call is followed by the*)
(* next only when every invariant was seen to hold.                         *)
LEMMA RunStep ==
  ASSUME TypeOK, RunInv, [Next]_vars
  PROVE  RunInv'
<1> USE SystemsAssumption
<1>1. ASSUME NEW calls, Fresh(calls) PROVE RunInv'
  <2>1. LeadsTo(system', calls, 1, Initial)  BY FreshLeads
  <2> QED  BY <1>1, <2>1 DEF Fresh, RunInv
<1>2. CASE Generate  BY <1>1, <1>2 DEF Generate
<1>3. CASE Shrink  BY <1>1, <1>3 DEF Shrink
<1>4. CASE ReportPassed \/ ReportFailed \/ ReportAborted
  BY <1>4 DEF ReportPassed, ReportFailed, ReportAborted, Report, RunInv
<1>5. CASE CallRejected
  <2>1. /\ system \in Systems /\ generated \in Seq(Call) /\ index \in DOMAIN generated
        /\ state \in State /\ LeadsTo(system, generated, index, state)
    BY <1>5 DEF CallRejected, Executing, TypeOK, RunInv
  <2>2. Continues(system, system.effect[state][generated[index]])
    BY <1>5 DEF CallRejected, Executed, Continues
  <2>3. LeadsTo(system, generated, index + 1, system.effect[state][generated[index]].state)
    BY <2>1, <2>2, OneMoreCall
  <2>4. /\ UNCHANGED <<system, generated>> /\ pc' = "execute" /\ index' = index + 1
        /\ state' = system.effect[state][generated[index]].state
    BY <1>5 DEF CallRejected, Executing, Executed, runner
  <2> QED  BY <2>3, <2>4 DEF RunInv
<1>6. CASE CallAccepted
  <2>1. state \in State /\ LeadsTo(system, generated, index, state)
    BY <1>6 DEF CallAccepted, Executing, TypeOK, RunInv
  <2>2. /\ UNCHANGED <<system, generated, index>> /\ pc' = "check" /\ invariant' = 1
        /\ state' = ThisCall(state).state /\ ThisCall(state).result = "ok"
    BY <1>6 DEF CallAccepted, Executing, Executed, ThisCall, runner
  <2>3. \E s \in State :
          /\ LeadsTo(system', generated', index', s)
          /\ ThisCall(s)'.result = "ok" /\ ThisCall(s)'.state = state'
    BY <2>1, <2>2 DEF ThisCall
  <2>4. \A v \in Invariants : ~(v < 1)  BY DEF Invariants
  <2> QED  BY <2>2, <2>3, <2>4 DEF RunInv
<1>7. CASE CallPanics \/ CheckBroken \/ CheckPanics
  BY <1>7 DEF CallPanics, CheckBroken, CheckPanics, CaseFails, RunInv
<1>8. CASE CheckHolds
  <2>1. /\ UNCHANGED <<system, generated, index, state, pc>> /\ pc = "check"
        /\ invariant' = invariant + 1 /\ invariant \in Invariants
        /\ system.check[invariant][state] = "holds"
    BY <1>8 DEF CheckHolds, Checking, Checked, runner
  <2>2. \A v \in Invariants : v < invariant + 1 => v < invariant \/ v = invariant
    BY <2>1 DEF Invariants
  <2> QED  BY <2>1, <2>2 DEF RunInv, ThisCall
<1>9. CASE ChecksDone
  <2>1. /\ UNCHANGED <<system, generated, state>> /\ pc = "check" /\ pc' = "execute"
        /\ index' = index + 1 /\ invariant > NInvariants
    BY <1>9 DEF ChecksDone, runner
  <2>2. PICK s \in State : /\ LeadsTo(system, generated, index, s)
                           /\ ThisCall(s).result = "ok" /\ ThisCall(s).state = state
    BY <2>1 DEF RunInv
  <2>3. \A v \in Invariants : system.check[v][state] = "holds"
    BY <2>1 DEF RunInv, Invariants, TypeOK
  <2>4. Continues(system, system.effect[s][generated[index]])
    BY <2>2, <2>3 DEF Continues, ThisCall
  <2>5. system \in Systems /\ generated \in Seq(Call) /\ index \in DOMAIN generated
    BY <2>1 DEF TypeOK
  <2>6. LeadsTo(system, generated, index + 1, state)
    BY <2>2, <2>4, <2>5, OneMoreCall DEF ThisCall
  <2> QED  BY <2>1, <2>6 DEF RunInv
<1>10. CASE CasePasses
  BY <1>10 DEF CasePasses, RunInv
<1>11. CASE UNCHANGED vars  BY <1>11 DEF vars, RunInv, ThisCall
<1> QED
  BY <1>2, <1>3, <1>4, <1>5, <1>6, <1>7, <1>8, <1>9, <1>10, <1>11 DEF Next

(* CellInv: what CheckBroken records is what the run under way just did, and*)
(* it becomes the runner's last failure in the same step; a panic makes a   *)
(* last failure that nobody recorded, and leaves the cell as it was.        *)
LEMMA CellStep ==
  ASSUME TypeOK, RunInv, CellInv, [Next]_vars
  PROVE  CellInv'
<1> USE SystemsAssumption
<1>1. CASE UNCHANGED <<system, failing, failure>> /\ pc' # "generate"
  BY <1>1 DEF CellInv
<1>2. CASE Generate \/ Shrink
  BY <1>1, <1>2 DEF Generate, Shrink, Fresh, runner
<1>3. CASE ReportPassed \/ ReportFailed \/ ReportAborted
  BY <1>1, <1>3 DEF ReportPassed, ReportFailed, ReportAborted, Report, runner
<1>4. CASE CallRejected \/ CallAccepted \/ CheckHolds \/ ChecksDone
  BY <1>1, <1>4 DEF CallRejected, CallAccepted, CheckHolds, ChecksDone,
       Executing, Checking, runner
<1>5. CASE CasePasses
  BY <1>5 DEF CasePasses, CellInv
<1>6. CASE CallPanics
  <2>1. /\ UNCHANGED <<system, failure>> /\ failing' = generated /\ pc' = "shrink"
        /\ index \in DOMAIN generated /\ state \in State
        /\ LeadsTo(system, generated, index, state)
        /\ system.effect[state][generated[index]].result = "panics"
    BY <1>6 DEF CallPanics, Executing, Executed, CaseFails, RunInv, TypeOK
  <2>2. Panics(system, generated)  BY <2>1 DEF Panics
  <2>3. generated # None  BY DEF TypeOK
  <2> QED  BY <2>1, <2>2, <2>3 DEF CellInv
<1>7. CASE CheckPanics
  <2>1. /\ UNCHANGED <<system, failure>> /\ failing' = generated /\ pc' = "shrink"
        /\ index \in DOMAIN generated /\ pc = "check" /\ invariant \in Invariants
        /\ system.check[invariant][state] = "panics"
    BY <1>7 DEF CheckPanics, Checking, Checked, CaseFails, TypeOK
  <2>2. PICK s \in State : /\ LeadsTo(system, generated, index, s)
                           /\ ThisCall(s).result = "ok" /\ ThisCall(s).state = state
    BY <2>1 DEF RunInv
  <2>3. Panics(system, generated)  BY <2>1, <2>2 DEF Panics, ThisCall
  <2>4. generated # None  BY DEF TypeOK
  <2> QED  BY <2>1, <2>3, <2>4 DEF CellInv
<1>8. CASE CheckBroken
  <2>1. /\ UNCHANGED system /\ failing' = generated /\ pc' = "shrink"
        /\ index \in DOMAIN generated /\ pc = "check" /\ invariant \in Invariants
        /\ system.check[invariant][state] = "broken"
        /\ failure' = [invariant |-> invariant, sequence |-> generated, step |-> index]
    BY <1>8 DEF CheckBroken, Checking, Checked, CaseFails, TypeOK
  <2>2. PICK s \in State : /\ LeadsTo(system, generated, index, s)
                           /\ ThisCall(s).result = "ok" /\ ThisCall(s).state = state
    BY <2>1 DEF RunInv
  <2>3. Breaks(system, generated, index, invariant)
    BY <2>1, <2>2 DEF Breaks, ThisCall
  <2>4. generated # None  BY DEF TypeOK
  <2>5. failure' # None
    <3>1. index \in Nat /\ generated \in Seq(Call)  BY <2>1 DEF TypeOK
    <3> QED  BY <2>1, <3>1
  <2> QED  BY <2>1, <2>3, <2>4, <2>5 DEF CellInv
<1>9. CASE UNCHANGED vars  BY <1>9 DEF vars, CellInv
<1> QED
  BY <1>2, <1>3, <1>4, <1>5, <1>6, <1>7, <1>8, <1>9 DEF Next

(* ReportInv: nothing happens once the report is there.                     *)
LEMMA ReportStep ==
  ASSUME TypeOK, CellInv, ReportInv, [Next]_vars
  PROVE  ReportInv'
<1> USE SystemsAssumption
<1>1. CASE ReportPassed
  BY <1>1 DEF ReportPassed, Report, ReportInv, CellInv, runner, closure
<1>2. CASE ReportFailed
  BY <1>2 DEF ReportFailed, Report, ReportInv, TypeOK, runner, closure
<1>3. CASE ReportAborted
  BY <1>3 DEF ReportAborted, Report, ReportInv, CellInv, runner, closure
<1>4. CASE UNCHANGED vars  BY <1>4 DEF vars, ReportInv
<1>5. CASE UNCHANGED report /\ pc # "done"
  BY <1>5 DEF ReportInv
<1> QED
  BY <1>1, <1>2, <1>3, <1>4, <1>5 DEF Next, Generate, Shrink, CallRejected,
     CallAccepted, CallPanics, CheckHolds, CheckBroken, CheckPanics, ChecksDone,
     CasePasses, Executing, Checking

(* The inductive invariant, for every system, strategy, number of cases and *)
(* shrinking budget.                                                        *)
THEOREM HarnessInvariant == Spec => []HarnessInv
<1>1. Init => HarnessInv
  BY DEF Init, HarnessInv, RunInv, CellInv, ReportInv
<1>2. TypeOK /\ HarnessInv /\ [Next]_vars => HarnessInv'
  BY RunStep, CellStep, ReportStep DEF HarnessInv
<1> QED  BY <1>1, <1>2, TypeCorrect, PTL DEF Spec

(* A reported violation reproduces on a fresh system (fuzz, lib.rs).        *)
THEOREM ViolationReproduces == Spec => []ReportReproduces
<1>1. TypeOK /\ HarnessInv => ReportReproduces
  <2> SUFFICES ASSUME TypeOK, HarnessInv, report # None,
                      NEW v \in report.violations, v.invariant # 0
               PROVE  Breaks(system, v.sequence, v.step, v.invariant)
    BY DEF ReportReproduces
  <2>1. failure # None /\ v = failure
    BY DEF HarnessInv, ReportInv
  <2> QED  BY <2>1 DEF HarnessInv, CellInv
<1> QED  BY <1>1, TypeCorrect, HarnessInvariant, PTL

(* The report is about the last failing sequence, or says that all passed,  *)
(* unless the last failure was a panic (fuzz, lib.rs).                      *)
THEOREM ReportTellsTheLastFailure == Spec => []ReportIsLastFailure
<1>1. HarnessInv => ReportIsLastFailure
  <2> SUFFICES ASSUME HarnessInv, report # None
               PROVE  \/ failing # None /\ Panics(system, failing)
                      \/ failing # None /\ \A v \in report.violations : v.sequence = failing
                      \/ report.violations = {} /\ passed = Cases
                      \/ failing = None /\ \A v \in report.violations : v.invariant = 0
    BY DEF ReportIsLastFailure
  <2>1. CASE failing = None  BY <2>1 DEF HarnessInv, ReportInv
  <2>2. CASE failing # None /\ ~Panics(system, failing)
    BY <2>2 DEF HarnessInv, ReportInv, CellInv
  <2> QED  BY <2>1, <2>2
<1> QED  BY <1>1, HarnessInvariant, PTL
==========================================================================
