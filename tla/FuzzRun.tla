------------------------------ MODULE FuzzRun ------------------------------
(***************************************************************************)
(* One call of fuzz (src/crates/soroban-sec-fuzz/src/lib.rs): call         *)
(* sequences are generated and executed against a fresh system, the        *)
(* invariants are checked after every accepted call, and a failure is      *)
(* shrunk.                                                                 *)
(*                                                                         *)
(* The loop around the closure is proptest's TestRunner and is external:   *)
(* it generates until Cases sequences passed, and once one fails it runs   *)
(* the closure on candidates that are no longer, each failing one taking   *)
(* the place of the last, until it gives up or its budget is spent.  A     *)
(* panic of the closure is caught there and counts as a failing case.      *)
(* Every run of the closure builds its own system, and the only thing it   *)
(* leaves behind is the RefCell failure.                                   *)
(***************************************************************************)
EXTENDS Integers, Sequences

CONSTANTS
  Call,           \* the calls a strategy can generate
  State,          \* the states of the system under test
  Initial,        \* the state that build and reset leave
  NInvariants,    \* the invariants are 1..NInvariants, in the given order
  Systems,        \* records [effect, check] of the systems considered
  Sequences,      \* what the strategy can generate
  Cases,          \* FuzzConfig::cases
  MaxShrinks,     \* proptest's limit on candidates
  None

Invariants == 1..NInvariants

(* What execute does to a state: its result, and the state it leaves.       *)
Effect == [result : {"ok", "rejected", "panics"}, state : State]
Check == {"holds", "broken", "panics"}

ASSUME SystemsAssumption ==
  /\ NInvariants \in Nat /\ Cases \in Nat /\ MaxShrinks \in Nat
  /\ Initial \in State
  /\ Systems \subseteq [effect : [State -> [Call -> Effect]],
                        check : [Invariants -> [State -> Check]]]
  /\ Sequences \subseteq Seq(Call)
  /\ None \notin Seq(Call)
  /\ None \notin [invariant : Invariants, step : Nat, sequence : Seq(Call)]
  /\ None \notin [cases : Nat,
                  violations : SUBSET [invariant : Invariants \cup {0}, step : Nat,
                                       sequence : Seq(Call)]]

VARIABLES
  system,         \* the system under test and its invariants
  passed,         \* sequences that passed
  failing,        \* the sequence proptest last saw fail, or None
  shrinks,        \* candidates tried
  pc,             \* where the closure or the runner stands
  generated,      \* the sequence the closure was given
  index,          \* the call to execute next
  invariant,      \* the invariant to check next
  state,          \* the state of the system this run built
  failure,        \* RefCell<Option<Violation>>
  report          \* the FuzzReport, or None

vars == <<system, passed, failing, shrinks, pc, generated, index, invariant,
          state, failure, report>>
closure == <<generated, index, invariant, state>>
runner == <<system, passed, failing, shrinks>>

Init ==
  /\ system \in Systems
  /\ passed = 0 /\ failing = None /\ shrinks = 0
  /\ pc = "generate"
  /\ generated = << >> /\ index = 1 /\ invariant = 1 /\ state = Initial
  /\ failure = None /\ report = None

(* Mutant of Fresh: the system of the run before is used again.             *)
NotReset(calls) ==
  /\ generated' = calls /\ index' = 1 /\ invariant' = 1 /\ state' = state
  /\ pc' = "execute"

(* let mut system = build(); system.reset();                                *)
Fresh(calls) ==
  /\ generated' = calls /\ index' = 1 /\ invariant' = 1 /\ state' = Initial
  /\ pc' = "execute"

--------------------------------------------------------------------------
(* The runner.                                                              *)
Generate ==
  /\ pc = "generate" /\ passed < Cases
  /\ \E calls \in Sequences : Fresh(calls)
  /\ UNCHANGED <<runner, failure, report>>

(* Candidates are no longer than what failed; the last one failed is among  *)
(* them, which proptest runs again after a candidate that passed.           *)
Shrink ==
  /\ pc = "shrink" /\ shrinks < MaxShrinks
  /\ shrinks' = shrinks + 1
  /\ \E calls \in Sequences : Len(calls) <= Len(failing) /\ Fresh(calls)
  /\ UNCHANGED <<system, passed, failing, failure, report>>

Report(violations) ==
  /\ report' = [cases |-> Cases, violations |-> violations]
  /\ pc' = "done"
  /\ UNCHANGED <<runner, closure, failure>>

(* Ok(())                                                                   *)
ReportPassed ==
  /\ pc = "generate" /\ passed = Cases
  /\ Report({})

(* Err(TestError::Fail(..)): what the cell holds, if it holds anything.     *)
ReportFailed ==
  /\ pc = "shrink"
  /\ Report(IF failure = None THEN {} ELSE {failure})

(* Err(other): the strategy gave up, the invariant is "<runner>".           *)
ReportAborted ==
  /\ pc = "generate" /\ passed < Cases
  /\ Report({[invariant |-> 0, step |-> 0, sequence |-> << >>]})

(* The closure returned Err or panicked: this is now the failing sequence.  *)
CaseFails ==
  /\ failing' = generated
  /\ pc' = "shrink"
  /\ UNCHANGED <<system, passed, shrinks>>

--------------------------------------------------------------------------
(* The closure.                                                             *)
Executing == pc = "execute" /\ index <= Len(generated)
Executed == system.effect[state][generated[index]]

(* Mutant of CallRejected: the rejected call is tried again.                *)
RetryRejected ==
  /\ Executing /\ Executed.result = "rejected"
  /\ state' = Executed.state
  /\ UNCHANGED <<runner, pc, generated, index, invariant, failure, report>>

(* A rejected call: its invariants are not checked.                         *)
CallRejected ==
  /\ Executing /\ Executed.result = "rejected"
  /\ state' = Executed.state
  /\ index' = index + 1
  /\ UNCHANGED <<runner, pc, generated, invariant, failure, report>>

CallAccepted ==
  /\ Executing /\ Executed.result = "ok"
  /\ state' = Executed.state
  /\ invariant' = 1
  /\ pc' = "check"
  /\ UNCHANGED <<runner, generated, index, failure, report>>

CallPanics ==
  /\ Executing /\ Executed.result = "panics"
  /\ CaseFails
  /\ UNCHANGED <<closure, failure, report>>

Checking == pc = "check" /\ invariant \in Invariants
Checked == system.check[invariant][state]

CheckHolds ==
  /\ Checking /\ Checked = "holds"
  /\ invariant' = invariant + 1
  /\ UNCHANGED <<runner, pc, generated, index, state, failure, report>>

(* Mutant of CheckBroken: a failure once recorded keeps its step.           *)
CheckBrokenOldStep ==
  /\ Checking /\ Checked = "broken"
  /\ failure' = [invariant |-> invariant, sequence |-> generated,
                 step |-> IF failure = None THEN index ELSE failure.step]
  /\ CaseFails
  /\ UNCHANGED <<closure, report>>

(* Mutant of CheckBroken: the first failure is kept, not the shortest.      *)
CheckBrokenOnce ==
  /\ Checking /\ Checked = "broken"
  /\ failure' = IF failure # None THEN failure
                ELSE [invariant |-> invariant, sequence |-> generated, step |-> index]
  /\ CaseFails
  /\ UNCHANGED <<closure, report>>

CheckBroken ==
  /\ Checking /\ Checked = "broken"
  /\ failure' = [invariant |-> invariant, sequence |-> generated, step |-> index]
  /\ CaseFails
  /\ UNCHANGED <<closure, report>>

CheckPanics ==
  /\ Checking /\ Checked = "panics"
  /\ CaseFails
  /\ UNCHANGED <<closure, failure, report>>

ChecksDone ==
  /\ pc = "check" /\ invariant > NInvariants
  /\ index' = index + 1
  /\ pc' = "execute"
  /\ UNCHANGED <<runner, generated, invariant, state, failure, report>>

(* Ok(()) of the closure, for a new sequence or for a candidate.            *)
CasePasses ==
  /\ pc = "execute" /\ index > Len(generated)
  /\ IF failing = None
       THEN passed' = passed + 1 /\ pc' = "generate"
       ELSE pc' = "shrink" /\ UNCHANGED passed
  /\ UNCHANGED <<system, failing, shrinks, closure, failure, report>>

Next ==
  \/ Generate \/ Shrink
  \/ ReportPassed \/ ReportFailed \/ ReportAborted
  \/ CallRejected \/ CallAccepted \/ CallPanics
  \/ CheckHolds \/ CheckBroken \/ CheckPanics \/ ChecksDone
  \/ CasePasses

Spec == Init /\ [][Next]_vars /\ WF_vars(Next)

--------------------------------------------------------------------------
Violation == [invariant : Invariants, step : Nat, sequence : Seq(Call)]

TypeOK ==
  /\ system \in Systems
  /\ passed \in 0..Cases /\ shrinks \in 0..MaxShrinks
  /\ failing \in Seq(Call) \cup {None}
  /\ pc \in {"generate", "shrink", "execute", "check", "done"}
  /\ generated \in Seq(Call)
  /\ index \in 1..(Len(generated) + 1)
  /\ invariant \in 1..(NInvariants + 1)
  /\ state \in State
  /\ failure \in Violation \cup {None}
  /\ pc = "check" => index \in DOMAIN generated
  /\ pc = "shrink" => failing # None
  /\ pc \in {"execute", "check"} /\ failing = None => passed < Cases

(* The calls before the n-th take a fresh system to s: none panics, and     *)
(* every invariant holds after each accepted one.                           *)
Continues(sys, e) ==
  \/ e.result = "rejected"
  \/ e.result = "ok" /\ \A v \in Invariants : sys.check[v][e.state] = "holds"

Traces(sys, calls, n, trace) ==
  /\ trace[0] = Initial
  /\ \A i \in 1..(n - 1) :
       /\ trace[i] = sys.effect[trace[i - 1]][calls[i]].state
       /\ Continues(sys, sys.effect[trace[i - 1]][calls[i]])

LeadsTo(sys, calls, n, s) ==
  \E trace \in [0..(n - 1) -> State] : Traces(sys, calls, n, trace) /\ trace[n - 1] = s

(* Running calls again breaks the invariant v after the n-th call.          *)
Breaks(sys, calls, n, v) ==
  /\ n \in DOMAIN calls
  /\ \E s \in State :
       /\ LeadsTo(sys, calls, n, s)
       /\ sys.effect[s][calls[n]].result = "ok"
       /\ sys.check[v][sys.effect[s][calls[n]].state] = "broken"

(* A violation can be reproduced from what the report says of it: its       *)
(* sequence, run on a fresh system, breaks the invariant it names at the    *)
(* step it names, and nothing before - although the report is the remains   *)
(* of many runs on many systems, the last one perhaps cut short by a panic. *)
ReportReproduces ==
  report # None =>
    \A v \in report.violations :
      v.invariant # 0 => Breaks(system, v.sequence, v.step, v.invariant)

(* The sequence calls makes the closure panic.                              *)
Panics(sys, calls) ==
  \E n \in DOMAIN calls, s \in State :
    /\ LeadsTo(sys, calls, n, s)
    /\ LET e == sys.effect[s][calls[n]]
       IN  \/ e.result = "panics"
           \/ e.result = "ok" /\ \E v \in Invariants : sys.check[v][e.state] = "panics"

(* The violation is the last thing the runner saw fail, so the shortest;    *)
(* and an empty report means that all sequences passed - both unless the    *)
(* last failure was a panic.                                                *)
ReportIsLastFailure ==
  report # None =>
    \/ failing # None /\ Panics(system, failing)
    \/ failing # None /\ \A v \in report.violations : v.sequence = failing
    \/ report.violations = {} /\ passed = Cases
    \/ failing = None /\ \A v \in report.violations : v.invariant = 0

(* Why: at any moment, in the middle of a candidate as well, the run under  *)
(* way is where its sequence leads a fresh system, and the cell agrees with *)
(* the runner about the last failure.                                       *)
ThisCall(s) == system.effect[s][generated[index]]

RunInv ==
  /\ pc = "execute" => LeadsTo(system, generated, index, state)
  /\ pc = "check" =>
       /\ \E s \in State :
            /\ LeadsTo(system, generated, index, s)
            /\ ThisCall(s).result = "ok" /\ ThisCall(s).state = state
       /\ \A v \in Invariants : v < invariant => system.check[v][state] = "holds"

CellInv ==
  /\ failure # None =>
       failing # None /\ Breaks(system, failure.sequence, failure.step, failure.invariant)
  /\ failing # None =>
       \/ Panics(system, failing)
       \/ failure # None /\ failure.sequence = failing
  /\ pc = "generate" => failing = None

ReportInv ==
  report # None =>
    /\ pc = "done"
    /\ \/ failing = None /\ passed = Cases /\ report.violations = {}
       \/ failing = None /\ \A v \in report.violations : v.invariant = 0
       \/ failing # None /\ report.violations = IF failure = None THEN {} ELSE {failure}

HarnessInv == RunInv /\ CellInv /\ ReportInv

(* Every call of fuzz returns, whatever the system does.                    *)
FuzzReturns == <>(report # None)
==========================================================================
