----------------------------- MODULE MCFuzzRun -----------------------------
(* Two calls, three states, two invariants, sequences of at most three      *)
(* calls, two of which must pass, and two candidates.  The call a moves on  *)
(* or does nothing in the initial state and may do anything in state 1; b   *)
(* is accepted, rejected with an effect, or panics in state 2.  Invariants  *)
(* hold at first and may break or panic later.                              *)
EXTENDS FuzzRun

CONSTANTS a, b, none

MCState == 0..2

To(result, s) == [result |-> result, state |-> s]

AnyResult == {To("ok", 1), To("ok", 2), To("rejected", 2), To("panics", 0)}

Effects ==
  {[s \in MCState |-> [c \in {a, b} |->
      IF c = a THEN <<first, second, To("ok", 1)>>[s + 1]
               ELSE <<To("ok", 0), To("ok", 2), third>>[s + 1]]]
     : first \in {To("ok", 1), To("rejected", 0)}, second \in AnyResult,
       third \in AnyResult \ {To("ok", 1)}}

Checks ==
  {c \in [1..2 -> [MCState -> Check]] :
     /\ \A i \in 1..2 : c[i][0] = "holds"
     /\ c[2][1] = "holds" /\ c[1][1] # "panics" /\ c[1][2] # "panics"}

MCSystems == [effect : Effects, check : Checks]

MCSequences == UNION {[1..n -> {a, b}] : n \in 0..3}
============================================================================
