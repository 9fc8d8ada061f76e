----------------------------- MODULE MCFixPlan -----------------------------
(* Two source files of four and two bytes and a file that is not there;     *)
(* three fixes, the first two with one or two edits each.                   *)
EXTENDS FixPlan

CONSTANT none

MCLength == <<4, 2>>

E(f, s, e) == [file |-> f, start |-> s, end |-> e]

(* Insertions at both ends of a replacement and inside it, replacements     *)
(* that touch, nest and cross, a range beyond the file, no span, no file.   *)
Edits == {E(1, 0, 2), E(1, 1, 1), E(1, 1, 3), E(1, 2, 2), E(none, 2, 4), E(1, 3, 9),
          E(2, 0, 1), E(2, 1, 2), E(3, 0, 0), E(1, 1, 0)}

Fixes == {<<d>> : d \in Edits} \cup {<<d, e>> : d, e \in Edits}

MCInputs ==
  {<<[primary |-> 1, edits |-> x], [primary |-> p, edits |-> y], [primary |-> 2, edits |-> <<z>>]>>
     : x \in Fixes, y \in Fixes, p \in {none}, z \in {E(1, 0, 2), E(1, 2, 2), E(2, 1, 2)}}
==========================================================================
