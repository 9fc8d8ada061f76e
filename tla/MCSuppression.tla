--------------------------- MODULE MCSuppression ---------------------------
(* Every layout of at most three nodes on seven lines, each with one        *)
(* directive on any line where a comment can stand, and reach 2 in place of *)
(* 10 so that an item can lie beyond it.                                    *)
EXTENDS Suppression, TLC

MCRule == {"SSDK001"}

Kind == {"fn", "impl", "mod", "struct"}
Span == {<<a, b>> \in Line \X Line : a < b}

Apart(s, t) ==
  s[2] < t[1] \/ t[2] < s[1] \/ (s[1] < t[1] /\ t[2] < s[2]) \/ (t[1] < s[1] /\ s[2] < t[2])

(* At most n spans, each apart from the others.                             *)
RECURSIVE SpanSets(_)
SpanSets(n) ==
  IF n = 0 THEN {{}}
  ELSE SpanSets(n - 1)
         \cup {S \cup {s} : <<S, s>> \in
                {p \in SpanSets(n - 1) \X Span : \A t \in p[1] : Apart(p[2], t)}}

(* A structure holds nothing, and an impl holds functions first.            *)
Fits(L, m, n) ==
  Encloses(m, n) =>
    /\ m.kind # "struct"
    /\ m.kind = "impl" =>
         n.kind = "fn" \/ \E k \in L : k.kind = "fn" /\ Encloses(m, k) /\ Encloses(k, n)

MCLayouts ==
  {L \in UNION {{{[kind |-> k[s], start |-> s[1], end |-> s[2]] : s \in S}
                   : k \in [S -> Kind]} : S \in SpanSets(3)} :
     \A m, n \in L : Fits(L, m, n)}

MCDirectives ==
  {l :> [keyword |-> kw, words |-> {"SSDK001", "overflow"}]
     : l \in Line, kw \in {"ignore", "ignore-file", "todo"}}
==========================================================================
