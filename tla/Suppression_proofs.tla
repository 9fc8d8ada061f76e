------------------------- MODULE Suppression_proofs -------------------------
(***************************************************************************)
(* Which lines a suppression comment reaches, for files of any length and  *)
(* any layout of nested nodes.                                             *)
(***************************************************************************)
EXTENDS Suppression, WellFoundedInduction, TLAPS

(* A set of naturals that is not empty has a least element.                 *)
LEMMA LeastElement ==
  ASSUME NEW S \in SUBSET Nat, S # {}
  PROVE  \E m \in S : \A k \in S : m <= k
<1> DEFINE R == OpToRel(<, Nat)
<1>1. IsWellFoundedOn(R, Nat)
  BY NatLessThanWellFounded
<1> HIDE DEF R
<1>2. PICK m \in S : \A k \in S : ~(<<k, m>> \in R)
  BY <1>1, WFMin
<1>3. ASSUME NEW k \in S PROVE m <= k
  <2>1. ~(<<k, m>> \in R)
    BY <1>2
  <2>2. ~(k < m)
    BY <2>1 DEF R, OpToRel
  <2> QED BY <2>2
<1> QED BY <1>3

(* Two nodes that share a line are one node, or one encloses the other.     *)
LEMMA Nesting ==
  ASSUME NEW L \in Layouts, NEW m \in L, NEW n \in L, NEW l \in Line,
         Contains(m, l), Contains(n, l)
  PROVE  m = n \/ Encloses(m, n) \/ Encloses(n, m)
BY LayoutsAssumption, LineAssumption DEF Contains, Line

(* Around every node there is one with nothing around it, and that one is   *)
(* an item.                                                                 *)
LEMMA Outermost ==
  ASSUME NEW L \in Layouts, NEW n \in L
  PROVE  \E m \in ItemsOf(L) : m = n \/ Encloses(m, n)
<1> DEFINE C == {m \in L : m = n \/ Encloses(m, n)}
           S == {m.start : m \in C}
<1>1. S \in SUBSET Nat /\ n.start \in S
  BY LayoutsAssumption, LineAssumption DEF Line
<1>2. PICK least \in S : \A k \in S : least <= k
  BY <1>1, LeastElement
<1>3. PICK m \in C : m.start = least
  OBVIOUS
<1>4. ASSUME NEW k \in L, Encloses(k, m) PROVE FALSE
  <2>1. k \in C
    BY <1>3, <1>4, LayoutsAssumption, LineAssumption DEF Encloses, Line
  <2>2. least <= k.start
    BY <1>2, <2>1
  <2>3. k.start < m.start /\ k.start \in Nat /\ m.start \in Nat
    BY <1>3, <1>4, LayoutsAssumption, LineAssumption DEF Encloses, Line
  <2> QED BY <1>3, <2>2, <2>3
<1>5. m \in ItemsOf(L)
  BY <1>3, <1>4 DEF ItemsOf, Around
<1> QED BY <1>3, <1>5

(* Where some item contains a line, there is a smallest one.                *)
LEMMA InnermostExists ==
  ASSUME NEW L \in Layouts, NEW l \in Line, NEW n \in ItemsOf(L), Contains(n, l)
  PROVE  Containing(ItemsOf(L), l) # {}
<1> DEFINE C == {m \in ItemsOf(L) : Contains(m, l)}
           S == {Size(m) : m \in C}
<1>1. ItemsOf(L) \subseteq L
  BY DEF ItemsOf
<1>2. S \in SUBSET Nat /\ Size(n) \in S
  BY <1>1, LayoutsAssumption, LineAssumption DEF Line, Size
<1>3. PICK least \in S : \A k \in S : least <= k
  BY <1>2, LeastElement
<1>4. PICK m \in C : Size(m) = least
  OBVIOUS
<1>5. m \in Containing(ItemsOf(L), l)
  BY <1>3, <1>4 DEF Containing
<1> QED BY <1>5

(* Where some item starts below a line, there is a first one, and it is     *)
(* within reach when the other is.                                          *)
LEMMA FirstBelowExists ==
  ASSUME NEW L \in Layouts, NEW l \in Line, NEW n \in ItemsOf(L),
         n.start \in (l + 1)..(l + Reach)
  PROVE  Following(ItemsOf(L), l) # {}
<1> DEFINE C == {m \in ItemsOf(L) : m.start > l}
           S == {m.start : m \in C}
<1>1. ItemsOf(L) \subseteq L
  BY DEF ItemsOf
<1>2. S \in SUBSET Nat /\ n.start \in S
  BY <1>1, LayoutsAssumption, LineAssumption DEF Line
<1>3. PICK least \in S : \A k \in S : least <= k
  BY <1>2, LeastElement
<1>4. PICK m \in C : m.start = least
  OBVIOUS
<1>5. least <= n.start /\ m.start \in Nat /\ n.start <= l + Reach
  BY <1>1, <1>2, <1>3, <1>4, LineAssumption DEF Line
<1>6. m \in Following(ItemsOf(L), l)
  BY <1>2, <1>3, <1>4, <1>5, LineAssumption DEF Following, Line
<1> QED BY <1>6

(* The smallest item around a line covers any function or item around it    *)
(* that has no function of its own in between: nothing inside a function is *)
(* an item.                                                                 *)
LEMMA InnermostCovers ==
  ASSUME NEW L \in Layouts, NEW l \in Line, NEW n \in L, Contains(n, l), n.kind = "fn",
         NEW i \in Containing(ItemsOf(L), l)
  PROVE  /\ i = n \/ Encloses(i, n)
         /\ n \in ItemsOf(L) => i = n
<1>1. i \in ItemsOf(L) /\ i \in L /\ Contains(i, l)
  BY DEF Containing, ItemsOf
<1>2. ~Encloses(n, i)
  BY <1>1 DEF ItemsOf, Around
<1>3. i = n \/ Encloses(i, n)
  BY <1>1, <1>2, Nesting
<1>4. ASSUME n \in ItemsOf(L), Encloses(i, n) PROVE FALSE
  <2>1. Size(i) <= Size(n)
    BY <1>4 DEF Containing
  <2> QED BY <1>1, <1>4, <2>1, LayoutsAssumption, LineAssumption DEF Encloses, Size, Line
<1> QED BY <1>3, <1>4

(* The reach of a comment is that of the item scope_for finds, or the file. *)
LEMMA ExtentOf ==
  ASSUME NEW S, S # {}
  PROVE  \E n \in S : Extent(S) = [lo |-> n.start, hi |-> n.end]
BY DEF Extent

--------------------------------------------------------------------------
(* What collect has gathered: each comment with the scope it was given.     *)
Scoped(s) ==
  /\ s.comment \in Line
  /\ s.fileWide => s.lo = 1 /\ s.hi = EndOfFile
  /\ ~s.fileWide => LET e == ScopeFor(ItemsOf(layout), s.comment)
                    IN s.lo = e.lo /\ s.hi = e.hi

ScopeInv == layout \in Layouts /\ \A s \in suppressions : Scoped(s)

(* Every suppression is the record of the comment it was collected for, with *)
(* the extent scope_for found (suppression.rs 85-121).                       *)
THEOREM ScopeInvariant == Spec => []ScopeInv
<1>1. Init => ScopeInv
  BY DEF Init, ScopeInv
<1>2. ScopeInv /\ [Next]_vars => ScopeInv'
  <2> SUFFICES ASSUME ScopeInv, [Next]_vars PROVE ScopeInv'
    OBVIOUS
  <2>1. layout' = layout
    BY DEF Next, PassLine, CollectForFile, CollectForItem, vars
  <2>2. ASSUME NEW s \in suppressions PROVE Scoped(s)'
    BY <2>1, <2>2 DEF ScopeInv, Scoped
  <2>3. CASE PassLine
    BY <2>1, <2>2, <2>3 DEF PassLine, ScopeInv
  <2>4. CASE CollectForFile
    <3> DEFINE s == Collected(line, [lo |-> 1, hi |-> EndOfFile], TRUE)
    <3>1. s.comment \in Line /\ s.fileWide /\ s.lo = 1 /\ s.hi = EndOfFile
      BY <2>4 DEF CollectForFile, Collected
    <3>2. ASSUME NEW t \in suppressions' PROVE Scoped(t)'
      <4>1. t \in suppressions \/ t = s
        BY <2>4 DEF CollectForFile
      <4>2. CASE t \in suppressions
        BY <2>2, <4>2
      <4>3. CASE t = s
        BY <3>1, <4>3 DEF Scoped
      <4> QED BY <4>1, <4>2, <4>3
    <3> QED BY <2>1, <3>2 DEF ScopeInv
  <2>5. CASE CollectForItem
    <3> DEFINE s == Collected(line, ScopeFor(ItemsOf(layout), line), FALSE)
    <3>1. /\ s.comment \in Line /\ ~s.fileWide
          /\ s.lo = ScopeFor(ItemsOf(layout), line).lo /\ s.hi = ScopeFor(ItemsOf(layout), line).hi
          /\ s.comment = line
      BY <2>5 DEF CollectForItem, Collected
    <3>2. ASSUME NEW t \in suppressions' PROVE Scoped(t)'
      <4>1. t \in suppressions \/ t = s
        BY <2>5 DEF CollectForItem
      <4>2. CASE t \in suppressions
        BY <2>2, <4>2
      <4>3. CASE t = s
        BY <2>1, <3>1, <4>3 DEF Scoped
      <4> QED BY <4>1, <4>2, <4>3
    <3> QED BY <2>1, <3>2 DEF ScopeInv
  <2>6. CASE UNCHANGED vars
    BY <2>1, <2>2, <2>6 DEF vars, ScopeInv
  <2> QED BY <2>3, <2>4, <2>5, <2>6 DEF Next
<1> QED BY <1>1, <1>2, PTL DEF Spec

(* Whatever it is given, scope_for answers with lines of the file.          *)
LEMMA ScopeType ==
  ASSUME NEW L \in Layouts, NEW l \in Line
  PROVE  ScopeFor(ItemsOf(L), l).lo \in 1..EndOfFile /\ ScopeFor(ItemsOf(L), l).hi \in 1..EndOfFile
<1>1. ASSUME NEW S \in SUBSET L
      PROVE  Extent(S).lo \in 1..EndOfFile /\ Extent(S).hi \in 1..EndOfFile
  <2>1. CASE S = {}
    BY <2>1, LineAssumption DEF Extent, EndOfFile
  <2>2. CASE S # {}
    <3>1. PICK n \in S : Extent(S) = [lo |-> n.start, hi |-> n.end]
      BY <2>2, ExtentOf
    <3>2. n.start \in Line /\ n.end \in Line
      BY LayoutsAssumption
    <3> QED BY <3>1, <3>2, LineAssumption DEF Line, EndOfFile
  <2> QED BY <2>1, <2>2
<1>2. Containing(ItemsOf(L), l) \subseteq L /\ Following(ItemsOf(L), l) \subseteq L
  BY DEF Containing, Following, ItemsOf
<1> QED BY <1>1, <1>2 DEF ScopeFor

(* Every state of a scan is well typed, for files of any length and layout. *)
THEOREM TypeCorrect == Spec => []TypeOK
<1>1. Init => TypeOK
  BY LineAssumption DEF Init, TypeOK
<1>2. ScopeInv /\ TypeOK /\ [Next]_vars => TypeOK'
  <2> SUFFICES ASSUME ScopeInv, TypeOK, [Next]_vars PROVE TypeOK'
    OBVIOUS
  <2>1. ASSUME line \in Line PROVE line + 1 \in 1..(LastLine + 1)
    BY <2>1, LineAssumption DEF Line
  <2>2. CASE PassLine
    BY <2>1, <2>2 DEF PassLine, TypeOK
  <2>3. ASSUME line \in Line, NEW e, NEW w \in BOOLEAN,
                e.lo \in 1..EndOfFile, e.hi \in 1..EndOfFile,
                line' = line + 1, suppressions' = suppressions \cup {Collected(line, e, w)}
         PROVE  TypeOK'
    <3> DEFINE new == Collected(line, e, w)
    <3>1. /\ new.comment \in Line /\ new.lo \in 1..EndOfFile /\ new.hi \in 1..EndOfFile
          /\ new.rules \subseteq Rule /\ new.fileWide \in BOOLEAN
      BY <2>3 DEF Collected, Rules
    <3> HIDE DEF new
    <3>2. ASSUME NEW s \in suppressions'
          PROVE  /\ s.comment \in Line /\ s.lo \in 1..EndOfFile /\ s.hi \in 1..EndOfFile
                 /\ s.rules \subseteq Rule /\ s.fileWide \in BOOLEAN
      <4>1. s \in suppressions \/ s = new
        BY <2>3 DEF new
      <4> QED BY <3>1, <4>1 DEF TypeOK
    <3> QED BY <2>1, <2>3, <3>2 DEF TypeOK
  <2>4. CASE CollectForFile
    <3> DEFINE e == [lo |-> 1, hi |-> EndOfFile]
    <3>1. e.lo \in 1..EndOfFile /\ e.hi \in 1..EndOfFile
      BY LineAssumption DEF EndOfFile
    <3> QED BY <2>3, <2>4, <3>1 DEF CollectForFile
  <2>5. CASE CollectForItem
    <3> DEFINE e == ScopeFor(ItemsOf(layout), line)
    <3>1. line \in Line /\ e.lo \in 1..EndOfFile /\ e.hi \in 1..EndOfFile
      BY <2>5, ScopeType DEF CollectForItem, ScopeInv
    <3> QED BY <2>3, <2>5, <3>1 DEF CollectForItem
  <2>6. CASE UNCHANGED vars
    BY <2>6 DEF vars, TypeOK
  <2> QED BY <2>2, <2>4, <2>5, <2>6 DEF Next
<1> QED BY <1>1, <1>2, ScopeInvariant, PTL DEF Spec

(* The scope of a comment that stands in a function, or in an item.         *)
LEMMA ScopeInside ==
  ASSUME ScopeInv, NEW s \in suppressions, ~s.fileWide,
         NEW n \in layout, Contains(n, s.comment), n.kind = "fn"
  PROVE  \E i \in ItemsOf(layout) :
           /\ s.lo = i.start /\ s.hi = i.end
           /\ i = n \/ Encloses(i, n)
           /\ n \in ItemsOf(layout) => i = n
<1> DEFINE l == s.comment
           items == ItemsOf(layout)
<1>1. layout \in Layouts /\ l \in Line /\ s.lo = ScopeFor(items, l).lo /\ s.hi = ScopeFor(items, l).hi
  BY DEF ScopeInv, Scoped
<1>2. PICK m \in items : m = n \/ Encloses(m, n)
  BY <1>1, Outermost
<1>3. Contains(m, l)
  <2>1. m \in layout
    BY DEF ItemsOf
  <2> QED BY <1>1, <1>2, <2>1, LayoutsAssumption, LineAssumption DEF Contains, Encloses, Line
<1>4. Containing(items, l) # {}
  BY <1>1, <1>3, InnermostExists
<1>5. PICK i \in Containing(items, l) : Extent(Containing(items, l)) = [lo |-> i.start, hi |-> i.end]
  BY <1>4, ExtentOf
<1>6. s.lo = i.start /\ s.hi = i.end
  BY <1>1, <1>4, <1>5 DEF ScopeFor
<1>7. (i = n \/ Encloses(i, n)) /\ (n \in items => i = n)
  BY <1>1, InnermostCovers
<1>8. i \in items
  BY DEF Containing
<1> QED BY <1>6, <1>7, <1>8

(* A comment inside a function silences findings in all of that function.   *)
THEOREM FunctionsAreCovered == Spec => []InsideFunctionCovered
<1>1. ScopeInv => InsideFunctionCovered
  <2> SUFFICES ASSUME ScopeInv, NEW s \in suppressions, NEW n \in Functions,
                      Contains(n, s.comment)
               PROVE  s.lo <= n.start /\ n.end <= s.hi
    BY DEF InsideFunctionCovered
  <2>1. n \in layout /\ n.kind = "fn" /\ layout \in Layouts
    BY DEF Functions, ScopeInv
  <2>2. n.start \in Line /\ n.end \in Line
    BY <2>1, LayoutsAssumption
  <2>3. CASE s.fileWide
    BY <2>2, <2>3, LineAssumption DEF ScopeInv, Scoped, Line, EndOfFile
  <2>4. CASE ~s.fileWide
    <3>1. PICK i \in ItemsOf(layout) :
            /\ s.lo = i.start /\ s.hi = i.end
            /\ i = n \/ Encloses(i, n)
      BY <2>1, <2>4, ScopeInside
    <3>2. i.start \in Line /\ i.end \in Line
      BY <2>1, LayoutsAssumption DEF ItemsOf
    <3> QED BY <2>2, <3>1, <3>2, LineAssumption DEF Encloses, Line
  <2> QED BY <2>3, <2>4
<1> QED BY <1>1, ScopeInvariant, PTL

(* A comment inside a function or a method that is an item reaches no       *)
(* sibling, above or below.                                                 *)
THEOREM SiblingsAreUntouched == Spec => []SiblingsUntouched
<1>1. ScopeInv => SiblingsUntouched
  <2> SUFFICES ASSUME ScopeInv, NEW s \in suppressions,
                      NEW n \in Functions \cap ItemsOf(layout), NEW m \in layout,
                      ~s.fileWide, Contains(n, s.comment),
                      ~Encloses(m, n), ~Encloses(n, m), m # n
               PROVE  ~Reaches(s, m)
    BY DEF SiblingsUntouched
  <2>1. n \in layout /\ n.kind = "fn" /\ layout \in Layouts
    BY DEF Functions, ScopeInv
  <2>2. s.lo = n.start /\ s.hi = n.end
    BY <2>1, ScopeInside
  <2>3. m.end < n.start \/ n.end < m.start
    BY <2>1, LayoutsAssumption
  <2> QED BY <2>1, <2>2, <2>3, LayoutsAssumption, LineAssumption DEF Reaches, Line
<1> QED BY <1>1, ScopeInvariant, PTL

(* A comment outside every item acts on what follows: something above it is *)
(* silenced only when nothing starts within reach.                          *)
THEOREM NothingAboveIsSilenced == Spec => []NothingAboveSilenced
<1>1. ScopeInv => NothingAboveSilenced
  <2> SUFFICES ASSUME ScopeInv, NEW s \in suppressions, NEW n \in layout,
                      ~s.fileWide, n.end < s.comment,
                      \A m \in layout : ~Contains(m, s.comment),
                      NEW x \in layout,
                      x.start \in (s.comment + 1)..(s.comment + Reach)
               PROVE  ~Reaches(s, n)
    BY DEF NothingAboveSilenced
  <2> DEFINE l == s.comment
             items == ItemsOf(layout)
  <2>1. /\ layout \in Layouts /\ l \in Line
        /\ s.lo = ScopeFor(items, l).lo /\ s.hi = ScopeFor(items, l).hi
    BY DEF ScopeInv, Scoped
  <2>2. PICK m \in items : m = x \/ Encloses(m, x)
    BY <2>1, Outermost
  <2>3. m \in layout
    BY DEF ItemsOf
  <2>4. m.start \in (l + 1)..(l + Reach)
    <3>1. /\ m.start \in Nat /\ m.end \in Nat /\ x.start \in Nat /\ x.end \in Nat
          /\ x.start <= x.end /\ l \in Nat /\ Reach \in Nat
      BY <2>1, <2>3, LayoutsAssumption, LineAssumption DEF Line
    <3>2. m.start <= x.start /\ x.end <= m.end
      BY <2>2, <3>1 DEF Encloses
    <3>3. ~(m.start <= l /\ l <= m.end)
      BY <2>3 DEF Contains
    <3> QED BY <3>1, <3>2, <3>3
  <2>5. Containing(items, l) = {}
    BY DEF Containing, ItemsOf
  <2>6. Following(items, l) # {}
    BY <2>1, <2>4, FirstBelowExists
  <2>7. PICK i \in Following(items, l) : Extent(Following(items, l)) = [lo |-> i.start, hi |-> i.end]
    BY <2>6, ExtentOf
  <2>8. s.lo = i.start /\ i.start > l /\ i \in layout
    BY <2>1, <2>5, <2>7 DEF ScopeFor, Following, ItemsOf
  <2> QED BY <2>1, <2>8, LayoutsAssumption, LineAssumption DEF Reaches, Line
<1> QED BY <1>1, ScopeInvariant, PTL
=============================================================================
