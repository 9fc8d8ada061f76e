---------------------------- MODULE Suppression ----------------------------
(***************************************************************************)
(* How a suppression comment finds the lines it silences: collect,         *)
(* scope_for and collect_items of src/crates/soroban-security-sdk/src/     *)
(* suppression.rs.  The records collected here are the suppressions that   *)
(* Findings and AnalysisRun work with.                                     *)
(*                                                                         *)
(* A file is its layout, a set of syntax nodes [kind, start, end] on whole *)
(* lines, and the directives its comment lines carry.  Two nodes are       *)
(* disjoint or one lies strictly inside the other, as rustfmt lays files   *)
(* out, so the columns that scope_for breaks ties with do not matter.      *)
(***************************************************************************)
EXTENDS Integers, FiniteSets

CONSTANTS
  LastLine,       \* the lines of the file are 1..LastLine
  Reach,          \* how far below a comment an item may start: 10
  Rule,           \* the rule ids the directives name
  Layouts,        \* the layouts considered
  Directives      \* the comments considered: line -> [keyword, words]

ASSUME LineAssumption == LastLine \in Nat \ {0} /\ Reach \in Nat \ {0}

Line == 1..LastLine

(* u32::MAX, beyond every line.                                             *)
EndOfFile == LastLine + 1

VARIABLES
  layout,         \* the syntax nodes of the file
  directives,     \* the directives of its comment lines; a comment line is
                  \* the first line of a node when it is its doc comment,
                  \* and never the last
  line,           \* the line to look at next
  suppressions    \* what has been collected

vars == <<layout, directives, line, suppressions>>

Contains(node, l) == node.start <= l /\ l <= node.end
Encloses(m, n) == m.start < n.start /\ n.end < m.end
Size(node) == node.end - node.start

(* Any two nodes of a file lie apart, or one strictly inside the other.     *)
ASSUME LayoutsAssumption ==
  \A L \in Layouts : \A n \in L :
    /\ n.start \in Line /\ n.end \in Line /\ n.start <= n.end
    /\ \A m \in L \ {n} : \/ m.end < n.start \/ n.end < m.start
                           \/ Encloses(m, n) \/ Encloses(n, m)

--------------------------------------------------------------------------
(* collect_items: every item of the file, of a module written in line, and  *)
(* so on down; of an impl or a trait its functions.  Nothing inside the     *)
(* body of a function.                                                      *)
Around(nodes, n) == {m \in nodes : Encloses(m, n)}

ItemsOf(nodes) ==
  {n \in nodes : \A m \in Around(nodes, n) :
     \/ m.kind = "mod"
     \/ /\ m.kind \in {"impl", "trait"} /\ n.kind = "fn"
        /\ \A k \in Around(nodes, n) \ {m} : Encloses(k, m)}

(* Mutant of Following: an item above the comment counts as well.           *)
FollowingEitherWay(items, l) ==
  {n \in items : n.start # l /\ n.start <= l + Reach
                 /\ \A m \in items : m.start # l /\ m.start <= l + Reach => n.start <= m.start}

(* The first item to start below the comment, within reach; the smallest of *)
(* those that start on one line is the only one.                            *)
Following(items, l) ==
  {n \in items : n.start > l /\ n.start <= l + Reach
                 /\ \A m \in items : m.start > l => n.start <= m.start}

(* Mutant of Containing: the outermost item wins.                           *)
ContainingLargest(items, l) ==
  {n \in items : Contains(n, l)
                 /\ \A m \in items : Contains(m, l) => Size(m) <= Size(n)}

(* The innermost item around the comment.                                   *)
Containing(items, l) ==
  {n \in items : Contains(n, l)
                 /\ \A m \in items : Contains(m, l) => Size(n) <= Size(m)}

(* The lines of the item that was found, else every line of the file.       *)
Extent(nodes) ==
  IF nodes = {} THEN [lo |-> 1, hi |-> EndOfFile]
  ELSE LET n == CHOOSE n \in nodes : TRUE IN [lo |-> n.start, hi |-> n.end]

(* Mutant of ScopeFor: the item that follows is tried first.                *)
ScopeFollowingFirst(items, l) ==
  IF Following(items, l) # {} THEN Extent(Following(items, l))
  ELSE Extent(Containing(items, l))

(* scope_for: the item around the comment, else the item that follows.      *)
ScopeFor(items, l) ==
  IF Containing(items, l) # {} THEN Extent(Containing(items, l))
  ELSE Extent(Following(items, l))

(* parse_directive: words that are no rule ids are dropped, and no words    *)
(* stand for every rule.                                                    *)
Item == {"ignore", "allow"}
WholeFile == {"ignore-file", "allow-file"}
Rules(d) == d.words \cap Rule

Collected(l, extent, fileWide) ==
  [comment |-> l, lo |-> extent.lo, hi |-> extent.hi,
   rules |-> Rules(directives[l]), fileWide |-> fileWide]

--------------------------------------------------------------------------
Init ==
  /\ layout \in Layouts /\ directives \in Directives
  /\ \A l \in DOMAIN directives, n \in layout :
       /\ n.end # l
       /\ n.start = l => \A m \in layout : Encloses(n, m) => m.start > l + 1
  /\ line = 1
  /\ suppressions = {}

Directive(keywords) == line \in DOMAIN directives /\ directives[line].keyword \in keywords

(* A line without a directive, or with one that is not understood.          *)
PassLine ==
  /\ line \in Line
  /\ ~Directive(Item \cup WholeFile)
  /\ line' = line + 1
  /\ UNCHANGED <<layout, directives, suppressions>>

CollectForFile ==
  /\ line \in Line
  /\ Directive(WholeFile)
  /\ suppressions' = suppressions
       \cup {Collected(line, [lo |-> 1, hi |-> EndOfFile], TRUE)}
  /\ line' = line + 1
  /\ UNCHANGED <<layout, directives>>

CollectForItem ==
  /\ line \in Line
  /\ Directive(Item)
  /\ suppressions' = suppressions
       \cup {Collected(line, ScopeFor(ItemsOf(layout), line), FALSE)}
  /\ line' = line + 1
  /\ UNCHANGED <<layout, directives>>

Next == PassLine \/ CollectForFile \/ CollectForItem

Spec == Init /\ [][Next]_vars

--------------------------------------------------------------------------
TypeOK ==
  /\ line \in 1..(LastLine + 1)
  /\ \A s \in suppressions :
       /\ s.comment \in Line /\ s.lo \in 1..EndOfFile /\ s.hi \in 1..EndOfFile
       /\ s.rules \subseteq Rule /\ s.fileWide \in BOOLEAN

Reaches(s, n) == s.lo <= n.end /\ n.start <= s.hi
Functions == {n \in layout : n.kind = "fn"}

(* "A comment inside a function silences findings in that function": all of *)
(* it, at whatever depth of modules, impls and bodies the function lies.    *)
InsideFunctionCovered ==
  \A s \in suppressions, n \in Functions :
    /\ Contains(n, s.comment)
    /\ \A m \in Functions : Contains(m, s.comment) => ~Encloses(n, m)
    => s.lo <= n.start /\ n.end <= s.hi

(* A comment inside a function or a method that is an item of its own never *)
(* reaches a sibling: no other method of the impl, no other function of the *)
(* module, even one that starts right below the comment's.                  *)
SiblingsUntouched ==
  \A s \in suppressions, n \in Functions \cap ItemsOf(layout), m \in layout :
    ~s.fileWide /\ Contains(n, s.comment) /\ ~Encloses(m, n) /\ ~Encloses(n, m) /\ m # n
    => ~Reaches(s, m)

(* A comment outside every item acts downwards only: what ends above it is  *)
(* silenced only when nothing follows within reach, and then the whole file *)
(* is.                                                                      *)
NothingAboveSilenced ==
  \A s \in suppressions, n \in layout :
    /\ ~s.fileWide /\ n.end < s.comment
    /\ \A m \in layout : ~Contains(m, s.comment)
    => \/ ~Reaches(s, n)
       \/ \A m \in layout : ~(m.start \in (s.comment + 1)..(s.comment + Reach))
==========================================================================
