------------------------------ MODULE FixPlan ------------------------------
(***************************************************************************)
(* Planning the fixes that findings carry: plan and apply_edits of         *)
(* src/crates/soroban-security-sdk/src/fix.rs.                             *)
(*                                                                         *)
(* The fixes are taken in the order of the findings, which is severity     *)
(* order.  The edits of a fix are grouped per file; each file then accepts *)
(* the groups one by one as long as they do not overlap what it accepted   *)
(* before, and is rewritten once.                                          *)
(*                                                                         *)
(* An edit is [file, start, end]: the file it names or None, and the byte  *)
(* range; start > end stands for the span UNKNOWN.  Texts are told apart by *)
(* where they come from: byte i of a source file is <<0, i>>, what the     *)
(* second edit of the third fix puts in is <<3, 2>>, the edit's place.     *)
(***************************************************************************)
EXTENDS Integers, SequencesExt

CONSTANTS
  Length,         \* source file -> its length in bytes
  None,           \* an edit without a file, a finding without a location
  Inputs          \* sequences of findings: records primary, edits

Source == DOMAIN Length

(* File ids and byte offsets are unsigned integers; the sentinel is neither. *)
ASSUME NoneAssumption == None \notin Nat
ASSUME LengthAssumption == DOMAIN Length \subseteq Nat /\ \A f \in DOMAIN Length : Length[f] \in Nat
ASSUME InputsAssumption ==
  Inputs \subseteq Seq([primary : Nat \cup {None},
                       edits : Seq([file : Nat \cup {None}, start : Nat, end : Nat])])

VARIABLES
  findings,       \* the findings that carry a fix
  gathered,       \* how many of them have been grouped
  pending,        \* the groups: records file, of, edits
  unattributed,   \* places of edits without a file or a span, files unknown
  files,          \* files with groups that are still to be looked at
  file,           \* the file being patched, or None
  next,           \* the next of pending to try on it
  accepted,       \* the edits accepted for it
  applied,        \* the findings applied to it
  skipped,        \* the findings skipped for it
  patches         \* file -> [patched, applied, skipped, edits]

vars == <<findings, gathered, pending, unattributed, files, file, next,
          accepted, applied, skipped, patches>>
patching == <<file, next, accepted, applied, skipped, patches>>

Known(e) == e.start <= e.end

--------------------------------------------------------------------------
(* The stable sort of apply_edits: by start, then by end, and edits of the   *)
(* same range in the order in which the fixes brought them.                 *)
Earlier(d, e) ==
  \/ d.place[1] < e.place[1]
  \/ d.place[1] = e.place[1] /\ d.place[2] < e.place[2]

Precedes(d, e) ==
  \/ d.start < e.start
  \/ d.start = e.start /\ d.end < e.end
  \/ d.start = e.start /\ d.end = e.end /\ Earlier(d, e)

(* Mutant of InOrder: the edits stay in the order of the fixes.             *)
InFixOrder(edits) ==
  [k \in 1..Cardinality(edits) |->
     CHOOSE e \in edits : Cardinality({d \in edits : Earlier(d, e)}) = k - 1]

(* The edits sorted: the k-th has k - 1 others before it.                   *)
InOrder(edits) ==
  [k \in 1..Cardinality(edits) |->
     CHOOSE e \in edits : Cardinality({d \in edits : Precedes(d, e)}) = k - 1]

(* apply_edits: every edit must lie in the file and, sorted by range, none  *)
(* may begin before its neighbour ends.                                     *)
InRange(f, edits) == \A e \in edits : Known(e) /\ e.end <= Length[f]

Applies(f, edits) ==
  /\ InRange(f, edits)
  /\ LET planned == InOrder(edits)
     IN  \A i \in 1..(Len(planned) - 1) : planned[i].end <= planned[i + 1].start

Bytes(from, to) == [i \in 1..(to - from) |-> <<0, from + i>>]

(* Mutant of Rewrite: the cursor is left where the edit starts.             *)
RewriteKeeping(f, edits) ==
  LET planned == InOrder(edits)
      Cursor(i) == IF i = 0 THEN 0 ELSE planned[i].start
      output[i \in 0..Len(planned)] ==
        IF i = 0 THEN << >>
        ELSE Append(output[i - 1] \o Bytes(Cursor(i - 1), planned[i].start),
                    planned[i].place)
  IN  output[Len(planned)] \o Bytes(Cursor(Len(planned)), Length[f])

(* The file with the edits in place: what the loop has put out after the    *)
(* first i edits, and the rest of the source after the last.                *)
Cursor(planned, i) == IF i = 0 THEN 0 ELSE planned[i].end

Output(planned) ==
  LET output[i \in 0..Len(planned)] ==
        IF i = 0 THEN << >>
        ELSE Append(output[i - 1] \o Bytes(Cursor(planned, i - 1), planned[i].start),
                    planned[i].place)
  IN  output[Len(planned)]

Rewrite(f, edits) ==
  LET planned == InOrder(edits)
  IN  Output(planned) \o Bytes(Cursor(planned, Len(planned)), Length[f])

--------------------------------------------------------------------------
Init ==
  /\ findings \in Inputs
  /\ gathered = 0 /\ pending = << >> /\ unattributed = {}
  /\ files = {} /\ file = None /\ next = 1
  /\ accepted = {} /\ applied = {} /\ skipped = {} /\ patches = << >>

(* The edits of a finding's fix with the file each one is for.              *)
Resolved(found, n) ==
  LET f == found[n]
  IN  [i \in DOMAIN f.edits |->
         [place |-> <<n, i>>, start |-> f.edits[i].start, end |-> f.edits[i].end,
          file |-> IF f.edits[i].file # None THEN f.edits[i].file ELSE f.primary]]

Attributed(e) == e.file # None /\ Known(e)

GroupEdits(found, f, n) == {e \in ToSet(Resolved(found, n)) : Attributed(e) /\ e.file = f}

GroupFor(found, f, n) == [file |-> f, of |-> n, edits |-> GroupEdits(found, f, n)]

(* The groups of one fix.  Groups of different files never meet again, so   *)
(* the order of the files among them does not matter.                       *)
Gather ==
  /\ gathered < Len(findings)
  /\ LET n == gathered + 1
         all == ToSet(Resolved(findings, n))
         targets == {e.file : e \in {e \in all : Attributed(e)}}
     IN  /\ pending' = pending
              \o SetToSeq({GroupFor(findings, f, n) : f \in targets})
         /\ unattributed' = unattributed \cup {e.place : e \in {e \in all : ~Attributed(e)}}
         /\ files' = files \cup targets
  /\ gathered' = gathered + 1
  /\ UNCHANGED <<findings, patching>>

Planning == gathered = Len(findings)

(* Mutant of StartFile: a file that is not there is passed over.            *)
StartKnownFile ==
  /\ Planning /\ file = None
  /\ \E f \in files :
       /\ \A g \in files : f <= g
       /\ files' = files \ {f}
       /\ IF f \in Source THEN file' = f ELSE UNCHANGED file
  /\ next' = 1 /\ accepted' = {} /\ applied' = {} /\ skipped' = {}
  /\ UNCHANGED <<findings, gathered, pending, unattributed, patches>>

(* The files in the order of their ids, each with empty hands.              *)
StartFile ==
  /\ Planning /\ file = None
  /\ \E f \in files :
       /\ \A g \in files : f <= g
       /\ files' = files \ {f}
       /\ IF f \in Source
            THEN file' = f /\ UNCHANGED unattributed
            ELSE unattributed' = unattributed \cup {<<f>>} /\ UNCHANGED file
  /\ next' = 1 /\ accepted' = {} /\ applied' = {} /\ skipped' = {}
  /\ UNCHANGED <<findings, gathered, pending, patches>>

Item == pending[next]
Trying == file # None /\ next <= Len(pending)

PassItem ==
  /\ Trying /\ Item.file # file
  /\ next' = next + 1
  /\ UNCHANGED <<findings, gathered, pending, unattributed, files, file,
                 accepted, applied, skipped, patches>>

AcceptItem ==
  /\ Trying /\ Item.file = file
  /\ Applies(file, accepted \cup Item.edits)
  /\ accepted' = accepted \cup Item.edits
  /\ applied' = applied \cup {Item.of}
  /\ next' = next + 1
  /\ UNCHANGED <<findings, gathered, pending, unattributed, files, file,
                 skipped, patches>>

SkipItem ==
  /\ Trying /\ Item.file = file
  /\ ~Applies(file, accepted \cup Item.edits)
  /\ skipped' = skipped \cup {Item.of}
  /\ next' = next + 1
  /\ UNCHANGED <<findings, gathered, pending, unattributed, files, file,
                 accepted, applied, patches>>

(* The second application of the accepted edits cannot fail where the first *)
(* did not; the branch that would undo everything is kept.                  *)
PatchFile ==
  /\ file # None /\ next > Len(pending)
  /\ patches' = [f \in DOMAIN patches \cup {file} |->
       IF f # file THEN patches[f]
       ELSE IF Applies(file, accepted)
         THEN [patched |-> Rewrite(file, accepted), edits |-> accepted,
               applied |-> applied, skipped |-> skipped]
         ELSE [patched |-> Bytes(0, Length[file]), edits |-> {},
               applied |-> {}, skipped |-> skipped \cup {None}]]
  /\ file' = None
  /\ UNCHANGED <<findings, gathered, pending, unattributed, files, next,
                 accepted, applied, skipped>>

Next == Gather \/ StartFile \/ PassItem \/ AcceptItem \/ SkipItem \/ PatchFile

Spec == Init /\ [][Next]_vars

--------------------------------------------------------------------------
(* Types; that None is in no skipped says that PatchFile never had to undo  *)
(* what AcceptItem had tried.                                               *)
TypeOK ==
  /\ gathered \in 0..Len(findings)
  /\ \A i \in DOMAIN pending :
       pending[i].edits # {} /\ pending[i].of \in DOMAIN findings
  /\ file = None \/ file \in Source
  /\ next \in 1..(Len(pending) + 1)
  /\ applied \subseteq DOMAIN findings /\ skipped \subseteq DOMAIN findings
  /\ DOMAIN patches \subseteq Source
  /\ \A f \in DOMAIN patches : None \notin patches[f].skipped

(* Two edits collide when they share a byte, or when one inserts strictly   *)
(* inside the other.  Neighbours that touch, and insertions at an edge, do  *)
(* not.                                                                     *)
Collide(d, e) == d.start < e.end /\ e.start < d.end

NoneCollide(edits) == \A d, e \in edits : d # e => ~Collide(d, e)

(* The patched text is the source with every accepted edit made exactly     *)
(* once: no byte outside the edits is lost, doubled or moved, no byte       *)
(* inside one survives, and each replacement stands where its range stood.  *)
(* The loop that compares neighbours only must have found every collision.  *)
KeptBytes(edits, upto) ==
  {<<0, b>> : b \in {b \in 1..upto : \A e \in edits : b <= e.start \/ e.end < b}}

Laid(edits, upto, text) ==
  /\ IsInjective(text)
  /\ ToSet(text) = KeptBytes(edits, upto) \cup {e.place : e \in edits}
  /\ \A i, j \in DOMAIN text :
       i < j /\ {text[i], text[j]} \subseteq KeptBytes(edits, upto) => text[i][2] < text[j][2]
  /\ \A e \in edits : \A i, j \in DOMAIN text :
       text[i] = e.place /\ text[j] \in KeptBytes(edits, upto)
         => IF j < i THEN text[j][2] <= e.start ELSE e.end < text[j][2]

PatchFaithful ==
  \A f \in DOMAIN patches :
    NoneCollide(patches[f].edits) /\ Laid(patches[f].edits, Length[f], patches[f].patched)

(* A fix loses a file only to a fix of a finding that ranks before it, or   *)
(* to itself: what is skipped could not be added to what was applied, and   *)
(* nothing that was applied later is the reason.                            *)
Overlap(found, f, m, n) ==
  \E d \in GroupEdits(found, f, m), e \in GroupEdits(found, f, n) : Collide(d, e)

SkipJustified(found, f, n, done) ==
  \/ ~InRange(f, GroupEdits(found, f, n))
  \/ ~NoneCollide(GroupEdits(found, f, n))
  \/ \E m \in done : m < n /\ Overlap(found, f, m, n)

SkippedForEarlier ==
  \A f \in DOMAIN patches : \A n \in patches[f].skipped :
    SkipJustified(findings, f, n, patches[f].applied)

(* Every fix with a usable edit is heard of for each of its files: applied, *)
(* skipped, or the file is reported as unknown.                             *)
Finished == Planning /\ files = {} /\ file = None

EveryFixReported ==
  Finished =>
    \A n \in DOMAIN findings : \A e \in ToSet(Resolved(findings, n)) :
      \/ e.place \in unattributed
      \/ <<e.file>> \in unattributed
      \/ e.file \in DOMAIN patches /\ n \in patches[e.file].applied \cup patches[e.file].skipped

(* "Fixes are applied all-or-nothing: if any edit of a fix overlaps an edit *)
(* that was already accepted, the whole fix is skipped and the reason       *)
(* recorded, so a patch never ends up half-applied." (fix.rs:7)             *)
AllOrNothing ==
  Finished =>
    \A n \in DOMAIN findings, f \in DOMAIN patches :
      (\E m \in patches[f].applied : m < n /\ Overlap(findings, f, m, n))
      => \A g \in DOMAIN patches : n \notin patches[g].applied
==========================================================================
