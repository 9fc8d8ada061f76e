--------------------------- MODULE FixPlan_proofs ---------------------------
(***************************************************************************)
(* Proofs about the planning of fixes, for all files and all findings: the *)
(* comparison of neighbours finds every collision, the rewriting loop lays *)
(* out what it should, and no fix is passed over or loses without reason.  *)
(***************************************************************************)
EXTENDS FixPlan, SequenceTheorems, FiniteSetTheorems, FunctionTheorems, TLAPS

(* A set of naturals that is not empty has a least element.                 *)
LEMMA LeastElement ==
  ASSUME NEW S \in SUBSET Nat, S # {}
  PROVE  \E m \in S : \A k \in S : m <= k
<1> DEFINE R == OpToRel(<, Nat)
<1>1. IsWellFoundedOn(R, Nat)
  BY NatLessThanWellFounded
<1> HIDE DEF R
<1>2. PICK m \in S : \A k \in S : ~(<<k, m>> \in R)
  BY <1>1, WFMin
<1>3. ASSUME NEW k \in S PROVE m <= k
  <2>1. ~(<<k, m>> \in R)
    BY <1>2
  <2>2. ~(k < m)
    BY <2>1 DEF R, OpToRel
  <2> QED BY <2>2
<1> QED BY <1>3

--------------------------------------------------------------------------
(* Sets of edits and their order.                                           *)
IsEdit(e) ==
  /\ e.start \in Nat /\ e.end \in Nat
  /\ e.place = <<e.place[1], e.place[2]>>
  /\ e.place[1] \in Nat \ {0} /\ e.place[2] \in Nat

AllEdits(edits) == \A e \in edits : IsEdit(e)

IsEdits(edits) ==
  /\ IsFiniteSet(edits)
  /\ \A e \in edits : IsEdit(e)
  /\ \A d, e \in edits : d.place = e.place => d = e

(* Precedes is a strict total order on the edits of a set.                  *)
LEMMA PrecedesIsTotal ==
  ASSUME NEW edits, IsEdits(edits), NEW d \in edits, NEW e \in edits
  PROVE  /\ ~Precedes(d, d)
         /\ d # e => Precedes(d, e) \/ Precedes(e, d)
         /\ ~(Precedes(d, e) /\ Precedes(e, d))
         /\ \A c \in edits : Precedes(c, d) /\ Precedes(d, e) => Precedes(c, e)
<1>1. IsEdit(d) /\ IsEdit(e) /\ \A c \in edits : IsEdit(c)
  BY DEF IsEdits
<1>2. d # e => d.place[1] # e.place[1] \/ d.place[2] # e.place[2]
  BY <1>1 DEF IsEdits, IsEdit
<1>3. /\ ~Precedes(d, d)
      /\ d # e => Precedes(d, e) \/ Precedes(e, d)
      /\ ~(Precedes(d, e) /\ Precedes(e, d))
  BY <1>1, <1>2 DEF Precedes, Earlier, IsEdit
<1>4. ASSUME NEW c \in edits, Precedes(c, d), Precedes(d, e) PROVE Precedes(c, e)
  BY <1>1, <1>4 DEF Precedes, Earlier, IsEdit
<1> QED BY <1>3, <1>4

Rank(edits, e) == Cardinality({d \in edits : Precedes(d, e)})

LEMMA RankBounds ==
  ASSUME NEW edits, IsEdits(edits), NEW e \in edits
  PROVE  /\ Cardinality(edits) \in Nat
         /\ Rank(edits, e) \in 0..(Cardinality(edits) - 1)
<1> DEFINE before == {d \in edits : Precedes(d, e)}
<1>1. IsFiniteSet(edits) /\ e \notin before
  BY PrecedesIsTotal DEF IsEdits
<1>2. before \subseteq edits /\ before # edits
  BY <1>1
<1>3. /\ IsFiniteSet(before) /\ Cardinality(before) \in Nat /\ Cardinality(edits) \in Nat
      /\ Cardinality(before) < Cardinality(edits)
  BY <1>1, <1>2, FS_Subset, FS_CardinalityType
<1> HIDE DEF before
<1>4. Rank(edits, e) = Cardinality(before)
  BY DEF Rank, before
<1> QED BY <1>3, <1>4

LEMMA RankIncreases ==
  ASSUME NEW edits, IsEdits(edits), NEW d \in edits, NEW e \in edits, Precedes(d, e)
  PROVE  Rank(edits, d) < Rank(edits, e)
<1> DEFINE A == {c \in edits : Precedes(c, d)}
           B == {c \in edits : Precedes(c, e)}
<1>1. A \subseteq B /\ d \in B /\ d \notin A
  BY PrecedesIsTotal
<1>2. IsFiniteSet(B)
  BY FS_Subset DEF IsEdits
<1> HIDE DEF A, B
<1>3. Cardinality(A) < Cardinality(B)
  BY <1>1, <1>2, FS_Subset, FS_CardinalityType
<1> QED BY <1>3 DEF Rank, A, B

(* InOrder lists the edits of a set, each once, in the order of Precedes.   *)
IsSorting(edits, planned) ==
  LET n == Cardinality(edits)
  IN  /\ n \in Nat /\ DOMAIN planned = 1..n /\ Len(planned) = n
      /\ \A k \in 1..n : planned[k] \in edits
      /\ \A k, l \in 1..n : k < l => Precedes(planned[k], planned[l])
      /\ \A e \in edits : \E k \in 1..n : planned[k] = e

LEMMA RankOnto ==
  ASSUME NEW edits, IsEdits(edits), NEW k \in 1..Cardinality(edits)
  PROVE  \E e \in edits : Rank(edits, e) = k - 1
<1> DEFINE n == Cardinality(edits)
           ranks == {Rank(edits, e) : e \in edits}
           f == [e \in edits |-> Rank(edits, e)]
<1>1. IsFiniteSet(edits) /\ n \in Nat
  BY FS_CardinalityType DEF IsEdits
<1>2. ranks \subseteq 0..(n - 1)
  BY RankBounds
<1>3. \A d, e \in edits : Rank(edits, d) = Rank(edits, e) => d = e
  <2> TAKE d, e \in edits
  <2>1. d # e => Precedes(d, e) \/ Precedes(e, d)
    BY PrecedesIsTotal
  <2>2. Rank(edits, d) \in Nat /\ Rank(edits, e) \in Nat
    BY RankBounds, <1>1
  <2> QED BY <2>1, <2>2, RankIncreases
<1>4. f \in Bijection(edits, ranks)
  <2>1. f \in [edits -> ranks]
    OBVIOUS
  <2>2. \A d, e \in edits : f[d] = f[e] => d = e
    BY <1>3
  <2>3. \A r \in ranks : \E e \in edits : f[e] = r
    OBVIOUS
  <2> HIDE DEF f, ranks
  <2> QED BY <2>1, <2>2, <2>3, Fun_IsBij
<1>5. IsFiniteSet(ranks) /\ Cardinality(ranks) = n
  BY <1>1, <1>4, FS_Bijection DEF ExistsBijection
<1>6. IsFiniteSet(0..(n - 1)) /\ Cardinality(0..(n - 1)) = n
  <2>1. \A m \in Nat : IsFiniteSet(0..(m - 1)) /\ Cardinality(0..(m - 1)) = m
    <3> TAKE m \in Nat
    <3>1. 0 \in Int /\ m - 1 \in Int
      OBVIOUS
    <3>2. /\ IsFiniteSet(0..(m - 1))
          /\ Cardinality(0..(m - 1)) = IF 0 > m - 1 THEN 0 ELSE (m - 1) - 0 + 1
      BY <3>1, FS_Interval
    <3> QED BY <3>2
  <2> QED BY <1>1, <2>1
<1> HIDE DEF ranks, f
<1>7. ranks = 0..(n - 1)
  BY <1>2, <1>5, <1>6, FS_Subset
<1>8. k - 1 \in 0..(n - 1)
  BY <1>1
<1> QED BY <1>7, <1>8 DEF ranks

LEMMA InOrderSorts ==
  ASSUME NEW edits, IsEdits(edits)
  PROVE  IsSorting(edits, InOrder(edits))
<1> DEFINE n == Cardinality(edits)
           planned == InOrder(edits)
<1>1. n \in Nat
  BY FS_CardinalityType DEF IsEdits
<1>2. DOMAIN planned = 1..n /\ Len(planned) = n
  BY <1>1 DEF InOrder
<1>3. \A k \in 1..n : planned[k] \in edits /\ Rank(edits, planned[k]) = k - 1
  <2> TAKE k \in 1..n
  <2>1. planned[k] = CHOOSE e \in edits : Rank(edits, e) = k - 1
    BY DEF InOrder, Rank
  <2> QED BY <2>1, RankOnto
<1> HIDE DEF planned
<1>4. ASSUME NEW k \in 1..n, NEW l \in 1..n, k < l
      PROVE  Precedes(planned[k], planned[l])
  <2>1. planned[k] # planned[l]
    BY <1>3, <1>4, <1>1
  <2>2. ~Precedes(planned[l], planned[k])
    BY <1>3, <1>4, <1>1, RankIncreases
  <2> QED BY <2>1, <2>2, <1>3, PrecedesIsTotal
<1>5. ASSUME NEW e \in edits PROVE \E k \in 1..n : planned[k] = e
  <2> DEFINE k == Rank(edits, e) + 1
  <2>1. k \in 1..n /\ Rank(edits, e) = k - 1
    BY RankBounds, <1>1
  <2>2. planned[k] \in edits /\ Rank(edits, planned[k]) = Rank(edits, e)
    BY <2>1, <1>3
  <2>3. Rank(edits, e) \in Nat
    BY RankBounds, <1>1
  <2>4. planned[k] = e
    BY <2>2, <2>3, RankIncreases, PrecedesIsTotal
  <2> QED BY <2>1, <2>4
<1> QED BY <1>1, <1>2, <1>3, <1>4, <1>5 DEF IsSorting, planned

--------------------------------------------------------------------------
(* A sorted sequence whose neighbours do not overlap has no overlap at all. *)
LEMMA SortedApart ==
  ASSUME NEW edits, IsEdits(edits), NEW planned, IsSorting(edits, planned),
         \A e \in edits : Known(e),
         \A i \in 1..(Len(planned) - 1) : planned[i].end <= planned[i + 1].start
  PROVE  \A k, l \in 1..Len(planned) : k < l => planned[k].end <= planned[l].start
<1> DEFINE n == Len(planned)
           apart(k, l) == planned[k].end <= planned[l].start
<1>1. n \in Nat /\ \A k \in 1..n : planned[k] \in edits
  BY DEF IsSorting
<1>2. \A k \in 1..n : planned[k].start \in Nat /\ planned[k].end \in Nat
                       /\ planned[k].start <= planned[k].end
  BY <1>1 DEF IsEdits, IsEdit, Known
<1>3. SUFFICES ASSUME NEW k \in 1..n, \E l \in 1..n : k < l /\ ~apart(k, l)
               PROVE  FALSE
  OBVIOUS
<1> DEFINE T == {l \in Nat : l \in 1..n /\ k < l /\ ~apart(k, l)}
<1>4. T \subseteq Nat /\ T # {}
  BY <1>3, <1>1
<1>5. PICK l \in T : \A m \in T : l <= m
  BY <1>4, LeastElement
<1>6. l \in 1..n /\ k < l /\ ~apart(k, l)
  OBVIOUS
<1>7. CASE l = k + 1
  BY <1>6, <1>7, <1>1
<1>8. CASE l # k + 1
  <2>1. l - 1 \in 1..n /\ k < l - 1 /\ l - 1 \in 1..(n - 1) /\ (l - 1) + 1 = l
    BY <1>6, <1>8, <1>1
  <2>2. l - 1 \notin T
    BY <2>1, <1>5, <1>1
  <2>3. planned[k].end <= planned[l - 1].start
    BY <2>1, <2>2, <1>1
  <2>4. planned[l - 1].end <= planned[l].start
    BY <2>1
  <2> QED BY <2>1, <2>3, <2>4, <1>2, <1>6
<1> QED BY <1>7, <1>8

(* The comparison of neighbours in the sorted sequence is exact: it accepts *)
(* the edits that lie in the file and do not collide, and no others.        *)
THEOREM AppliesIsExact ==
  ASSUME NEW f, NEW edits, IsEdits(edits)
  PROVE  Applies(f, edits) <=> InRange(f, edits) /\ NoneCollide(edits)
<1> DEFINE planned == InOrder(edits)
           n == Len(planned)
           touching == \A i \in 1..(n - 1) : planned[i].end <= planned[i + 1].start
<1>1. IsSorting(edits, planned)
  BY InOrderSorts
<1>2. Applies(f, edits) <=> InRange(f, edits) /\ touching
  BY DEF Applies
<1> HIDE DEF planned
<1>3. /\ n \in Nat /\ \A k \in 1..n : planned[k] \in edits
      /\ \A k, l \in 1..n : k < l => Precedes(planned[k], planned[l])
      /\ \A e \in edits : \E k \in 1..n : planned[k] = e
  BY <1>1 DEF IsSorting
<1>4. \A k \in 1..n : planned[k].start \in Nat /\ planned[k].end \in Nat
  BY <1>3 DEF IsEdits, IsEdit
<1>5. ASSUME InRange(f, edits), touching PROVE NoneCollide(edits)
  <2>1. \A e \in edits : Known(e)
    BY <1>5 DEF InRange
  <2>2. \A k, l \in 1..n : k < l => planned[k].end <= planned[l].start
    BY <1>1, <1>5, <2>1, SortedApart
  <2>3. ASSUME NEW d \in edits, NEW e \in edits, d # e PROVE ~Collide(d, e)
    <3>1. PICK k \in 1..n, l \in 1..n : planned[k] = d /\ planned[l] = e
      BY <1>3
    <3>2. k < l \/ l < k
      BY <3>1, <2>3, <1>3
    <3>3. planned[k].end <= planned[l].start \/ planned[l].end <= planned[k].start
      BY <3>2, <2>2
    <3> QED BY <3>1, <3>3, <1>4 DEF Collide
  <2> QED BY <2>3 DEF NoneCollide
<1>6. ASSUME InRange(f, edits), NoneCollide(edits) PROVE touching
  <2> SUFFICES ASSUME NEW i \in 1..(n - 1) PROVE planned[i].end <= planned[i + 1].start
    OBVIOUS
  <2> DEFINE d == planned[i]
             e == planned[i + 1]
  <2>1. i \in 1..n /\ i + 1 \in 1..n /\ i < i + 1
    BY <1>3
  <2>2. d \in edits /\ e \in edits /\ Precedes(d, e)
    BY <2>1, <1>3
  <2>3. d # e
    BY <2>2, PrecedesIsTotal
  <2>4. ~Collide(d, e)
    BY <2>2, <2>3, <1>6 DEF NoneCollide
  <2>5. Known(e)
    BY <2>2, <1>6 DEF InRange
  <2>6. /\ d.start \in Nat /\ d.end \in Nat /\ e.start \in Nat /\ e.end \in Nat
    BY <2>1, <1>4
  <2> HIDE DEF d, e
  <2>7. d.end <= e.start
    BY <2>2, <2>4, <2>5, <2>6 DEF Precedes, Collide, Known
  <2> QED BY <2>7 DEF d, e
<1> QED BY <1>2, <1>5, <1>6

--------------------------------------------------------------------------
(* Laying out the text.                                                     *)
IsList(s) == Len(s) \in Nat /\ s = [i \in 1..Len(s) |-> s[i]]

LEMMA SeqIsList ==
  ASSUME NEW S, NEW s \in Seq(S)
  PROVE  IsList(s)
BY DEF IsList

LEMMA ListJoined ==
  ASSUME NEW s, NEW t, IsList(s), IsList(t)
  PROVE  /\ IsList(s \o t) /\ Len(s \o t) = Len(s) + Len(t)
         /\ \A i \in 1..Len(s) : (s \o t)[i] = s[i]
         /\ \A i \in (Len(s) + 1)..(Len(s) + Len(t)) : (s \o t)[i] = t[i - Len(s)]
<1> DEFINE S == {s[i] : i \in 1..Len(s)} \cup {t[i] : i \in 1..Len(t)}
<1>1. s \in Seq(S) /\ t \in Seq(S)
  <2>1. [i \in 1..Len(s) |-> s[i]] \in Seq(S) /\ [i \in 1..Len(t) |-> t[i]] \in Seq(S)
    BY DEF IsList
  <2> QED BY <2>1 DEF IsList
<1> HIDE DEF S
<1>2. /\ s \o t \in Seq(S) /\ Len(s \o t) = Len(s) + Len(t)
      /\ \A i \in 1..(Len(s) + Len(t)) :
           (s \o t)[i] = IF i <= Len(s) THEN s[i] ELSE t[i - Len(s)]
  BY <1>1, ConcatProperties
<1>3. IsList(s \o t)
  BY <1>2, SeqIsList
<1>4. Len(s) \in Nat /\ Len(t) \in Nat
  BY DEF IsList
<1> QED BY <1>2, <1>3, <1>4

LEMMA ListAppended ==
  ASSUME NEW s, NEW x, IsList(s)
  PROVE  /\ IsList(Append(s, x)) /\ Len(Append(s, x)) = Len(s) + 1
         /\ \A i \in 1..Len(s) : Append(s, x)[i] = s[i]
         /\ Append(s, x)[Len(s) + 1] = x
<1> DEFINE S == {s[i] : i \in 1..Len(s)} \cup {x}
<1>1. s \in Seq(S) /\ x \in S
  <2>1. [i \in 1..Len(s) |-> s[i]] \in Seq(S)
    BY DEF IsList
  <2> QED BY <2>1 DEF IsList
<1> HIDE DEF S
<1>2. /\ Append(s, x) \in Seq(S) /\ Len(Append(s, x)) = Len(s) + 1
      /\ \A i \in 1..Len(s) : Append(s, x)[i] = s[i]
      /\ Append(s, x)[Len(s) + 1] = x
  BY <1>1, AppendProperties
<1> QED BY <1>2, SeqIsList

LEMMA BytesList ==
  ASSUME NEW from \in Nat, NEW to \in Nat, from <= to
  PROVE  /\ IsList(Bytes(from, to)) /\ Len(Bytes(from, to)) = to - from
         /\ \A i \in 1..(to - from) : Bytes(from, to)[i] = <<0, from + i>>
<1>1. to - from \in Nat
  OBVIOUS
<1> QED BY <1>1 DEF IsList, Bytes

(* Laid, element by element.                                                *)
IsKept(edits, upto, x) ==
  \E b \in 1..upto : x = <<0, b>> /\ \A e \in edits : b <= e.start \/ e.end < b

LEMMA KeptMembers ==
  ASSUME NEW edits, NEW upto \in Nat, NEW x
  PROVE  /\ x \in KeptBytes(edits, upto) <=> IsKept(edits, upto, x)
         /\ IsKept(edits, upto, x) => x[1] = 0 /\ x[2] \in 1..upto /\ x = <<0, x[2]>>
BY DEF KeptBytes, IsKept

LEMMA LaidMembers ==
  ASSUME NEW edits, AllEdits(edits), NEW upto \in Nat,
         NEW text, IsList(text), Laid(edits, upto, text)
  PROVE  /\ \A i \in 1..Len(text) :
              \/ text[i] \in KeptBytes(edits, upto) /\ text[i][1] = 0 /\ text[i][2] \in 1..upto
              \/ text[i][1] # 0 /\ \E e \in edits : text[i] = e.place
         /\ \A x \in KeptBytes(edits, upto) : \E i \in 1..Len(text) : text[i] = x
         /\ \A e \in edits : \E i \in 1..Len(text) : text[i] = e.place
<1>1. DOMAIN text = 1..Len(text)
  BY DEF IsList
<1>2. {text[i] : i \in 1..Len(text)} = KeptBytes(edits, upto) \cup {e.place : e \in edits}
  BY <1>1 DEF Laid, ToSet
<1>3. \A e \in edits : e.place[1] # 0
  BY DEF AllEdits, IsEdit
<1>4. ASSUME NEW i \in 1..Len(text)
      PROVE  \/ text[i] \in KeptBytes(edits, upto) /\ text[i][1] = 0 /\ text[i][2] \in 1..upto
             \/ text[i][1] # 0 /\ \E e \in edits : text[i] = e.place
  <2>1. CASE text[i] \in KeptBytes(edits, upto)
    BY <2>1, KeptMembers
  <2>2. CASE text[i] \in {e.place : e \in edits}
    BY <2>2, <1>3
  <2> QED BY <2>1, <2>2, <1>2
<1>5. ASSUME NEW x \in KeptBytes(edits, upto) PROVE \E i \in 1..Len(text) : text[i] = x
  BY <1>2
<1>6. ASSUME NEW e \in edits PROVE \E i \in 1..Len(text) : text[i] = e.place
  BY <1>2
<1> QED BY <1>4, <1>5, <1>6

(* The bytes up to the next edit are copied.                                *)
LEMMA BytesLaid ==
  ASSUME NEW edits, AllEdits(edits), NEW from \in Nat, NEW to \in Nat, from <= to,
         \A e \in edits : e.end <= from,
         NEW text, IsList(text), Laid(edits, from, text)
  PROVE  IsList(text \o Bytes(from, to)) /\ Laid(edits, to, text \o Bytes(from, to))
<1> DEFINE n == Len(text)
           m == to - from
           longer == text \o Bytes(from, to)
           K == KeptBytes(edits, from)
           L == KeptBytes(edits, to)
<1>1. n \in Nat /\ m \in Nat
  BY DEF IsList
<1>2. /\ IsList(longer) /\ Len(longer) = n + m
      /\ \A i \in 1..n : longer[i] = text[i]
      /\ \A i \in (n + 1)..(n + m) : longer[i] = Bytes(from, to)[i - n]
  <2> DEFINE bytes == Bytes(from, to)
  <2>1. IsList(bytes) /\ Len(bytes) = m
    BY BytesList
  <2> HIDE DEF bytes
  <2>2. /\ IsList(text \o bytes) /\ Len(text \o bytes) = Len(text) + Len(bytes)
        /\ \A i \in 1..Len(text) : (text \o bytes)[i] = text[i]
        /\ \A i \in (Len(text) + 1)..(Len(text) + Len(bytes)) :
             (text \o bytes)[i] = bytes[i - Len(text)]
    BY <2>1, ListJoined
  <2> HIDE DEF m
  <2> QED BY <2>1, <2>2 DEF bytes
<1>3. \A i \in (n + 1)..(n + m) : longer[i] = <<0, from + (i - n)>>
  <2> TAKE i \in (n + 1)..(n + m)
  <2>1. i - n \in 1..m
    BY <1>1
  <2> QED BY <1>2, <2>1, BytesList
<1>4. DOMAIN longer = 1..(n + m) /\ DOMAIN text = 1..n
  BY <1>2 DEF IsList
<1> HIDE DEF longer
<1>5. L = K \cup {<<0, b>> : b \in (from + 1)..to}
  <2>1. ASSUME NEW x \in L PROVE x \in K \cup {<<0, b>> : b \in (from + 1)..to}
    BY KeptMembers DEF IsKept
  <2>2. ASSUME NEW x \in K PROVE x \in L
    BY KeptMembers DEF IsKept
  <2>3. ASSUME NEW b \in (from + 1)..to PROVE <<0, b>> \in L
    <3>1. b \in 1..to /\ \A e \in edits : e.end < b
      BY DEF AllEdits, IsEdit
    <3> QED BY <3>1, KeptMembers DEF IsKept
  <2>4. ASSUME NEW x \in {<<0, b>> : b \in (from + 1)..to} PROVE x \in L
    <3>1. PICK b \in (from + 1)..to : x = <<0, b>>
      OBVIOUS
    <3> QED BY <2>3, <3>1
  <2> HIDE DEF K, L
  <2> QED BY <2>1, <2>2, <2>4
<1>6. /\ \A i \in 1..n :
           \/ text[i] \in K /\ text[i][1] = 0 /\ text[i][2] \in 1..from
           \/ text[i][1] # 0 /\ \E e \in edits : text[i] = e.place
      /\ \A x \in K : \E i \in 1..n : text[i] = x
      /\ \A e \in edits : \E i \in 1..n : text[i] = e.place
  BY LaidMembers
<1>7. \A i \in 1..n : text[i] \in L => text[i] \in K
  BY <1>5, <1>6
<1>8. \A i \in (n + 1)..(n + m) :
        longer[i] \in L /\ longer[i][1] = 0 /\ longer[i][2] = from + (i - n)
  <2> TAKE i \in (n + 1)..(n + m)
  <2>1. from + (i - n) \in (from + 1)..to
    BY <1>1
  <2>2. <<0, from + (i - n)>> \in L
    <3> DEFINE b == from + (i - n)
    <3>1. b \in (from + 1)..to
      BY <2>1
    <3>2. <<0, b>> \in {<<0, d>> : d \in (from + 1)..to}
      <4> HIDE DEF b
      <4> QED BY <3>1
    <3> HIDE DEF K, L
    <3> QED BY <3>2, <1>5
  <2>3. longer[i] = <<0, from + (i - n)>>
    BY <1>3
  <2>4. longer[i][1] = 0 /\ longer[i][2] = from + (i - n)
    BY <2>3
  <2> HIDE DEF L
  <2>5. longer[i] \in L
    BY <2>2, <2>3
  <2> QED BY <2>4, <2>5
<1> HIDE DEF K, L
<1>13. ASSUME NEW i \in 1..n, NEW j \in (n + 1)..(n + m)
       PROVE  longer[i] # longer[j] /\ (longer[i] \in L => longer[i][2] < longer[j][2])
  <2>1. longer[j][1] = 0 /\ longer[j][2] = from + (j - n) /\ from + (j - n) > from
    BY <1>1, <1>8
  <2>2. longer[i] = text[i]
    BY <1>2
  <2>3. CASE text[i][1] # 0 /\ \E e \in edits : text[i] = e.place
    <3>1. text[i] \notin K
      BY <2>3, KeptMembers DEF K
    <3> QED BY <3>1, <2>1, <2>2, <2>3, <1>7
  <2>4. CASE text[i] \in K /\ text[i][1] = 0 /\ text[i][2] \in 1..from
    <3> DEFINE x == text[i][2]
               y == longer[j][2]
    <3>1. x \in 1..from /\ y > from /\ y \in Nat
      BY <2>1, <2>4, <1>1
    <3>2. x < y
      BY <3>1
    <3> QED BY <3>1, <3>2, <2>2
  <2> QED BY <2>3, <2>4, <1>6
<1>9. IsInjective(longer)
  <2> SUFFICES ASSUME NEW i \in 1..(n + m), NEW j \in 1..(n + m), longer[i] = longer[j]
               PROVE  i = j
    BY <1>4 DEF IsInjective
  <2>1. CASE i \in 1..n /\ j \in 1..n
    BY <2>1, <1>2, <1>4 DEF Laid, IsInjective
  <2>2. CASE i \in (n + 1)..(n + m) /\ j \in (n + 1)..(n + m)
    <3>1. from + (i - n) = from + (j - n)
      BY <2>2, <1>8
    <3> QED BY <2>2, <3>1, <1>1
  <2>3. CASE i \in 1..n /\ j \in (n + 1)..(n + m)
    BY <2>3, <1>13
  <2>4. CASE j \in 1..n /\ i \in (n + 1)..(n + m)
    BY <2>4, <1>13
  <2> QED BY <2>1, <2>2, <2>3, <2>4, <1>1
<1>10. ToSet(longer) = L \cup {e.place : e \in edits}
  <2>1. ASSUME NEW i \in 1..(n + m)
        PROVE  longer[i] \in L \cup {e.place : e \in edits}
    <3>1. CASE i \in 1..n
      <4>1. longer[i] = text[i]
        BY <1>2, <3>1
      <4>2. text[i] \in K \/ \E e \in edits : text[i] = e.place
        BY <1>6, <3>1
      <4> QED BY <1>5, <4>1, <4>2
    <3>2. CASE i \in (n + 1)..(n + m)
      BY <3>2, <1>8
    <3> QED BY <3>1, <3>2, <1>1
  <2>2. ASSUME NEW x \in K PROVE \E i \in 1..(n + m) : longer[i] = x
    BY <1>1, <1>2, <1>6
  <2>3. ASSUME NEW b \in (from + 1)..to PROVE \E i \in 1..(n + m) : longer[i] = <<0, b>>
    <3>1. n + (b - from) \in (n + 1)..(n + m) /\ n + (b - from) \in 1..(n + m)
      BY <1>1
    <3>2. longer[n + (b - from)] = <<0, from + ((n + (b - from)) - n)>>
      BY <3>1, <1>3
    <3>3. from + ((n + (b - from)) - n) = b
      BY <1>1
    <3> QED BY <3>1, <3>2, <3>3
  <2>4. ASSUME NEW e \in edits PROVE \E i \in 1..(n + m) : longer[i] = e.place
    BY <1>1, <1>2, <1>6
  <2>5. ToSet(longer) = {longer[i] : i \in 1..(n + m)}
    BY <1>4 DEF ToSet
  <2>6. ASSUME NEW x \in L \cup {e.place : e \in edits}
        PROVE  \E i \in 1..(n + m) : longer[i] = x
    <3>1. CASE x \in K
      BY <2>2, <3>1
    <3>2. CASE \E b \in (from + 1)..to : x = <<0, b>>
      BY <2>3, <3>2
    <3>3. CASE \E e \in edits : x = e.place
      BY <2>4, <3>3
    <3> QED BY <1>5, <3>1, <3>2, <3>3
  <2> QED BY <2>1, <2>5, <2>6
<1>11. ASSUME NEW i \in 1..(n + m), NEW j \in 1..(n + m), i < j, longer[i] \in L, longer[j] \in L
       PROVE  longer[i][2] < longer[j][2]
  <2>1. CASE j \in 1..n
    <3>1. i \in 1..n
      BY <2>1, <1>11, <1>1
    <3>2. text[i] \in K /\ text[j] \in K
      BY <3>1, <2>1, <1>2, <1>7, <1>11
    <3>3. text[i][2] < text[j][2]
      BY <3>1, <3>2, <2>1, <1>4, <1>11 DEF Laid, K
    <3> QED BY <3>1, <3>3, <2>1, <1>2
  <2>2. CASE i \in 1..n /\ j \in (n + 1)..(n + m)
    BY <2>2, <1>13, <1>11
  <2>3. CASE i \in (n + 1)..(n + m) /\ j \in (n + 1)..(n + m)
    BY <2>3, <1>1, <1>8, <1>11
  <2> QED BY <2>1, <2>2, <2>3, <1>1, <1>11
<1>12. ASSUME NEW e \in edits, NEW i \in 1..(n + m), NEW j \in 1..(n + m),
              longer[i] = e.place, longer[j] \in L
       PROVE  IF j < i THEN longer[j][2] <= e.start ELSE e.end < longer[j][2]
  <2>1. i \in 1..n
    <3>1. longer[i][1] # 0
      BY <1>12 DEF AllEdits, IsEdit
    <3> QED BY <3>1, <1>8, <1>1
  <2>2. CASE j \in 1..n
    <3>1. text[i] = e.place /\ text[j] \in K
      BY <2>1, <2>2, <1>2, <1>7, <1>12
    <3> QED BY <3>1, <2>1, <2>2, <1>2, <1>4 DEF Laid, K
  <2>3. CASE j \in (n + 1)..(n + m)
    BY <2>1, <2>3, <1>1, <1>8 DEF AllEdits, IsEdit
  <2> QED BY <2>2, <2>3, <1>1
<1> QED BY <1>2, <1>4, <1>9, <1>10, <1>11, <1>12 DEF Laid, L, longer

(* What the edit puts in follows; the cursor moves to where its range ends. *)
LEMMA EditLaid ==
  ASSUME NEW edits, AllEdits(edits), NEW e, IsEdit(e), Known(e),
         \A d \in edits : d.place # e.place,
         NEW text, IsList(text), Laid(edits, e.start, text)
  PROVE  /\ AllEdits(edits \cup {e})
         /\ IsList(Append(text, e.place))
         /\ Laid(edits \cup {e}, e.end, Append(text, e.place))
<1> DEFINE n == Len(text)
           longer == Append(text, e.place)
           all == edits \cup {e}
           K == KeptBytes(edits, e.start)
           L == KeptBytes(all, e.end)
<1>1. /\ n \in Nat /\ e.start \in Nat /\ e.end \in Nat /\ e.start <= e.end
      /\ e.place[1] # 0
  BY DEF IsList, IsEdit, Known
<1>2. /\ IsList(longer) /\ Len(longer) = n + 1
      /\ \A i \in 1..n : longer[i] = text[i]
      /\ longer[n + 1] = e.place
  BY ListAppended
<1>3. DOMAIN longer = 1..(n + 1) /\ DOMAIN text = 1..n
  BY <1>2 DEF IsList
<1> HIDE DEF longer
<1>4. AllEdits(all)
  BY DEF AllEdits
<1>5. L = K
  <2>1. ASSUME NEW x \in L PROVE x \in K
    <3>1. IsKept(all, e.end, x)
      BY <1>1, KeptMembers
    <3>2. PICK b \in 1..e.end : x = <<0, b>> /\ \A d \in all : b <= d.start \/ d.end < b
      BY <3>1 DEF IsKept
    <3>3. b <= e.start
      BY <3>2, <1>1
    <3>4. b \in 1..e.start /\ \A d \in edits : b <= d.start \/ d.end < b
      BY <3>2, <3>3, <1>1
    <3>5. IsKept(edits, e.start, x)
      BY <3>2, <3>4 DEF IsKept
    <3> QED BY <3>5, <1>1, KeptMembers
  <2>2. ASSUME NEW x \in K PROVE x \in L
    <3>1. IsKept(edits, e.start, x)
      BY <1>1, KeptMembers
    <3>2. PICK b \in 1..e.start : x = <<0, b>> /\ \A d \in edits : b <= d.start \/ d.end < b
      BY <3>1 DEF IsKept
    <3>3. b \in 1..e.end /\ b <= e.start
      BY <1>1
    <3>4. IsKept(all, e.end, x)
      BY <3>2, <3>3 DEF IsKept
    <3> QED BY <3>4, <1>1, KeptMembers
  <2> HIDE DEF K, L
  <2> QED BY <2>1, <2>2
<1>6. /\ \A i \in 1..n :
           \/ text[i] \in K /\ text[i][1] = 0 /\ text[i][2] \in 1..e.start
           \/ text[i][1] # 0 /\ \E d \in edits : text[i] = d.place
      /\ \A x \in K : \E i \in 1..n : text[i] = x
      /\ \A d \in edits : \E i \in 1..n : text[i] = d.place
  BY <1>1, LaidMembers
<1>7. e.place \notin K
  BY <1>1, KeptMembers
<1> HIDE DEF K, L
<1>8. \A i \in 1..n : longer[i] # e.place
  BY <1>1, <1>2, <1>6
<1>9. IsInjective(longer)
  <2> SUFFICES ASSUME NEW i \in 1..(n + 1), NEW j \in 1..(n + 1), longer[i] = longer[j]
               PROVE  i = j
    BY <1>3 DEF IsInjective
  <2>1. CASE i \in 1..n /\ j \in 1..n
    BY <2>1, <1>2, <1>3 DEF Laid, IsInjective
  <2>2. CASE i = n + 1 \/ j = n + 1
    BY <2>2, <1>1, <1>2, <1>8
  <2> QED BY <2>1, <2>2, <1>1
<1>10. ToSet(longer) = L \cup {d.place : d \in all}
  <2>1. ToSet(longer) = {longer[i] : i \in 1..(n + 1)}
    BY <1>3 DEF ToSet
  <2>2. ASSUME NEW i \in 1..(n + 1) PROVE longer[i] \in L \cup {d.place : d \in all}
    <3>1. CASE i \in 1..n
      BY <3>1, <1>2, <1>5, <1>6
    <3>2. CASE i = n + 1
      BY <3>2, <1>2
    <3> QED BY <3>1, <3>2, <1>1
  <2>3. ASSUME NEW x \in L PROVE \E i \in 1..(n + 1) : longer[i] = x
    BY <1>1, <1>2, <1>5, <1>6
  <2>4. ASSUME NEW d \in all PROVE \E i \in 1..(n + 1) : longer[i] = d.place
    <3>1. CASE d \in edits
      BY <3>1, <1>1, <1>2, <1>6
    <3>2. CASE d = e
      BY <3>2, <1>1, <1>2
    <3> QED BY <3>1, <3>2
  <2> QED BY <2>1, <2>2, <2>3, <2>4
<1>11. ASSUME NEW i \in 1..(n + 1), NEW j \in 1..(n + 1), i < j, longer[i] \in L, longer[j] \in L
       PROVE  longer[i][2] < longer[j][2]
  <2>1. i \in 1..n /\ j \in 1..n
    BY <1>11, <1>1, <1>2, <1>5, <1>7
  <2> QED BY <2>1, <1>2, <1>3, <1>5, <1>11 DEF Laid, K
<1>12. ASSUME NEW d \in all, NEW i \in 1..(n + 1), NEW j \in 1..(n + 1),
              longer[i] = d.place, longer[j] \in L
       PROVE  IF j < i THEN longer[j][2] <= d.start ELSE d.end < longer[j][2]
  <2>1. j \in 1..n /\ longer[j] = text[j] /\ text[j] \in K
    BY <1>12, <1>1, <1>2, <1>5, <1>7
  <2>2. CASE d \in edits
    <3>1. i \in 1..n
      BY <2>2, <1>12, <1>1, <1>2
    <3> QED BY <3>1, <2>1, <2>2, <1>2, <1>3, <1>12 DEF Laid, K
  <2>3. CASE d = e
    <3>1. i = n + 1
      BY <2>3, <1>12, <1>1, <1>8
    <3>2. text[j][2] \in 1..e.start
      BY <2>1, <1>1, KeptMembers DEF K
    <3> QED BY <3>1, <3>2, <2>1, <2>3, <1>1
  <2> QED BY <2>2, <2>3
<1> QED BY <1>2, <1>3, <1>4, <1>9, <1>10, <1>11, <1>12 DEF Laid, L, longer

(* The recursive output of the loop exists, and is what its equation says.  *)
Written(planned, i, before) ==
  IF i = 0 THEN << >>
  ELSE Append(before \o Bytes(Cursor(planned, i - 1), planned[i].start), planned[i].place)

LEMMA OutputEquation ==
  ASSUME NEW planned, Len(planned) \in Nat
  PROVE  \E output :
           /\ Output(planned) = output[Len(planned)]
           /\ output[0] = << >>
           /\ \A i \in 1..Len(planned) : output[i] =
                 Append(output[i - 1] \o Bytes(Cursor(planned, i - 1), planned[i].start),
                        planned[i].place)
<1> DEFINE N == Len(planned)
           Writes(g, m) == g = [i \in 0..m |-> Written(planned, i, g[i - 1])]
           T == {m \in 0..N : ~\E g : Writes(g, m)}
<1>1. T = {}
  <2> SUFFICES ASSUME T # {} PROVE FALSE
    OBVIOUS
  <2> HIDE DEF Writes
  <2>4. T \in SUBSET Nat
    OBVIOUS
  <2>1. PICK m \in T : \A k \in T : m <= k
    <3> HIDE DEF T
    <3> QED BY <2>4, LeastElement
  <2> USE DEF Writes
  <2>2. CASE m = 0
    <3>1. Writes([i \in 0..0 |-> << >>], 0)
      BY DEF Written
    <3> QED BY <2>2, <3>1
  <2>3. CASE m # 0
    <3>1. m - 1 \in 0..N /\ m - 1 \notin T
      BY <2>1, <2>3
    <3>2. PICK g : Writes(g, m - 1)
      BY <3>1
    <3> DEFINE h == [i \in 0..m |-> IF i = m THEN Written(planned, m, g[m - 1]) ELSE g[i]]
    <3>3. ASSUME NEW i \in 0..m PROVE h[i] = Written(planned, i, h[i - 1])
      <4>1. CASE i = m
        BY <4>1, <2>3
      <4>2. CASE i # m /\ i # 0
        <5>1. i \in 0..(m - 1) /\ i - 1 \in 0..m /\ i - 1 # m
          BY <4>2
        <5>2. g[i] = Written(planned, i, g[i - 1])
          BY <3>2, <5>1
        <5>3. h[i] = g[i] /\ h[i - 1] = g[i - 1]
          BY <5>1, <4>2
        <5> QED BY <5>2, <5>3
      <4>3. CASE i # m /\ i = 0
        <5>1. 0 \in 0..(m - 1)
          BY <2>3
        <5>2. g[0] = Written(planned, 0, g[0 - 1])
          BY <3>2, <5>1
        <5>3. h[0] = g[0]
          BY <2>3
        <5> QED BY <4>3, <5>2, <5>3 DEF Written
      <4> QED BY <4>1, <4>2, <4>3
    <3>4. Writes(h, m)
      BY <3>3
    <3> QED BY <3>4
  <2> QED BY <2>2, <2>3
<1>2. \E g : Writes(g, N)
  BY <1>1
<1> DEFINE output == CHOOSE g : Writes(g, N)
<1>3. Writes(output, N)
  BY <1>2
<1>4. Output(planned) = output[N]
  BY DEF Output, Written
<1> HIDE DEF output
<1>5. output[0] = << >>
  BY <1>3 DEF Written
<1>6. ASSUME NEW i \in 1..N
      PROVE  output[i] = Append(output[i - 1] \o Bytes(Cursor(planned, i - 1), planned[i].start),
                                planned[i].place)
  <2>1. i \in 0..N /\ i # 0
    OBVIOUS
  <2>2. output[i] = Written(planned, i, output[i - 1])
    BY <2>1, <1>3
  <2> QED BY <2>1, <2>2 DEF Written
<1> QED BY <1>4, <1>5, <1>6

(* What the loop has written after i edits is laid out as it should be.     *)
LEMMA OutputLaid ==
  ASSUME NEW edits, IsEdits(edits), \A e \in edits : Known(e),
         NEW planned, IsSorting(edits, planned),
         \A k, l \in 1..Len(planned) : k < l => planned[k].end <= planned[l].start
  PROVE  /\ IsList(Output(planned))
         /\ Laid(edits, Cursor(planned, Len(planned)), Output(planned))
<1> DEFINE n == Len(planned)
           first(i) == {planned[k] : k \in 1..i}
           good(o, i) == IsList(o) /\ Laid(first(i), Cursor(planned, i), o)
<1>1. /\ n \in Nat /\ \A k \in 1..n : planned[k] \in edits
      /\ \A k, l \in 1..n : k < l => Precedes(planned[k], planned[l])
      /\ \A e \in edits : \E k \in 1..n : planned[k] = e
  BY DEF IsSorting
<1>2. PICK output :
        /\ Output(planned) = output[n]
        /\ output[0] = << >>
        /\ \A i \in 1..n : output[i] =
              Append(output[i - 1] \o Bytes(Cursor(planned, i - 1), planned[i].start),
                     planned[i].place)
  BY <1>1, OutputEquation
<1>3. \A k \in 1..n : IsEdit(planned[k]) /\ Known(planned[k])
  BY <1>1 DEF IsEdits
<1>4. \A i \in 0..n : AllEdits(first(i)) /\ Cursor(planned, i) \in Nat
                       /\ \A e \in first(i) : e.end <= Cursor(planned, i)
  <2> TAKE i \in 0..n
  <2>1. AllEdits(first(i))
    BY <1>3, <1>1 DEF AllEdits
  <2>2. Cursor(planned, i) \in Nat
    BY <1>3, <1>1 DEF Cursor, IsEdit
  <2>3. ASSUME NEW k \in 1..i PROVE planned[k].end <= Cursor(planned, i)
    <3>1. CASE k = i
      BY <3>1, <1>3, <1>1 DEF Cursor, IsEdit
    <3>2. CASE k < i
      <4>1. k \in 1..n /\ i \in 1..n /\ i # 0
        BY <3>2, <1>1
      <4>2. planned[k].end <= planned[i].start /\ planned[i].start <= planned[i].end
        BY <4>1, <3>2, <1>3 DEF Known
      <4>3. /\ planned[k].end \in Nat /\ planned[i].start \in Nat /\ planned[i].end \in Nat
            /\ Cursor(planned, i) = planned[i].end
        BY <4>1, <1>3 DEF IsEdit, Cursor
      <4> QED BY <4>2, <4>3
    <3> QED BY <3>1, <3>2
  <2> QED BY <2>1, <2>2, <2>3
<1>5. good(output[0], 0)
  <2>1. IsList(<< >>) /\ Len(<< >>) = 0 /\ DOMAIN << >> = {}
    BY DEF IsList
  <2>2. first(0) = {} /\ Cursor(planned, 0) = 0
    BY DEF Cursor
  <2>3. KeptBytes({}, 0) = {}
    BY DEF KeptBytes
  <2>4. ToSet(<< >>) = {} /\ IsInjective(<< >>)
    BY <2>1 DEF ToSet, IsInjective
  <2>5. Laid({}, 0, << >>)
    BY <2>1, <2>3, <2>4 DEF Laid
  <2> QED BY <2>1, <2>2, <2>5, <1>2
<1>6. ASSUME NEW i \in 1..n, good(output[i - 1], i - 1) PROVE good(output[i], i)
  <2> DEFINE e == planned[i]
             o == output[i - 1]
             c == Cursor(planned, i - 1)
             D == first(i - 1)
  <2>1. i - 1 \in 0..n /\ IsEdit(e) /\ Known(e) /\ e \in edits
    BY <1>1, <1>3
  <2>2. AllEdits(D) /\ c \in Nat /\ (\A d \in D : d.end <= c) /\ e.start \in Nat
    BY <2>1, <1>4 DEF IsEdit
  <2>3. c <= e.start
    <3>1. CASE i = 1
      BY <3>1, <2>1 DEF Cursor, IsEdit
    <3>2. CASE i # 1
      <4>1. i - 1 \in 1..n /\ i - 1 < i
        BY <3>2, <1>1
      <4> QED BY <4>1 DEF Cursor
    <3> QED BY <3>1, <3>2
  <2>4. \A d \in D : d.place # e.place
    <3> SUFFICES ASSUME NEW k \in 1..(i - 1) PROVE planned[k].place # e.place
      OBVIOUS
    <3>1. k \in 1..n /\ k < i
      BY <1>1
    <3>2. planned[k] \in edits /\ Precedes(planned[k], e)
      BY <3>1, <1>1
    <3>3. planned[k] # e
      BY <3>2, <2>1, PrecedesIsTotal
    <3> QED BY <3>2, <3>3, <2>1 DEF IsEdits
  <2>5. first(i) = D \cup {e} /\ Cursor(planned, i) = e.end
    <3>1. 1..i = 1..(i - 1) \cup {i}
      BY <1>1
    <3>2. i # 0
      OBVIOUS
    <3> QED BY <3>1, <3>2 DEF Cursor
  <2>6. output[i] = Append(o \o Bytes(c, e.start), e.place)
    BY <1>2
  <2>7. IsList(o) /\ Laid(D, c, o)
    BY <1>6
  <2> HIDE DEF e, o, c, D
  <2>8. IsList(o \o Bytes(c, e.start)) /\ Laid(D, e.start, o \o Bytes(c, e.start))
    BY <2>2, <2>3, <2>7, BytesLaid
  <2>9. IsList(output[i]) /\ Laid(D \cup {e}, e.end, output[i])
    BY <2>1, <2>2, <2>4, <2>6, <2>8, EditLaid
  <2> QED BY <2>5, <2>9
<1>7. \A i \in 0..n : good(output[i], i)
  <2> DEFINE T == {i \in 0..n : ~good(output[i], i)}
  <2> HIDE DEF good
  <2>1. SUFFICES ASSUME T # {} PROVE FALSE
    OBVIOUS
  <2>2. T \in SUBSET Nat
    OBVIOUS
  <2>3. PICK i \in T : \A j \in T : i <= j
    <3> HIDE DEF T
    <3> QED BY <2>1, <2>2, LeastElement
  <2>4. i # 0
    BY <1>5
  <2>5. i \in 1..n /\ i - 1 \in 0..n /\ i - 1 \notin T
    BY <2>3, <2>4, <1>1
  <2> QED BY <2>5, <1>6
<1>8. first(n) = edits
  BY <1>1
<1>9. n \in 0..n
  BY <1>1
<1> QED BY <1>2, <1>7, <1>8, <1>9

(* A file is rewritten faithfully whenever its edits apply.                 *)
THEOREM RewriteIsFaithful ==
  ASSUME NEW f \in Source, NEW edits, IsEdits(edits), Applies(f, edits)
  PROVE  NoneCollide(edits) /\ Laid(edits, Length[f], Rewrite(f, edits))
<1> DEFINE planned == InOrder(edits)
           n == Len(planned)
           c == Cursor(planned, n)
<1>1. IsSorting(edits, planned)
  BY InOrderSorts
<1>2. InRange(f, edits) /\ NoneCollide(edits) /\ \A e \in edits : Known(e)
  BY AppliesIsExact DEF InRange
<1>3. \A i \in 1..(n - 1) : planned[i].end <= planned[i + 1].start
  BY DEF Applies
<1>4. Rewrite(f, edits) = Output(planned) \o Bytes(c, Length[f])
  BY DEF Rewrite
<1> HIDE DEF planned
<1>5. \A k, l \in 1..n : k < l => planned[k].end <= planned[l].start
  BY <1>1, <1>2, <1>3, SortedApart
<1>6. IsList(Output(planned)) /\ Laid(edits, c, Output(planned))
  BY <1>1, <1>2, <1>5, OutputLaid
<1>7. n \in Nat /\ (\A k \in 1..n : planned[k] \in edits)
      /\ \A e \in edits : \E k \in 1..n : planned[k] = e
  BY <1>1 DEF IsSorting
<1>8. Length[f] \in Nat /\ c \in Nat /\ c <= Length[f]
  <2>1. Length[f] \in Nat
    BY LengthAssumption DEF Source
  <2>2. CASE n = 0
    BY <2>1, <2>2 DEF Cursor
  <2>3. CASE n # 0
    <3>1. n \in 1..n /\ c = planned[n].end
      BY <2>3, <1>7 DEF Cursor
    <3>2. planned[n] \in edits
      BY <3>1, <1>7
    <3> QED BY <2>1, <3>1, <3>2, <1>2 DEF InRange, IsEdits, IsEdit
  <2> QED BY <2>2, <2>3
<1>9. AllEdits(edits) /\ \A e \in edits : e.end <= c
  <2>1. AllEdits(edits)
    BY DEF AllEdits, IsEdits
  <2>2. ASSUME NEW k \in 1..n PROVE planned[k].end <= c
    <3>1. n \in 1..n /\ c = planned[n].end /\ planned[n] \in edits /\ planned[k] \in edits
      BY <1>7 DEF Cursor
    <3>2. CASE k = n
      BY <3>1, <3>2 DEF IsEdits, IsEdit
    <3>3. CASE k < n
      <4>1. planned[k].end <= planned[n].start /\ planned[n].start <= planned[n].end
        BY <3>1, <3>3, <1>2, <1>5 DEF Known
      <4>2. planned[k].end \in Nat /\ planned[n].start \in Nat /\ planned[n].end \in Nat
        BY <3>1 DEF IsEdits, IsEdit
      <4> QED BY <3>1, <4>1, <4>2
    <3> QED BY <3>2, <3>3, <1>7
  <2> QED BY <2>1, <2>2, <1>7
<1> HIDE DEF c
<1>10. Laid(edits, Length[f], Output(planned) \o Bytes(c, Length[f]))
  BY <1>6, <1>8, <1>9, BytesLaid
<1> QED BY <1>2, <1>4, <1>10

--------------------------------------------------------------------------
(* The inductive invariant.                                                 *)
Numbers == 1..Len(findings)

(* Every edit of the fixes looked at so far is in a group of its file or    *)
(* noted as unattributed.                                                   *)
GatheredInv ==
  \A n \in 1..gathered : \A e \in ToSet(Resolved(findings, n)) :
    IF Attributed(e)
      THEN \E i \in 1..Len(pending) : pending[i] = GroupFor(findings, e.file, n)
      ELSE e.place \in unattributed

(* The groups stand in the order of the findings, one for a fix and a file. *)
PendingInv ==
  /\ IsList(pending)
  /\ \A i \in 1..Len(pending) :
       /\ pending[i].of \in 1..gathered /\ pending[i].file # None
       /\ pending[i] = GroupFor(findings, pending[i].file, pending[i].of)
       /\ pending[i].edits # {}
  /\ \A i, j \in 1..Len(pending) : i < j =>
       \/ pending[i].of < pending[j].of
       \/ pending[i].of = pending[j].of /\ pending[i].file # pending[j].file

(* Each group's file is still to come, being patched, patched or reported.  *)
FilesInv ==
  \A i \in 1..Len(pending) :
    \/ pending[i].file \in files \/ pending[i].file = file
    \/ pending[i].file \in DOMAIN patches \/ <<pending[i].file>> \in unattributed

(* What a file has made of the groups it was offered.                       *)
Tried(groups, upto, f) == {groups[i].of : i \in {i \in 1..upto : groups[i].file = f}}

Settled(found, groups, upto, f, edits, done, lost) ==
  /\ edits = UNION {GroupEdits(found, f, m) : m \in done}
  /\ Applies(f, edits)
  /\ done \cup lost = Tried(groups, upto, f)
  /\ \A n \in lost : SkipJustified(found, f, n, done)

SettledInv ==
  /\ file # None => Planning /\ file \in Source
                     /\ Settled(findings, pending, next - 1, file, accepted, applied, skipped)
  /\ \A f \in DOMAIN patches :
       /\ Planning /\ f \in Source
       /\ Settled(findings, pending, Len(pending), f, patches[f].edits,
                  patches[f].applied, patches[f].skipped)
       /\ patches[f].patched = Rewrite(f, patches[f].edits)

FixInv ==
  /\ findings \in Inputs /\ gathered \in 0..Len(findings)
  /\ next \in 1..(Len(pending) + 1)
  /\ GatheredInv /\ PendingInv /\ FilesInv /\ SettledInv
  /\ applied \subseteq Numbers /\ skipped \subseteq Numbers

--------------------------------------------------------------------------
(* The edits of a fix.                                                      *)
LEMMA ImageIsFinite ==
  ASSUME NEW S, IsFiniteSet(S), NEW g, DOMAIN g = S, NEW T, T = {g[x] : x \in S}, g \in [S -> T]
  PROVE  IsFiniteSet(T)
<1>1. g \in Surjection(S, T)
  BY Fun_IsSurj
<1> QED BY <1>1, FS_Surjection

LEMMA SeqMember ==
  ASSUME NEW R, NEW q \in Seq(R), NEW n \in 1..Len(q)
  PROVE  q[n] \in R
OBVIOUS

LEMMA ResolvedEdits ==
  ASSUME NEW found \in Inputs, NEW n \in 1..Len(found)
  PROVE  /\ IsEdits(ToSet(Resolved(found, n)))
         /\ \A e \in ToSet(Resolved(found, n)) : e.place[1] = n
<1> DEFINE s == found[n].edits
           r == Resolved(found, n)
           Types == [file : Nat \cup {None}, start : Nat, end : Nat]
<1>1. found \in Seq([primary : Nat \cup {None}, edits : Seq(Types)])
  BY InputsAssumption
<1> HIDE DEF Types
<1>2. s \in Seq(Types)
  <2>1. found[n] \in [primary : Nat \cup {None}, edits : Seq(Types)]
    BY <1>1, SeqMember
  <2> QED BY <2>1
<1>3. Len(s) \in Nat /\ DOMAIN s = 1..Len(s) /\ \A i \in 1..Len(s) : s[i] \in Types
  BY <1>2
<1>4. DOMAIN r = 1..Len(s)
  BY <1>3 DEF Resolved
<1>5. \A i \in 1..Len(s) : /\ r[i].place = <<n, i>> /\ r[i].start = s[i].start
                           /\ r[i].end = s[i].end
  BY <1>3 DEF Resolved
<1>6. n \in Nat \ {0}
  BY <1>1
<1>7. \A i \in 1..Len(s) : s[i].start \in Nat /\ s[i].end \in Nat
  BY <1>3 DEF Types
<1> HIDE DEF r
<1>8. ToSet(r) = {r[i] : i \in 1..Len(s)}
  BY <1>4 DEF ToSet
<1>9. IsFiniteSet(ToSet(r))
  <2>1. IsFiniteSet(1..Len(s))
    <3>1. 1 \in Int /\ Len(s) \in Int
      BY <1>3
    <3> QED BY <3>1, FS_Interval
  <2>2. r \in [1..Len(s) -> ToSet(r)]
    BY <1>4, <1>8 DEF Resolved, r
  <2> QED BY <2>1, <2>2, <1>4, <1>8, ImageIsFinite
<1>10. \A i \in 1..Len(s) : IsEdit(r[i]) /\ r[i].place[1] = n
  BY <1>5, <1>6, <1>7 DEF IsEdit
<1>11. \A i, j \in 1..Len(s) : r[i].place = r[j].place => r[i] = r[j]
  BY <1>5
<1> QED BY <1>8, <1>9, <1>10, <1>11 DEF IsEdits, r

LEMMA GroupsAreEdits ==
  ASSUME NEW found \in Inputs, NEW f, NEW done \in SUBSET (1..Len(found))
  PROVE  IsEdits(UNION {GroupEdits(found, f, m) : m \in done})
<1> DEFINE group(m) == GroupEdits(found, f, m)
           all == UNION {group(m) : m \in done}
<1>1. \A m \in done : group(m) \subseteq ToSet(Resolved(found, m))
  BY DEF GroupEdits
<1>2. \A m \in done : /\ IsEdits(ToSet(Resolved(found, m)))
                      /\ \A e \in ToSet(Resolved(found, m)) : e.place[1] = m
  BY ResolvedEdits
<1>3. \A m \in done : IsFiniteSet(group(m))
  BY <1>1, <1>2, FS_Subset DEF IsEdits
<1>4. IsFiniteSet(done)
  <2>1. Len(found) \in Nat
    BY InputsAssumption
  <2>2. IsFiniteSet(1..Len(found))
    BY <2>1, FS_Interval
  <2> QED BY <2>2, FS_Subset
<1>5. \A e \in all : \E m \in done : e \in ToSet(Resolved(found, m))
  BY <1>1
<1> HIDE DEF group
<1>6. IsFiniteSet({group(m) : m \in done})
  <2> DEFINE g == [m \in done |-> group(m)]
             T == {g[m] : m \in done}
  <2>1. g \in [done -> T] /\ DOMAIN g = done
    OBVIOUS
  <2>2. T = {group(m) : m \in done}
    OBVIOUS
  <2> HIDE DEF g
  <2>3. IsFiniteSet(T)
    BY <1>4, <2>1, ImageIsFinite
  <2> QED BY <2>2, <2>3
<1>7. IsFiniteSet(all)
  BY <1>3, <1>6, FS_UNION
<1>8. \A e \in all : IsEdit(e)
  BY <1>2, <1>5 DEF IsEdits
<1>9. ASSUME NEW d \in all, NEW e \in all, d.place = e.place PROVE d = e
  <2>1. PICK m \in done : d \in ToSet(Resolved(found, m))
    BY <1>5
  <2>2. PICK k \in done : e \in ToSet(Resolved(found, k))
    BY <1>5
  <2>3. m = k
    BY <2>1, <2>2, <1>2, <1>9
  <2> QED BY <2>1, <2>2, <2>3, <1>2, <1>9 DEF IsEdits
<1> QED BY <1>7, <1>8, <1>9 DEF IsEdits, group

(* A group that cannot be added to what was accepted is out of range, in    *)
(* conflict with itself, or collides with a group of an earlier fix.        *)
LEMMA SkipIsJustified ==
  ASSUME NEW found \in Inputs, NEW f, NEW n \in 1..Len(found),
         NEW done \in SUBSET (1..Len(found)), \A m \in done : m < n,
         NEW edits, edits = UNION {GroupEdits(found, f, m) : m \in done},
         Applies(f, edits), ~Applies(f, edits \cup GroupEdits(found, f, n))
  PROVE  SkipJustified(found, f, n, done)
<1> DEFINE group == GroupEdits(found, f, n)
<1>1. InRange(f, edits) /\ NoneCollide(edits)
  BY GroupsAreEdits, AppliesIsExact
<1>2. ~InRange(f, edits \cup group) \/ ~NoneCollide(edits \cup group)
  <2>1. edits \cup group = UNION {GroupEdits(found, f, m) : m \in done \cup {n}}
    OBVIOUS
  <2>2. done \cup {n} \in SUBSET (1..Len(found))
    OBVIOUS
  <2>3. IsEdits(edits \cup group)
    <3>1. IsEdits(UNION {GroupEdits(found, f, m) : m \in done \cup {n}})
      BY <2>2, GroupsAreEdits
    <3> QED BY <2>1, <3>1
  <2> HIDE DEF group
  <2>4. ~Applies(f, edits \cup group)
    BY DEF group
  <2> QED BY <2>3, <2>4, AppliesIsExact
<1>3. SUFFICES ASSUME InRange(f, group), NoneCollide(group)
               PROVE  \E m \in done : m < n /\ Overlap(found, f, m, n)
  BY DEF SkipJustified
<1> HIDE DEF group
<1>4. InRange(f, edits \cup group)
  BY <1>1, <1>3 DEF InRange
<1>5. PICK d \in edits \cup group, e \in edits \cup group : d # e /\ Collide(d, e)
  BY <1>2, <1>4 DEF NoneCollide
<1>6. Collide(e, d)
  BY <1>5 DEF Collide
<1>7. \E a \in edits, b \in group : Collide(a, b)
  <2>1. CASE d \in edits /\ e \in edits
    BY <2>1, <1>1, <1>5 DEF NoneCollide
  <2>2. CASE d \in group /\ e \in group
    BY <2>2, <1>3, <1>5 DEF NoneCollide
  <2> QED BY <2>1, <2>2, <1>5, <1>6
<1>8. PICK a \in edits, b \in group : Collide(a, b)
  BY <1>7
<1>9. PICK m \in done : a \in GroupEdits(found, f, m)
  OBVIOUS
<1>10. Overlap(found, f, m, n)
  BY <1>8, <1>9 DEF Overlap, group
<1> QED BY <1>10

(* SetToSeq lists a finite set, each member once.                           *)
LEMMA SetListed ==
  ASSUME NEW S, IsFiniteSet(S)
  PROVE  /\ IsList(SetToSeq(S))
         /\ \A i \in 1..Len(SetToSeq(S)) : SetToSeq(S)[i] \in S
         /\ \A i, j \in 1..Len(SetToSeq(S)) : i # j => SetToSeq(S)[i] # SetToSeq(S)[j]
         /\ \A x \in S : \E i \in 1..Len(SetToSeq(S)) : SetToSeq(S)[i] = x
<1> DEFINE n == Cardinality(S)
           q == SetToSeq(S)
           T == {q[i] : i \in 1..n}
<1>1. n \in Nat /\ ExistsBijection(1..n, S)
  BY FS_CardinalityType
<1>2. \E g \in [1..n -> S] : IsInjective(g)
  BY <1>1 DEF ExistsBijection, Bijection, Injection
<1>3. q \in [1..n -> S] /\ IsInjective(q)
  BY <1>2 DEF SetToSeq
<1> HIDE DEF q
<1>4. /\ DOMAIN q = 1..n /\ Len(q) = n /\ q = [i \in 1..n |-> q[i]]
      /\ \A i, j \in 1..n : q[i] = q[j] => i = j
      /\ T \subseteq S
  BY <1>1, <1>3 DEF IsInjective
<1>5. q \in Bijection(1..n, T)
  <2>1. q \in [1..n -> T] /\ \A t \in T : \E i \in 1..n : q[i] = t
    BY <1>4
  <2> HIDE DEF T
  <2> QED BY <2>1, <1>4, Fun_IsBij
<1>6. IsFiniteSet(T) /\ Cardinality(T) = n
  <2>1. IsFiniteSet(1..n) /\ Cardinality(1..n) = n
    BY <1>1, FS_Interval
  <2> QED BY <2>1, <1>5, FS_Bijection DEF ExistsBijection
<1> HIDE DEF T
<1>7. T = S
  BY <1>4, <1>6, FS_Subset
<1> QED BY <1>1, <1>3, <1>4, <1>7 DEF IsList, q, T

--------------------------------------------------------------------------
(* The invariant, action by action.                                         *)
LEMMA FixInvInit == Init => FixInv
<1> SUFFICES ASSUME Init PROVE FixInv
  OBVIOUS
<1>1. Len(findings) \in Nat
  BY InputsAssumption DEF Init
<1>2. IsList(<< >>) /\ Len(<< >>) = 0 /\ DOMAIN << >> = {}
  BY DEF IsList
<1> QED
  BY <1>1, <1>2
  DEF Init, FixInv, GatheredInv, PendingInv, FilesInv, SettledInv, Numbers

(* What gathering one fix adds to the groups.                               *)
LEMMA GatherAppends ==
  ASSUME FixInv, Gather
  PROVE  LET n == gathered + 1
             targets == {e.file : e \in {e \in ToSet(Resolved(findings, n)) : Attributed(e)}}
         IN  /\ IsList(pending') /\ Len(pending) \in Nat /\ Len(pending') \in Nat
             /\ Len(pending) <= Len(pending')
             /\ \A i \in 1..Len(pending) : pending'[i] = pending[i]
             /\ \A i \in (Len(pending) + 1)..Len(pending') :
                  \E f \in targets : pending'[i] = GroupFor(findings, f, n)
             /\ \A i, j \in (Len(pending) + 1)..Len(pending') :
                  i # j => pending'[i] # pending'[j]
             /\ \A f \in targets : \E i \in 1..Len(pending') :
                  pending'[i] = GroupFor(findings, f, n)
<1> DEFINE n == gathered + 1
           all == ToSet(Resolved(findings, n))
           attributed == {e \in all : Attributed(e)}
           targets == {e.file : e \in attributed}
           groups == {GroupFor(findings, f, n) : f \in targets}
           q == SetToSeq(groups)
           l == Len(pending)
<1>1. IsList(pending) /\ l \in Nat
  BY DEF FixInv, PendingInv, IsList
<1>2. findings \in Inputs /\ n \in 1..Len(findings)
  <2>1. findings \in Inputs /\ gathered \in 0..Len(findings) /\ gathered < Len(findings)
    BY DEF FixInv, Gather
  <2>2. Len(findings) \in Nat
    BY <2>1, InputsAssumption
  <2> QED BY <2>1, <2>2
<1>3. IsFiniteSet(attributed)
  BY <1>2, ResolvedEdits, FS_Subset DEF IsEdits
<1>4. IsFiniteSet(groups)
  <2> DEFINE g == [e \in attributed |-> GroupFor(findings, e.file, n)]
             T == {g[e] : e \in attributed}
  <2>1. g \in [attributed -> T] /\ DOMAIN g = attributed
    OBVIOUS
  <2>2. T = groups
    OBVIOUS
  <2> HIDE DEF g, groups, attributed
  <2>3. IsFiniteSet(T)
    BY <1>3, <2>1, ImageIsFinite
  <2> QED BY <2>2, <2>3
<1>5. pending' = pending \o q
  BY DEF Gather
<1> HIDE DEF groups
<1>6. /\ IsList(q)
      /\ \A i \in 1..Len(q) : q[i] \in groups
      /\ \A i, j \in 1..Len(q) : i # j => q[i] # q[j]
      /\ \A x \in groups : \E i \in 1..Len(q) : q[i] = x
  BY <1>4, SetListed
<1> HIDE DEF q
<1>7. /\ IsList(pending') /\ Len(pending') = l + Len(q) /\ Len(q) \in Nat
      /\ \A i \in 1..l : pending'[i] = pending[i]
      /\ \A i \in (l + 1)..(l + Len(q)) : pending'[i] = q[i - l]
  <2>1. Len(q) \in Nat
    BY <1>6 DEF IsList
  <2>2. /\ IsList(pending \o q) /\ Len(pending \o q) = Len(pending) + Len(q)
        /\ \A i \in 1..Len(pending) : (pending \o q)[i] = pending[i]
        /\ \A i \in (Len(pending) + 1)..(Len(pending) + Len(q)) :
             (pending \o q)[i] = q[i - Len(pending)]
    BY <1>1, <1>6, ListJoined
  <2> QED BY <2>1, <2>2, <1>5
<1>8. \A i \in (l + 1)..Len(pending') : i - l \in 1..Len(q) /\ pending'[i] = q[i - l]
  BY <1>1, <1>7
<1>9. \A i \in (l + 1)..Len(pending') : \E f \in targets : pending'[i] = GroupFor(findings, f, n)
  <2> TAKE i \in (l + 1)..Len(pending')
  <2>1. i - l \in 1..Len(q) /\ pending'[i] = q[i - l]
    BY <1>8
  <2>2. pending'[i] \in groups
    BY <1>6, <2>1
  <2> QED BY <2>2 DEF groups
<1>10. \A i, j \in (l + 1)..Len(pending') : i # j => pending'[i] # pending'[j]
  <2> TAKE i, j \in (l + 1)..Len(pending')
  <2>1. i # j => i - l # j - l
    BY <1>1, <1>7
  <2>2. i - l \in 1..Len(q) /\ j - l \in 1..Len(q)
    BY <1>8
  <2>3. i # j => q[i - l] # q[j - l]
    BY <2>1, <2>2, <1>6
  <2> QED BY <2>3, <1>8
<1>11. \A f \in targets : \E i \in 1..Len(pending') : pending'[i] = GroupFor(findings, f, n)
  <2> TAKE f \in targets
  <2>1. GroupFor(findings, f, n) \in groups
    BY DEF groups
  <2>2. PICK k \in 1..Len(q) : q[k] = GroupFor(findings, f, n)
    BY <1>6, <2>1
  <2>3. l + k \in (l + 1)..(l + Len(q)) /\ l + k \in 1..Len(pending') /\ (l + k) - l = k
    BY <1>1, <1>7
  <2> QED BY <2>2, <2>3, <1>7
<1>12. Len(pending') \in Nat /\ l <= Len(pending')
  BY <1>1, <1>7
<1> QED BY <1>1, <1>7, <1>9, <1>10, <1>11, <1>12

LEMMA FixInvGather == FixInv /\ Gather => FixInv'
<1> SUFFICES ASSUME FixInv, Gather PROVE FixInv'
  OBVIOUS
<1> DEFINE n == gathered + 1
           all == ToSet(Resolved(findings, n))
           targets == {e.file : e \in {e \in all : Attributed(e)}}
           l == Len(pending)
<1>1. /\ findings \in Inputs /\ gathered \in 0..Len(findings) /\ gathered < Len(findings)
      /\ Len(findings) \in Nat
  BY InputsAssumption DEF FixInv, Gather
<1>2. /\ findings' = findings /\ gathered' = n /\ files' = files \cup targets
      /\ file' = file /\ next' = next /\ applied' = applied /\ skipped' = skipped
      /\ patches' = patches /\ accepted' = accepted
      /\ unattributed' = unattributed \cup {e.place : e \in {e \in all : ~Attributed(e)}}
  BY DEF Gather, patching
<1>3. /\ IsList(pending') /\ l \in Nat /\ Len(pending') \in Nat /\ l <= Len(pending')
      /\ \A i \in 1..l : pending'[i] = pending[i]
      /\ \A i \in (l + 1)..Len(pending') :
           \E f \in targets : pending'[i] = GroupFor(findings, f, n)
      /\ \A i, j \in (l + 1)..Len(pending') : i # j => pending'[i] # pending'[j]
      /\ \A f \in targets : \E i \in 1..Len(pending') :
           pending'[i] = GroupFor(findings, f, n)
  BY GatherAppends
<1>4. \A f \in targets : f # None /\ GroupEdits(findings, f, n) # {}
  BY DEF Attributed, GroupEdits
<1>5. GatheredInv'
  <2> SUFFICES ASSUME NEW m \in 1..n, NEW e \in ToSet(Resolved(findings, m))
               PROVE  IF Attributed(e)
                        THEN \E i \in 1..Len(pending') : pending'[i] = GroupFor(findings, e.file, m)
                        ELSE e.place \in unattributed'
    BY <1>2 DEF GatheredInv
  <2>1. CASE m = n
    BY <2>1, <1>2, <1>3
  <2>2. CASE m \in 1..gathered
    <3>1. IF Attributed(e)
            THEN \E i \in 1..l : pending[i] = GroupFor(findings, e.file, m)
            ELSE e.place \in unattributed
      BY <2>2 DEF FixInv, GatheredInv
    <3>2. 1..l \subseteq 1..Len(pending')
      BY <1>3
    <3> QED BY <3>1, <3>2, <1>2, <1>3
  <2> QED BY <2>1, <2>2, <1>1
<1>6. \A i \in 1..l :
        /\ pending[i].of \in 1..gathered /\ pending[i].file # None
        /\ pending[i] = GroupFor(findings, pending[i].file, pending[i].of)
        /\ pending[i].edits # {}
  BY DEF FixInv, PendingInv
<1>7. \A i \in (l + 1)..Len(pending') :
        /\ pending'[i].of = n /\ pending'[i].file # None /\ pending'[i].file \in targets
        /\ pending'[i] = GroupFor(findings, pending'[i].file, n)
        /\ pending'[i].edits # {}
  <2> TAKE i \in (l + 1)..Len(pending')
  <2> HIDE DEF targets
  <2>1. PICK f \in targets : pending'[i] = GroupFor(findings, f, n)
    BY <1>3
  <2>2. /\ GroupFor(findings, f, n).of = n /\ GroupFor(findings, f, n).file = f
        /\ GroupFor(findings, f, n).edits = GroupEdits(findings, f, n)
    BY DEF GroupFor
  <2> QED BY <2>1, <2>2, <1>4
<1>8. PendingInv'
  <2>1. ASSUME NEW i \in 1..Len(pending')
        PROVE  /\ pending'[i].of \in 1..n /\ pending'[i].file # None
               /\ pending'[i] = GroupFor(findings, pending'[i].file, pending'[i].of)
               /\ pending'[i].edits # {}
    <3>1. CASE i \in 1..l
      <4>1. pending[i].of \in 1..n
        BY <3>1, <1>1, <1>6
      <4> QED BY <3>1, <4>1, <1>3, <1>6
    <3>2. CASE i \in (l + 1)..Len(pending')
      <4>1. n \in 1..n
        BY <1>1
      <4> QED BY <3>2, <4>1, <1>7
    <3> QED BY <3>1, <3>2, <1>3
  <2>2. ASSUME NEW i \in 1..Len(pending'), NEW j \in 1..Len(pending'), i < j
        PROVE  \/ pending'[i].of < pending'[j].of
               \/ pending'[i].of = pending'[j].of /\ pending'[i].file # pending'[j].file
    <3>1. CASE j \in 1..l
      <4>1. i \in 1..l
        BY <3>1, <2>2, <1>3
      <4> QED BY <3>1, <4>1, <2>2, <1>3 DEF FixInv, PendingInv
    <3>2. CASE i \in 1..l /\ j \in (l + 1)..Len(pending')
      <4>1. pending'[i].of \in 1..gathered /\ pending'[j].of = gathered + 1
        BY <3>2, <1>3, <1>6, <1>7
      <4> QED BY <4>1, <1>1
    <3>3. CASE i \in (l + 1)..Len(pending') /\ j \in (l + 1)..Len(pending')
      <4>1. pending'[i] # pending'[j]
        BY <3>3, <2>2, <1>3
      <4> QED BY <3>3, <4>1, <1>7
    <3> QED BY <3>1, <3>2, <3>3, <2>2, <1>3
  <2> QED BY <2>1, <2>2, <1>2, <1>3 DEF PendingInv
<1>9. FilesInv'
  <2> SUFFICES ASSUME NEW i \in 1..Len(pending')
               PROVE  \/ pending'[i].file \in files' \/ pending'[i].file = file
                      \/ pending'[i].file \in DOMAIN patches
                      \/ <<pending'[i].file>> \in unattributed'
    BY <1>2 DEF FilesInv
  <2>1. CASE i \in 1..l
    BY <2>1, <1>2, <1>3 DEF FixInv, FilesInv
  <2>2. CASE i \in (l + 1)..Len(pending')
    BY <2>2, <1>2, <1>7
  <2> QED BY <2>1, <2>2, <1>3
<1>10. file = None /\ DOMAIN patches = {}
  <2>1. ~Planning
    BY <1>1 DEF Planning
  <2> QED BY <2>1 DEF FixInv, SettledInv
<1>11. SettledInv'
  BY <1>2, <1>10 DEF SettledInv
<1>12. next' \in 1..(Len(pending') + 1)
  BY <1>2, <1>3 DEF FixInv
<1>13. gathered' \in 0..Len(findings)
  BY <1>1, <1>2
<1> QED BY <1>1, <1>2, <1>5, <1>8, <1>9, <1>11, <1>12, <1>13 DEF FixInv, Numbers

LEMMA FixInvStart == FixInv /\ StartFile => FixInv'
<1> SUFFICES ASSUME FixInv, StartFile PROVE FixInv'
  OBVIOUS
<1>1. /\ findings' = findings /\ gathered' = gathered /\ pending' = pending
      /\ patches' = patches /\ next' = 1 /\ accepted' = {} /\ applied' = {} /\ skipped' = {}
      /\ Planning /\ file = None
  BY DEF StartFile
<1>2. PICK f \in files :
        /\ files' = files \ {f}
        /\ IF f \in Source
             THEN file' = f /\ UNCHANGED unattributed
             ELSE unattributed' = unattributed \cup {<<f>>} /\ UNCHANGED file
  BY DEF StartFile
<1>3. GatheredInv'
  <2>1. \A u \in unattributed : u \in unattributed'
    BY <1>2
  <2> QED BY <1>1, <2>1 DEF FixInv, GatheredInv
<1>4. PendingInv'
  BY <1>1 DEF FixInv, PendingInv
<1>5. FilesInv'
  <2> SUFFICES ASSUME NEW i \in 1..Len(pending)
               PROVE  \/ pending[i].file \in files' \/ pending[i].file = file'
                      \/ pending[i].file \in DOMAIN patches
                      \/ <<pending[i].file>> \in unattributed'
    BY <1>1 DEF FilesInv
  <2>1. /\ pending[i].file # file
        /\ \/ pending[i].file \in files \/ pending[i].file = file
           \/ pending[i].file \in DOMAIN patches \/ <<pending[i].file>> \in unattributed
    BY <1>1 DEF FixInv, FilesInv, PendingInv
  <2> QED BY <2>1, <1>2
<1>6. \A g : Settled(findings, pending, 0, g, {}, {}, {})
  <2> TAKE g
  <2>1. Tried(pending, 0, g) = {}
    BY DEF Tried
  <2>2. IsEdits({})
    BY FS_EmptySet DEF IsEdits
  <2>3. InRange(g, {}) /\ NoneCollide({})
    BY DEF InRange, NoneCollide
  <2>4. Applies(g, {})
    BY <2>2, <2>3, AppliesIsExact
  <2> QED BY <2>1, <2>4 DEF Settled
<1>7. SettledInv'
  <2>1. Planning'
    BY <1>1 DEF Planning
  <2>2. ASSUME file' # None
        PROVE  file' \in Source
               /\ Settled(findings, pending, 0, file', {}, {}, {})
    BY <1>1, <1>2, <1>6, <2>2
  <2>3. next' - 1 = 0
    BY <1>1
  <2> QED BY <2>1, <2>2, <2>3, <1>1 DEF SettledInv, FixInv
<1>8. next' \in 1..(Len(pending) + 1)
  BY <1>1 DEF FixInv, PendingInv, IsList
<1> QED BY <1>1, <1>3, <1>4, <1>5, <1>7, <1>8 DEF FixInv, Numbers

(* What the groups before the one to try next make of the one after it.     *)
LEMMA TriedNext ==
  ASSUME NEW groups, NEW k \in Nat \ {0}, NEW f
  PROVE  Tried(groups, k, f) =
           IF groups[k].file = f THEN Tried(groups, k - 1, f) \cup {groups[k].of}
           ELSE Tried(groups, k - 1, f)
<1>1. 1..k = 1..(k - 1) \cup {k}
  OBVIOUS
<1> QED BY <1>1 DEF Tried

LEMMA TryingFacts ==
  ASSUME FixInv, Trying
  PROVE  /\ findings \in Inputs /\ next \in 1..Len(pending) /\ Len(pending) \in Nat
         /\ next + 1 \in 1..(Len(pending) + 1) /\ (next + 1) - 1 = next
         /\ Item.of \in Numbers
         /\ Item = GroupFor(findings, Item.file, Item.of)
         /\ Item.edits = GroupEdits(findings, Item.file, Item.of)
         /\ file # None /\ Planning /\ file \in Source
         /\ Settled(findings, pending, next - 1, file, accepted, applied, skipped)
         /\ \A m \in Tried(pending, next - 1, file) : m \in Numbers /\
              (Item.file = file => m < Item.of)
<1>1. /\ findings \in Inputs /\ next \in 1..Len(pending) /\ Len(pending) \in Nat
      /\ gathered \in 0..Len(findings) /\ Len(findings) \in Nat
      /\ file # None /\ Planning /\ file \in Source
      /\ Settled(findings, pending, next - 1, file, accepted, applied, skipped)
  BY InputsAssumption DEF FixInv, Trying, PendingInv, SettledInv, IsList
<1>2. \A i \in 1..Len(pending) :
        pending[i].of \in Numbers /\ pending[i] = GroupFor(findings, pending[i].file, pending[i].of)
  BY <1>1 DEF FixInv, PendingInv, Numbers
<1>3. Item = pending[next]
  BY DEF Item
<1>4. /\ Item.of \in Numbers /\ Item = GroupFor(findings, Item.file, Item.of)
  BY <1>1, <1>2, <1>3
<1>5. GroupFor(findings, Item.file, Item.of).edits = GroupEdits(findings, Item.file, Item.of)
  BY DEF GroupFor
<1>6. ASSUME NEW i \in 1..(next - 1), pending[i].file = file
      PROVE  pending[i].of \in Numbers /\ (Item.file = file => pending[i].of < Item.of)
  <2>1. i \in 1..Len(pending) /\ i < next
    BY <1>1
  <2>2. \/ pending[i].of < pending[next].of
        \/ pending[i].of = pending[next].of /\ pending[i].file # pending[next].file
    BY <2>1, <1>1 DEF FixInv, PendingInv
  <2> QED BY <2>1, <2>2, <1>2, <1>3, <1>6
<1>7. \A m \in Tried(pending, next - 1, file) : m \in Numbers /\ (Item.file = file => m < Item.of)
  BY <1>6 DEF Tried
<1>8. next + 1 \in 1..(Len(pending) + 1) /\ (next + 1) - 1 = next
  BY <1>1
<1> QED BY <1>1, <1>4, <1>5, <1>7, <1>8

(* The parts of the invariant a tried item leaves alone.                    *)
LEMMA TryingFrame ==
  ASSUME FixInv, Trying,
         UNCHANGED <<findings, gathered, pending, unattributed, files, file, patches>>,
         next' = next + 1, applied' \subseteq Numbers, skipped' \subseteq Numbers,
         Settled(findings, pending, next, file, accepted', applied', skipped')
  PROVE  FixInv'
<1>1. GatheredInv' /\ PendingInv' /\ FilesInv'
  BY DEF FixInv, GatheredInv, PendingInv, FilesInv
<1>2. next' \in 1..(Len(pending') + 1) /\ next' - 1 = next
  BY TryingFacts
<1>3. SettledInv'
  <2>1. Planning' /\ file' \in Source
    BY TryingFacts DEF Planning
  <2>2. Settled(findings', pending', next' - 1, file', accepted', applied', skipped')
    BY <1>2
  <2> QED BY <2>1, <2>2 DEF FixInv, SettledInv
<1>4. findings' \in Inputs /\ gathered' \in 0..Len(findings')
  BY DEF FixInv
<1> QED BY <1>1, <1>2, <1>3, <1>4 DEF FixInv, Numbers

LEMMA FixInvPass == FixInv /\ PassItem => FixInv'
<1> SUFFICES ASSUME FixInv, PassItem PROVE FixInv'
  OBVIOUS
<1>1. /\ Trying /\ Item.file # file /\ next' = next + 1
      /\ UNCHANGED <<findings, gathered, pending, unattributed, files, file,
                     accepted, applied, skipped, patches>>
  BY DEF PassItem
<1>2. /\ Settled(findings, pending, next - 1, file, accepted, applied, skipped)
      /\ next \in Nat \ {0}
  BY <1>1, TryingFacts
<1>3. Tried(pending, next, file) = Tried(pending, next - 1, file)
  BY <1>1, <1>2, TriedNext DEF Item
<1>4. Settled(findings, pending, next, file, accepted, applied, skipped)
  BY <1>2, <1>3 DEF Settled
<1>5. applied \subseteq Numbers /\ skipped \subseteq Numbers
  BY DEF FixInv
<1> QED BY <1>1, <1>4, <1>5, TryingFrame

LEMMA FixInvAccept == FixInv /\ AcceptItem => FixInv'
<1> SUFFICES ASSUME FixInv, AcceptItem PROVE FixInv'
  OBVIOUS
<1> DEFINE k == Item.of
<1>1. /\ Trying /\ Item.file = file /\ next' = next + 1
      /\ Applies(file, accepted \cup Item.edits)
      /\ accepted' = accepted \cup Item.edits /\ applied' = applied \cup {k}
      /\ skipped' = skipped
      /\ UNCHANGED <<findings, gathered, pending, unattributed, files, file, patches>>
  BY DEF AcceptItem
<1>2. /\ Settled(findings, pending, next - 1, file, accepted, applied, skipped)
      /\ next \in Nat \ {0} /\ k \in Numbers
      /\ Item.edits = GroupEdits(findings, file, k)
  BY <1>1, TryingFacts
<1>3. Tried(pending, next, file) = Tried(pending, next - 1, file) \cup {k}
  BY <1>1, <1>2, TriedNext DEF Item
<1>4. accepted' = UNION {GroupEdits(findings, file, m) : m \in applied'}
  BY <1>1, <1>2 DEF Settled
<1>5. \A m \in skipped' : SkipJustified(findings, file, m, applied')
  BY <1>1, <1>2 DEF Settled, SkipJustified
<1>6. applied' \cup skipped' = Tried(pending, next, file)
  BY <1>1, <1>2, <1>3 DEF Settled
<1> HIDE DEF k
<1>7. Settled(findings, pending, next, file, accepted', applied', skipped')
  BY <1>1, <1>4, <1>5, <1>6 DEF Settled
<1>8. applied' \subseteq Numbers /\ skipped' \subseteq Numbers
  BY <1>1, <1>2 DEF FixInv
<1> QED BY <1>1, <1>7, <1>8, TryingFrame

LEMMA FixInvSkip == FixInv /\ SkipItem => FixInv'
<1> SUFFICES ASSUME FixInv, SkipItem PROVE FixInv'
  OBVIOUS
<1> DEFINE k == Item.of
<1>1. /\ Trying /\ Item.file = file /\ next' = next + 1
      /\ ~Applies(file, accepted \cup Item.edits)
      /\ accepted' = accepted /\ applied' = applied /\ skipped' = skipped \cup {k}
      /\ UNCHANGED <<findings, gathered, pending, unattributed, files, file, patches>>
  BY DEF SkipItem
<1>2. /\ Settled(findings, pending, next - 1, file, accepted, applied, skipped)
      /\ next \in Nat \ {0} /\ k \in Numbers /\ findings \in Inputs
      /\ Item.edits = GroupEdits(findings, file, k)
      /\ \A m \in Tried(pending, next - 1, file) : m \in Numbers /\ m < k
  BY <1>1, TryingFacts
<1>3. Tried(pending, next, file) = Tried(pending, next - 1, file) \cup {k}
  BY <1>1, <1>2, TriedNext DEF Item
<1>4. applied \in SUBSET (1..Len(findings)) /\ \A m \in applied : m < k
  BY <1>2 DEF Settled, Numbers
<1>5. SkipJustified(findings, file, k, applied)
  <2>1. /\ accepted = UNION {GroupEdits(findings, file, m) : m \in applied}
        /\ Applies(file, accepted)
        /\ ~Applies(file, accepted \cup GroupEdits(findings, file, k))
        /\ k \in 1..Len(findings)
    BY <1>1, <1>2 DEF Settled, Numbers
  <2> HIDE DEF k
  <2> QED BY <2>1, <1>2, <1>4, SkipIsJustified
<1> HIDE DEF k
<1>6. Settled(findings, pending, next, file, accepted', applied', skipped')
  BY <1>1, <1>2, <1>3, <1>5 DEF Settled
<1>7. applied' \subseteq Numbers /\ skipped' \subseteq Numbers
  BY <1>1, <1>2 DEF FixInv
<1> QED BY <1>1, <1>6, <1>7, TryingFrame

LEMMA FixInvPatch == FixInv /\ PatchFile => FixInv'
<1> SUFFICES ASSUME FixInv, PatchFile PROVE FixInv'
  OBVIOUS
<1>1. /\ file # None /\ next > Len(pending) /\ file' = None
      /\ UNCHANGED <<findings, gathered, pending, unattributed, files, next,
                     accepted, applied, skipped>>
  BY DEF PatchFile
<1>2. /\ Planning /\ file \in Source
      /\ Settled(findings, pending, next - 1, file, accepted, applied, skipped)
      /\ next \in 1..(Len(pending) + 1) /\ Len(pending) \in Nat
  BY <1>1 DEF FixInv, SettledInv, PendingInv, IsList
<1>3. next - 1 = Len(pending)
  BY <1>1, <1>2
<1>4. patches' = [f \in DOMAIN patches \cup {file} |->
                    IF f # file THEN patches[f]
                    ELSE [patched |-> Rewrite(file, accepted), edits |-> accepted,
                          applied |-> applied, skipped |-> skipped]]
  BY <1>2 DEF PatchFile, Settled
<1>5. GatheredInv' /\ PendingInv'
  BY <1>1 DEF FixInv, GatheredInv, PendingInv
<1>6. FilesInv'
  BY <1>1, <1>4 DEF FixInv, FilesInv
<1>7. SettledInv'
  <2>1. Planning'
    BY <1>1, <1>2 DEF Planning
  <2>2. ASSUME NEW f \in DOMAIN patches'
        PROVE  /\ f \in Source
               /\ Settled(findings, pending, Len(pending), f, patches'[f].edits,
                          patches'[f].applied, patches'[f].skipped)
               /\ patches'[f].patched = Rewrite(f, patches'[f].edits)
    <3>1. CASE f = file
      <4>1. /\ patches'[f].edits = accepted /\ patches'[f].applied = applied
            /\ patches'[f].skipped = skipped /\ patches'[f].patched = Rewrite(f, accepted)
        BY <3>1, <1>4
      <4> QED BY <3>1, <4>1, <1>2, <1>3
    <3>2. CASE f # file
      <4>1. f \in DOMAIN patches /\ patches'[f] = patches[f]
        BY <3>2, <1>4
      <4> QED BY <4>1 DEF FixInv, SettledInv
    <3> QED BY <3>1, <3>2
  <2> QED BY <2>1, <2>2, <1>1 DEF SettledInv
<1> QED BY <1>1, <1>5, <1>6, <1>7 DEF FixInv, Numbers

THEOREM FixInvariant == Spec => []FixInv
<1>1. FixInv /\ [Next]_vars => FixInv'
  <2> SUFFICES ASSUME FixInv, [Next]_vars PROVE FixInv'
    OBVIOUS
  <2>1. CASE UNCHANGED vars
    <3>1. UNCHANGED vars
      BY <2>1
    <3> USE <3>1 DEF vars
    <3>2. GatheredInv' /\ PendingInv' /\ FilesInv'
      BY DEF FixInv, GatheredInv, PendingInv, FilesInv, Numbers
    <3>3. SettledInv'
      BY DEF FixInv, SettledInv, Planning
    <3> QED BY <3>2, <3>3 DEF FixInv, Numbers, Planning
  <2> QED BY <2>1, FixInvGather, FixInvStart, FixInvPass, FixInvAccept, FixInvSkip,
             FixInvPatch DEF Next
<1> QED BY <1>1, FixInvInit, PTL DEF Spec

--------------------------------------------------------------------------
(* Types.                                                                   *)
THEOREM FixTypeCorrect == Spec => []TypeOK
<1>1. FixInv => TypeOK
  <2> SUFFICES ASSUME FixInv PROVE TypeOK
    OBVIOUS
  <2>1. /\ findings \in Inputs /\ Len(findings) \in Nat /\ DOMAIN findings = Numbers
        /\ gathered \in 0..Len(findings) /\ None \notin Numbers
    BY InputsAssumption, NoneAssumption DEF FixInv, Numbers
  <2>2. DOMAIN pending = 1..Len(pending) /\ Len(pending) \in Nat
    BY DEF FixInv, PendingInv, IsList
  <2>3. \A i \in 1..Len(pending) : pending[i].edits # {} /\ pending[i].of \in Numbers
    BY <2>1 DEF FixInv, PendingInv, Numbers
  <2>4. \A f \in DOMAIN patches : f \in Source /\ None \notin patches[f].skipped
    <3> TAKE f \in DOMAIN patches
    <3>1. f \in Source /\ patches[f].skipped \subseteq Tried(pending, Len(pending), f)
      BY DEF FixInv, SettledInv, Settled
    <3>2. Tried(pending, Len(pending), f) \subseteq Numbers
      BY <2>3 DEF Tried
    <3> QED BY <3>1, <3>2, <2>1
  <2> QED BY <2>1, <2>2, <2>3, <2>4 DEF TypeOK, FixInv, SettledInv
<1> QED BY <1>1, FixInvariant, PTL

(* The patched text of every file is its source with exactly the accepted   *)
(* edits made, each once and in its place: plan and apply_edits together.   *)
THEOREM PatchIsFaithful == Spec => []PatchFaithful
<1>1. FixInv => PatchFaithful
  <2> SUFFICES ASSUME FixInv, NEW f \in DOMAIN patches
               PROVE  NoneCollide(patches[f].edits)
                      /\ Laid(patches[f].edits, Length[f], patches[f].patched)
    BY DEF PatchFaithful
  <2> DEFINE p == patches[f]
  <2>1. /\ f \in Source /\ p.patched = Rewrite(f, p.edits) /\ Applies(f, p.edits)
        /\ p.edits = UNION {GroupEdits(findings, f, m) : m \in p.applied}
        /\ p.applied \subseteq Tried(pending, Len(pending), f) /\ Planning
    BY DEF FixInv, SettledInv, Settled
  <2>2. findings \in Inputs /\ \A i \in 1..Len(pending) : pending[i].of \in 1..Len(findings)
    BY <2>1 DEF FixInv, PendingInv, Planning
  <2>3. p.applied \in SUBSET (1..Len(findings))
    BY <2>1, <2>2 DEF Tried
  <2> HIDE DEF p
  <2>4. IsEdits(p.edits)
    <3>1. IsEdits(UNION {GroupEdits(findings, f, m) : m \in p.applied})
      BY <2>2, <2>3, GroupsAreEdits
    <3> QED BY <2>1, <3>1
  <2> QED BY <2>1, <2>4, RewriteIsFaithful DEF p
<1> QED BY <1>1, FixInvariant, PTL

(* A fix loses a file only to a fix that ranks before it, or to itself.     *)
THEOREM SkippedOnlyForEarlier == Spec => []SkippedForEarlier
<1>1. FixInv => SkippedForEarlier
  BY DEF FixInv, SettledInv, Settled, SkippedForEarlier
<1> QED BY <1>1, FixInvariant, PTL

(* When the plan is made, every edit of every fix has been applied or       *)
(* skipped with its fix, or reported as impossible to place.                *)
THEOREM EveryFixIsReported == Spec => []EveryFixReported
<1>1. FixInv => EveryFixReported
  <2> SUFFICES ASSUME FixInv, Finished, NEW n \in DOMAIN findings,
                      NEW e \in ToSet(Resolved(findings, n)),
                      e.place \notin unattributed, <<e.file>> \notin unattributed
               PROVE  e.file \in DOMAIN patches
                      /\ n \in patches[e.file].applied \cup patches[e.file].skipped
    BY DEF EveryFixReported
  <2>1. findings \in Inputs /\ n \in 1..gathered /\ file = None /\ files = {}
    BY InputsAssumption DEF FixInv, Finished, Planning
  <2>2. Attributed(e)
    BY <2>1 DEF FixInv, GatheredInv
  <2>3. PICK i \in 1..Len(pending) : pending[i] = GroupFor(findings, e.file, n)
    BY <2>1, <2>2 DEF FixInv, GatheredInv
  <2>4. pending[i].file = e.file /\ pending[i].of = n /\ e.file # None
    BY <2>2, <2>3 DEF GroupFor, Attributed
  <2>5. e.file \in DOMAIN patches
    BY <2>1, <2>4 DEF FixInv, FilesInv
  <2>6. n \in Tried(pending, Len(pending), e.file)
    BY <2>4 DEF Tried
  <2> QED BY <2>5, <2>6 DEF FixInv, SettledInv, Settled
<1> QED BY <1>1, FixInvariant, PTL
=============================================================================
