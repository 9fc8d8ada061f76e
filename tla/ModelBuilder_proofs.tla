------------------------- MODULE ModelBuilder_proofs -------------------------
(***************************************************************************)
(* What the fields of the builder say of the nodes that are open, for      *)
(* trees of any shape, what follows for the sites it records, and for what *)
(* the detectors find in them (ContractScan); then how the call graph the  *)
(* builder leaves is asked, for every call graph.                          *)
(***************************************************************************)
EXTENDS ContractScan, CallGraph, SequenceTheorems, FiniteSetTheorems, TLAPS

--------------------------------------------------------------------------
(* Stacks of nodes.                                                         *)
IsNode(n) == {"kind", "name", "contract", "previous", "cut", "test"} \subseteq DOMAIN n

IsList(o) == Len(o) \in Nat /\ o = [i \in 1..Len(o) |-> o[i]]

IsStack(o) == IsList(o) /\ \A i \in 1..Len(o) : IsNode(o[i])

LEMMA NodeOfKind ==
  ASSUME NEW n, IsNode(n), NEW v, NEW m, m = [n EXCEPT !.kind = v]
  PROVE  IsNode(m) /\ m.kind = v /\ m.test = n.test
BY DEF IsNode

LEMMA NodeWithNames ==
  ASSUME NEW n, IsNode(n), NEW v, NEW m, m = [n EXCEPT !.names = v]
  PROVE  /\ IsNode(m) /\ m.kind = n.kind /\ m.name = n.name
         /\ m.contract = n.contract /\ m.cut = n.cut /\ m.previous = n.previous
         /\ m.test = n.test
BY DEF IsNode

LEMMA NodeCut ==
  ASSUME NEW n, IsNode(n), NEW m, m = [n EXCEPT !.cut = TRUE]
  PROVE  /\ IsNode(m) /\ m.kind = n.kind /\ m.cut
         /\ m.contract = n.contract /\ m.previous = n.previous /\ m.test = n.test
BY DEF IsNode

LEMMA ListType ==
  ASSUME NEW o, IsList(o)
  PROVE  o \in Seq({o[i] : i \in 1..Len(o)}) /\ DOMAIN o = 1..Len(o)
<1>1. o \in [1..Len(o) -> {o[i] : i \in 1..Len(o)}]
  BY DEF IsList
<1> QED BY <1>1 DEF IsList

LEMMA StackType ==
  ASSUME NEW o, IsStack(o)
  PROVE  o \in Seq({o[i] : i \in 1..Len(o)}) /\ DOMAIN o = 1..Len(o)
BY ListType DEF IsStack, IsList

LEMMA Appended ==
  ASSUME NEW o, NEW n, IsList(o)
  PROVE  /\ IsList(Append(o, n))
         /\ Len(Append(o, n)) = Len(o) + 1
         /\ \A i \in 1..Len(o) : Append(o, n)[i] = o[i]
         /\ Append(o, n)[Len(o) + 1] = n
<1> DEFINE S == {o[i] : i \in 1..Len(o)} \cup {n}
<1>1. o \in Seq(S) /\ n \in S
  <2> DEFINE T == {o[i] : i \in 1..Len(o)}
  <2>1. o \in Seq(T) /\ T \subseteq S
    BY ListType
  <2> HIDE DEF T
  <2> QED BY <2>1, SeqMonotonic
<1> HIDE DEF S
<1>2. /\ Append(o, n) \in Seq(S)
      /\ Len(Append(o, n)) = Len(o) + 1
      /\ \A i \in 1..Len(o) : Append(o, n)[i] = o[i]
      /\ Append(o, n)[Len(o) + 1] = n
  BY <1>1, AppendProperties
<1>3. Append(o, n) = [i \in 1..Len(Append(o, n)) |-> Append(o, n)[i]]
  BY <1>2, LenProperties
<1> QED BY <1>2, <1>3 DEF IsList

LEMMA Pushed ==
  ASSUME NEW o, NEW n, IsStack(o), IsNode(n)
  PROVE  /\ IsStack(Append(o, n))
         /\ Len(Append(o, n)) = Len(o) + 1
         /\ \A i \in 1..Len(o) : Append(o, n)[i] = o[i]
         /\ Append(o, n)[Len(o) + 1] = n
<1>1. /\ IsList(Append(o, n)) /\ Len(Append(o, n)) = Len(o) + 1 /\ Len(o) \in Nat
      /\ \A i \in 1..Len(o) : Append(o, n)[i] = o[i]
      /\ Append(o, n)[Len(o) + 1] = n
  BY Appended DEF IsStack, IsList
<1>2. ASSUME NEW i \in 1..(Len(o) + 1) PROVE IsNode(Append(o, n)[i])
  <2>1. CASE i \in 1..Len(o)
    BY <1>1, <2>1 DEF IsStack, IsList
  <2>2. CASE i = Len(o) + 1
    BY <1>1, <2>2
  <2> QED BY <1>1, <2>1, <2>2
<1> QED BY <1>1, <1>2 DEF IsStack, IsList

LEMMA Popped ==
  ASSUME NEW o, IsStack(o), o # << >>
  PROVE  /\ IsStack(SubSeq(o, 1, Len(o) - 1))
         /\ Len(o) \in Nat \ {0}
         /\ Len(SubSeq(o, 1, Len(o) - 1)) = Len(o) - 1
         /\ \A i \in 1..(Len(o) - 1) : SubSeq(o, 1, Len(o) - 1)[i] = o[i]
<1> DEFINE S == {o[i] : i \in 1..Len(o)}
           p == SubSeq(o, 1, Len(o) - 1)
<1>1. o \in Seq(S) /\ Len(o) \in Nat /\ Len(o) > 0
  BY StackType DEF IsStack, IsList
<1>2. /\ p \in Seq(S) /\ Len(p) = Len(o) - 1
      /\ \A i \in 1..(Len(o) - 1) : p[i] = o[i]
  <2>1. 1 \in Int /\ Len(o) - 1 \in Int /\ \A i \in 1..(Len(o) - 1) : o[i] \in S
    BY <1>1
  <2> HIDE DEF S
  <2>2. /\ SubSeq(o, 1, Len(o) - 1) \in Seq(S)
        /\ Len(SubSeq(o, 1, Len(o) - 1))
             = IF 1 <= Len(o) - 1 THEN (Len(o) - 1) - 1 + 1 ELSE 0
        /\ \A i \in 1..((Len(o) - 1) - 1 + 1) : SubSeq(o, 1, Len(o) - 1)[i] = o[1 + i - 1]
    BY <2>1, SubSeqProperties
  <2> DEFINE n == Len(o)
             m == Len(p)
  <2>a. n \in Nat /\ n > 0 /\ m = IF 1 <= n - 1 THEN (n - 1) - 1 + 1 ELSE 0
    BY <1>1, <2>2
  <2> HIDE DEF n, m
  <2>3. m = n - 1
    BY <2>a
  <2> USE DEF n, m
  <2>4. ASSUME NEW i \in 1..(Len(o) - 1) PROVE p[i] = o[i]
    <3>1. i \in 1..((Len(o) - 1) - 1 + 1) /\ 1 + i - 1 = i
      BY <1>1
    <3> QED BY <2>2, <3>1
  <2> QED BY <2>2, <2>3, <2>4
<1>3. p = [i \in 1..Len(p) |-> p[i]]
  BY <1>2, LenProperties
<1>4. \A i \in 1..Len(p) : IsNode(p[i])
  BY <1>1, <1>2 DEF IsStack, IsList
<1> HIDE DEF p
<1>5. IsStack(p)
  BY <1>1, <1>2, <1>3, <1>4 DEF IsStack, IsList
<1> QED BY <1>1, <1>2, <1>5 DEF p

--------------------------------------------------------------------------
(* The last of a set of places.                                             *)
LEMMA LeastElement ==
  ASSUME NEW S \in SUBSET Nat, S # {}
  PROVE  \E m \in S : \A k \in S : m <= k
<1> DEFINE R == OpToRel(<, Nat)
<1>1. IsWellFoundedOn(R, Nat)
  BY NatLessThanWellFounded
<1> HIDE DEF R
<1>2. PICK m \in S : \A k \in S : ~(<<k, m>> \in R)
  BY <1>1, WFMin
<1>3. ASSUME NEW k \in S PROVE m <= k
  <2>1. ~(<<k, m>> \in R)
    BY <1>2
  <2>2. ~(k < m)
    BY <2>1 DEF R, OpToRel
  <2> QED BY <2>2
<1> QED BY <1>3

LEMMA LastIs ==
  ASSUME NEW n \in Nat, NEW S \in SUBSET (1..n)
  PROVE  /\ S = {} => LatestOr0(S) = 0
         /\ S # {} => LatestOr0(S) \in S /\ \A j \in S : j <= LatestOr0(S)
         /\ LatestOr0(S) \in 0..n
<1>1. ASSUME S # {} PROVE \E i \in S : \A j \in S : j <= i
  <2> DEFINE T == {n - j : j \in S}
  <2>1. \A j \in S : j \in Nat /\ j <= n /\ n - j \in Nat
    OBVIOUS
  <2>2. T \in SUBSET Nat /\ T # {}
    BY <1>1, <2>1
  <2>3. PICK t \in T : \A k \in T : t <= k
    BY <2>2, LeastElement
  <2>4. PICK i \in S : t = n - i
    OBVIOUS
  <2>5. ASSUME NEW j \in S PROVE j <= i
    <3>1. n - j \in T
      OBVIOUS
    <3>2. n - i <= n - j
      BY <2>3, <2>4, <3>1
    <3> QED BY <2>1, <3>2
  <2> QED BY <2>5
<1>2. CASE S = {}
  BY <1>2 DEF LatestOr0
<1>3. CASE S # {}
  <2>1. Latest(S) \in S /\ \A j \in S : j <= Latest(S)
    BY <1>1, <1>3 DEF Latest
  <2>2. Latest(S) \in 0..n
    <3> DEFINE k == Latest(S)
    <3>1. k \in 1..n
      BY <2>1
    <3> HIDE DEF k
    <3>2. k \in 0..n
      BY <3>1
    <3> QED BY <3>2 DEF k
  <2>3. LatestOr0(S) = Latest(S)
    BY <1>3 DEF LatestOr0
  <2> QED BY <1>3, <2>1, <2>2, <2>3
<1> QED BY <1>2, <1>3

LEMMA LastUnique ==
  ASSUME NEW n \in Nat, NEW S \in SUBSET (1..n), NEW k \in S, \A j \in S : j <= k
  PROVE  LatestOr0(S) = k
<1>1. LatestOr0(S) \in S /\ k <= LatestOr0(S)
  BY LastIs
<1>2. LatestOr0(S) <= k
  BY <1>1
<1>3. LatestOr0(S) \in 1..n /\ k \in 1..n
  BY <1>1
<1> QED BY <1>1, <1>2, <1>3

--------------------------------------------------------------------------
(* Which function and which impl block the open nodes lie in.               *)
ImplBelow(o, i) == LatestOr0({j \in 1..(i - 1) : o[j].kind = "impl"})
ContractBelow(o, i) == IF ImplBelow(o, i) = 0 THEN NoName ELSE o[ImplBelow(o, i)].contract

Context(o) ==
  IF FnNode(o) = 0 \/ o[FnNode(o)].cut THEN NoFunction
  ELSE [name |-> o[FnNode(o)].name, contract |-> ContractBelow(o, FnNode(o))]

(* What o and p differ in is of no kind of F.                               *)
Frames == {"fn", "impl"}
Agree(o, p, F) ==
  \A i \in Nat \ {0} :
    /\ i <= Len(o) /\ o[i].kind \in F =>
         /\ i <= Len(p) /\ p[i].kind = o[i].kind /\ p[i].name = o[i].name
         /\ p[i].contract = o[i].contract /\ p[i].cut = o[i].cut
         /\ p[i].previous = o[i].previous /\ p[i].test = o[i].test
    /\ i <= Len(p) /\ p[i].kind \in F => i <= Len(o) /\ o[i].kind \in F

LEMMA FnNodeFacts ==
  ASSUME NEW o, IsStack(o)
  PROVE  /\ FnNode(o) \in 0..Len(o)
         /\ FnNode(o) # 0 => o[FnNode(o)].kind = "fn"
         /\ \A j \in (FnNode(o) + 1)..Len(o) : o[j].kind # "fn"
<1> DEFINE S == {i \in DOMAIN o : o[i].kind = "fn"}
<1>1. Len(o) \in Nat /\ S \in SUBSET (1..Len(o)) /\ FnNode(o) = LatestOr0(S)
  BY StackType DEF IsStack, IsList, FnNode
<1>2. /\ S = {} => FnNode(o) = 0
      /\ S # {} => FnNode(o) \in S /\ \A j \in S : j <= FnNode(o)
      /\ FnNode(o) \in 0..Len(o)
  BY <1>1, LastIs
<1>3. ASSUME NEW j \in (FnNode(o) + 1)..Len(o) PROVE o[j].kind # "fn"
  <2>1. j \in 1..Len(o) /\ ~(j <= FnNode(o))
    BY <1>1, <1>2, <1>3
  <2> QED BY <1>2, <2>1, StackType
<1> QED BY <1>2, <1>3

LEMMA FnNodeIs ==
  ASSUME NEW o, IsStack(o), NEW k \in 0..Len(o), k # 0 => o[k].kind = "fn",
         \A j \in (k + 1)..Len(o) : o[j].kind # "fn"
  PROVE  FnNode(o) = k
<1>1. /\ FnNode(o) \in 0..Len(o)
      /\ FnNode(o) # 0 => o[FnNode(o)].kind = "fn"
      /\ \A j \in (FnNode(o) + 1)..Len(o) : o[j].kind # "fn"
  BY FnNodeFacts
<1>2. ~(FnNode(o) < k) /\ ~(k < FnNode(o))
  BY <1>1 DEF IsStack, IsList
<1> QED BY <1>1, <1>2

LEMMA ImplBelowFacts ==
  ASSUME NEW o, NEW i \in Nat \ {0}
  PROVE  /\ ImplBelow(o, i) \in 0..(i - 1)
         /\ ImplBelow(o, i) # 0 => o[ImplBelow(o, i)].kind = "impl"
BY LastIs DEF ImplBelow

(* The impl block around a place depends on the impl blocks below it only.  *)
LEMMA BelowSame ==
  ASSUME NEW o, NEW p, NEW i \in Nat \ {0},
         \A j \in 1..(i - 1) : /\ p[j].kind = "impl" <=> o[j].kind = "impl"
                               /\ o[j].kind = "impl" => p[j].contract = o[j].contract
  PROVE  ContractBelow(p, i) = ContractBelow(o, i)
<1>1. {j \in 1..(i - 1) : p[j].kind = "impl"} = {j \in 1..(i - 1) : o[j].kind = "impl"}
  OBVIOUS
<1>2. ImplBelow(p, i) = ImplBelow(o, i)
  BY <1>1 DEF ImplBelow
<1> QED BY <1>2, ImplBelowFacts DEF ContractBelow

(* Where no impl block stands between two places they lie in the same one.  *)
LEMMA BelowSkips ==
  ASSUME NEW o, NEW i \in Nat \ {0}, NEW k \in Nat \ {0}, i <= k,
         \A j \in i..(k - 1) : o[j].kind # "impl"
  PROVE  ContractBelow(o, k) = ContractBelow(o, i)
<1>1. {j \in 1..(k - 1) : o[j].kind = "impl"} = {j \in 1..(i - 1) : o[j].kind = "impl"}
  OBVIOUS
<1> QED BY <1>1 DEF ContractBelow, ImplBelow

LEMMA AgreeKeeps ==
  ASSUME NEW o, NEW p, IsStack(o), IsStack(p), Agree(o, p, Frames)
  PROVE  /\ FnNode(p) = FnNode(o)
         /\ Context(p) = Context(o)
         /\ ContractBelow(p, Len(p) + 1) = ContractBelow(o, Len(o) + 1)
         /\ \A i \in 1..Len(p) : p[i].kind = "impl" =>
              /\ i \in 1..Len(o) /\ o[i].kind = "impl" /\ p[i].previous = o[i].previous
              /\ ContractBelow(p, i) = ContractBelow(o, i)
<1>0. Len(o) \in Nat /\ Len(p) \in Nat
  BY DEF IsStack, IsList
<1>1. FnNode(p) = FnNode(o)
  <2> DEFINE k == FnNode(o)
  <2>1. k \in 0..Len(o) /\ (k # 0 => o[k].kind = "fn") /\ \A j \in (k + 1)..Len(o) : o[j].kind # "fn"
    BY FnNodeFacts
  <2> HIDE DEF k
  <2>2. k \in 0..Len(p) /\ (k # 0 => p[k].kind = "fn")
    BY <1>0, <2>1 DEF Agree, Frames
  <2>3. \A j \in (k + 1)..Len(p) : p[j].kind # "fn"
    BY <1>0, <2>1 DEF Agree, Frames
  <2>4. FnNode(p) = k
    BY <2>2, <2>3, FnNodeIs
  <2> QED BY <2>4 DEF k
<1>2. ASSUME NEW i \in Nat \ {0}, i <= Len(o) + 1, i <= Len(p) + 1
      PROVE  ContractBelow(p, i) = ContractBelow(o, i)
  <2>1. \A j \in 1..(i - 1) : /\ p[j].kind = "impl" <=> o[j].kind = "impl"
                              /\ o[j].kind = "impl" => p[j].contract = o[j].contract
    BY <1>0, <1>2 DEF Agree, Frames
  <2> QED BY <2>1, BelowSame
<1>3. Context(p) = Context(o)
  <2> DEFINE k == FnNode(o)
  <2>1. k \in 0..Len(o) /\ (k # 0 => o[k].kind = "fn")
    BY FnNodeFacts
  <2>2. CASE k = 0
    BY <1>1, <2>2 DEF Context
  <2>3. CASE k # 0
    <3>1. k \in Nat \ {0} /\ k <= Len(o) /\ o[k].kind \in Frames
      BY <1>0, <2>1, <2>3 DEF Frames
    <3>2. k <= Len(p) /\ p[k].cut = o[k].cut /\ p[k].name = o[k].name
      BY <3>1 DEF Agree
    <3>3. ContractBelow(p, k) = ContractBelow(o, k)
      BY <1>0, <1>2, <3>1, <3>2
    <3> QED BY <1>1, <3>2, <3>3 DEF Context
  <2> QED BY <2>2, <2>3
<1>4. ContractBelow(p, Len(p) + 1) = ContractBelow(o, Len(o) + 1)
  <2>1. CASE Len(o) <= Len(p)
    <3>1. \A j \in (Len(o) + 1)..Len(p) : p[j].kind # "impl"
      BY <1>0 DEF Agree, Frames
    <3>2. ContractBelow(p, Len(p) + 1) = ContractBelow(p, Len(o) + 1)
      BY <1>0, <2>1, <3>1, BelowSkips
    <3>3. ContractBelow(p, Len(o) + 1) = ContractBelow(o, Len(o) + 1)
      BY <1>0, <1>2, <2>1
    <3> QED BY <3>2, <3>3
  <2>2. CASE Len(p) <= Len(o)
    <3>1. \A j \in (Len(p) + 1)..Len(o) : o[j].kind # "impl"
      BY <1>0 DEF Agree, Frames
    <3>2. ContractBelow(o, Len(o) + 1) = ContractBelow(o, Len(p) + 1)
      BY <1>0, <2>2, <3>1, BelowSkips
    <3>3. ContractBelow(p, Len(p) + 1) = ContractBelow(o, Len(p) + 1)
      BY <1>0, <1>2, <2>2
    <3> QED BY <3>2, <3>3
  <2> QED BY <1>0, <2>1, <2>2
<1>5. ASSUME NEW i \in 1..Len(p), p[i].kind = "impl"
      PROVE  /\ i \in 1..Len(o) /\ o[i].kind = "impl" /\ p[i].previous = o[i].previous
             /\ ContractBelow(p, i) = ContractBelow(o, i)
  <2>1. i \in Nat \ {0} /\ i <= Len(p) /\ p[i].kind \in Frames
    BY <1>0, <1>5 DEF Frames
  <2>2. i <= Len(o) /\ o[i].kind \in Frames
    BY <2>1 DEF Agree
  <2>3. o[i].kind = "impl" /\ p[i].previous = o[i].previous
    BY <1>5, <2>1, <2>2 DEF Agree
  <2> QED BY <1>0, <1>2, <2>1, <2>2, <2>3
<1> QED BY <1>1, <1>3, <1>4, <1>5
--------------------------------------------------------------------------
(* What steps that enter or leave no function and no impl block do to the   *)
(* stack.                                                                   *)
LEMMA PushAgrees ==
  ASSUME NEW F, NEW o, NEW n, IsStack(o), IsNode(n), n.kind \notin F
  PROVE  IsStack(Append(o, n)) /\ Agree(o, Append(o, n), F)
<1> DEFINE p == Append(o, n)
<1>1. /\ IsStack(p) /\ Len(p) = Len(o) + 1 /\ Len(o) \in Nat
      /\ \A i \in 1..Len(o) : p[i] = o[i]
      /\ p[Len(o) + 1] = n
  BY Pushed DEF IsStack, IsList
<1> HIDE DEF p
<1>2. ASSUME NEW i \in Nat \ {0}
      PROVE  /\ i <= Len(o) => i <= Len(p) /\ p[i] = o[i]
             /\ i <= Len(p) /\ p[i].kind \in F => i <= Len(o) /\ p[i] = o[i]
  <2>1. i <= Len(o) => i \in 1..Len(o) /\ i <= Len(p)
    BY <1>1
  <2>2. i <= Len(p) => i <= Len(o) \/ i = Len(o) + 1
    BY <1>1
  <2>3. i = Len(o) + 1 => p[i] = n
    BY <1>1
  <2> QED BY <1>1, <2>1, <2>2, <2>3
<1>3. Agree(o, p, F)
  BY <1>2 DEF Agree
<1> QED BY <1>1, <1>3 DEF p

LEMMA PopAgrees ==
  ASSUME NEW F, NEW o, IsStack(o), o # << >>, o[Len(o)].kind \notin F
  PROVE  IsStack(SubSeq(o, 1, Len(o) - 1)) /\ Agree(o, SubSeq(o, 1, Len(o) - 1), F)
<1> DEFINE p == SubSeq(o, 1, Len(o) - 1)
<1>1. /\ IsStack(p) /\ Len(p) = Len(o) - 1 /\ Len(o) \in Nat \ {0}
      /\ \A i \in 1..(Len(o) - 1) : p[i] = o[i]
  BY Popped
<1> HIDE DEF p
<1>2. ASSUME NEW i \in Nat \ {0}
      PROVE  /\ i <= Len(p) => i <= Len(o) /\ p[i] = o[i]
             /\ i <= Len(o) /\ o[i].kind \in F => i <= Len(p) /\ p[i] = o[i]
  <2>1. i <= Len(p) => i \in 1..(Len(o) - 1) /\ i <= Len(o)
    BY <1>1
  <2>2. i <= Len(o) => i <= Len(p) \/ i = Len(o)
    BY <1>1
  <2> QED BY <1>1, <2>1, <2>2
<1>3. Agree(o, p, F)
  BY <1>2 DEF Agree
<1> QED BY <1>1, <1>3 DEF p

LEMMA TopAgrees ==
  ASSUME NEW F, NEW o, NEW n, IsStack(o), o # << >>, IsNode(n),
         \/ o[Len(o)].kind \notin F /\ n.kind \notin F
         \/ /\ n.kind = o[Len(o)].kind /\ n.name = o[Len(o)].name
            /\ n.contract = o[Len(o)].contract /\ n.cut = o[Len(o)].cut
            /\ n.previous = o[Len(o)].previous /\ n.test = o[Len(o)].test
  PROVE  IsStack([o EXCEPT ![Len(o)] = n]) /\ Agree(o, [o EXCEPT ![Len(o)] = n], F)
<1> DEFINE p == [o EXCEPT ![Len(o)] = n]
           k == Len(o)
           S == {o[i] : i \in 1..Len(o)} \cup {n}
<1>1. k \in Nat \ {0} /\ o \in [1..k -> S] /\ n \in S
  <2>1. k \in Nat \ {0} /\ o = [i \in 1..k |-> o[i]]
    BY Popped DEF IsStack, IsList
  <2> QED BY <2>1
<1>2. p = [o EXCEPT ![k] = n]
  OBVIOUS
<1> HIDE DEF p, k, S
<1>3. p \in [1..k -> S]
  BY <1>1, <1>2
<1>4. p[k] = n /\ \A i \in 1..k : i # k => p[i] = o[i]
  BY <1>1, <1>2
<1>5. Len(p) = k
  <2>1. p \in Seq(S) /\ DOMAIN p = 1..k
    BY <1>1, <1>3
  <2> QED BY <1>1, <2>1, LenProperties
<1>a. k = Len(o) /\ p = [o EXCEPT ![Len(o)] = n]
  BY DEF k, p
<1>b. IsStack(p)
  <2>1. \A i \in 1..k : IsNode(p[i])
    BY <1>1, <1>4, <1>a DEF IsStack, IsList
  <2>2. p = [i \in 1..k |-> p[i]]
    BY <1>3
  <2> QED BY <1>1, <1>5, <2>1, <2>2 DEF IsStack, IsList
<1>6. ASSUME NEW i \in Nat \ {0}, i <= Len(o)
      PROVE  i # Len(o) => p[i] = o[i]
  <2>1. i <= k
    BY <1>6, <1>a
  <2>2. i \in 1..k
    BY <1>1, <2>1
  <2>3. i # k => p[i] = o[i]
    BY <1>4, <2>2
  <2> QED BY <2>3, <1>a
<1>7. p[Len(o)] = n
  BY <1>4, <1>a
<1>8. ASSUME NEW i \in Nat \ {0}, i <= Len(o)
      PROVE  \/ p[i] = o[i]
             \/ p[i].kind \notin F /\ o[i].kind \notin F
             \/ /\ p[i].kind = o[i].kind /\ p[i].name = o[i].name
                /\ p[i].contract = o[i].contract /\ p[i].cut = o[i].cut
                /\ p[i].previous = o[i].previous /\ p[i].test = o[i].test
  <2>1. CASE i = Len(o)
    BY <1>7, <2>1
  <2> QED BY <1>6, <1>8, <2>1
<1>9. Agree(o, p, F)
  BY <1>5, <1>8, <1>a DEF Agree
<1> QED BY <1>9, <1>a, <1>b

--------------------------------------------------------------------------
(* The induction.                                                           *)

(* The fields function and impl_ctx are what the open nodes say, and an     *)
(* open impl block holds what it will restore.                              *)
ContextInv ==
  /\ vocabulary \in Vocabularies
  /\ IsStack(open)
  /\ function = Context(open)
  /\ impl_ctx.contract = ContractBelow(open, Len(open) + 1)
  /\ \A i \in 1..Len(open) : open[i].kind = "impl" =>
       open[i].previous.contract = ContractBelow(open, i)

LEMMA AgreeingStep ==
  ASSUME ContextInv, IsStack(open'), Agree(open, open', Frames),
         vocabulary' = vocabulary, function' = function,
         impl_ctx'.contract = impl_ctx.contract
  PROVE  ContextInv'
<1>1. /\ Context(open') = Context(open)
      /\ ContractBelow(open', Len(open') + 1) = ContractBelow(open, Len(open) + 1)
      /\ \A i \in 1..Len(open') : open'[i].kind = "impl" =>
           /\ i \in 1..Len(open) /\ open[i].kind = "impl"
           /\ open'[i].previous = open[i].previous
           /\ ContractBelow(open', i) = ContractBelow(open, i)
  BY AgreeKeeps DEF ContextInv
<1>2. function' = Context(open)'
  <2>1. Context(open)' = Context(open')
    BY DEF Context, ContractBelow, ImplBelow, FnNode, LatestOr0, Latest, NoFunction
  <2> QED BY <1>1, <2>1 DEF ContextInv
<1>3. /\ impl_ctx'.contract = ContractBelow(open', Len(open') + 1)
      /\ \A i \in 1..Len(open') : open'[i].kind = "impl" =>
           open'[i].previous.contract = ContractBelow(open', i)
  BY <1>1 DEF ContextInv
<1> QED BY <1>2, <1>3 DEF ContextInv

LEMMA NodesAreNodes ==
  ASSUME NEW kind
  PROVE  IsNode(Node(kind)) /\ Node(kind).kind = kind
<1>1. Node(kind).kind = kind
  BY DEF Node, NodeOf
<1>2. IsNode(Node(kind))
  BY DEF Node, NodeOf, IsNode
<1> QED BY <1>1, <1>2

LEMMA ContextInit == Init => ContextInv
<1> SUFFICES ASSUME Init PROVE ContextInv
  OBVIOUS
<1>1. open = << >> /\ Len(open) = 0
  BY DEF Init
<1>2. IsStack(open)
  BY <1>1 DEF IsStack, IsList
<1>3. FnNode(open) = 0
  BY <1>1, <1>2, FnNodeFacts
<1>4. ImplBelow(open, 1) = 0
  BY ImplBelowFacts
<1> QED BY <1>1, <1>2, <1>3, <1>4 DEF Init, ContextInv, Context, ContractBelow, NoImpl

LEMMA StepBeginFile ==
  ASSUME ContextInv, NEW t \in BOOLEAN, BeginFile(t)
  PROVE  ContextInv'
<1>1. open = << >> /\ open' = open /\ Len(open) = 0 /\ vocabulary' = vocabulary
  BY DEF BeginFile
<1>2. FnNode(open) = 0
  BY <1>1, FnNodeFacts DEF ContextInv
<1>3. ImplBelow(open, 1) = 0
  BY ImplBelowFacts
<1>4. function' = NoFunction /\ impl_ctx' = NoImpl
  BY DEF BeginFile, NewFile
<1>5. function = NoFunction /\ impl_ctx.contract = NoName
  BY <1>1, <1>2, <1>3 DEF ContextInv, Context, ContractBelow
<1>6. Agree(open, open, Frames)
  BY DEF Agree
<1>7. IsStack(open') /\ Agree(open, open', Frames)
  BY <1>1, <1>6 DEF ContextInv
<1> QED BY <1>1, <1>4, <1>5, <1>7, AgreeingStep DEF NoImpl

LEMMA StillStep ==
  ASSUME ContextInv, open' = open, vocabulary' = vocabulary,
         function' = function, impl_ctx' = impl_ctx
  PROVE  ContextInv'
<1>1. Agree(open, open, Frames)
  BY DEF Agree
<1>2. IsStack(open') /\ Agree(open, open', Frames)
  BY <1>1 DEF ContextInv
<1> QED BY <1>2, AgreeingStep

LEMMA PushStep ==
  ASSUME ContextInv, NEW n, IsNode(n), n.kind \notin Frames, open' = Append(open, n),
         vocabulary' = vocabulary, function' = function, impl_ctx' = impl_ctx
  PROVE  ContextInv'
<1>1. IsStack(open') /\ Agree(open, open', Frames)
  BY PushAgrees DEF ContextInv
<1> QED BY <1>1, AgreeingStep

LEMMA PopStep ==
  ASSUME ContextInv, open # << >>, Top.kind \notin Frames, open' = Below,
         vocabulary' = vocabulary, function' = function, impl_ctx' = impl_ctx
  PROVE  ContextInv'
<1>1. IsStack(open') /\ Agree(open, open', Frames)
  BY PopAgrees DEF ContextInv, Below, Top
<1> QED BY <1>1, AgreeingStep

LEMMA TopStep ==
  ASSUME ContextInv, NEW n, open # << >>, IsNode(n), open' = [open EXCEPT ![Len(open)] = n],
         \/ Top.kind \notin Frames /\ n.kind \notin Frames
         \/ /\ n.kind = Top.kind /\ n.name = Top.name
            /\ n.contract = Top.contract /\ n.cut = Top.cut
            /\ n.previous = Top.previous /\ n.test = Top.test,
         vocabulary' = vocabulary, function' = function, impl_ctx' = impl_ctx
  PROVE  ContextInv'
<1>1. IsStack(open') /\ Agree(open, open', Frames)
  BY TopAgrees DEF ContextInv, Top
<1> QED BY <1>1, AgreeingStep

(* The top node of a stack is a node.                                       *)
LEMMA TopIsNode ==
  ASSUME ContextInv, open # << >>
  PROVE  IsNode(Top) /\ Len(open) \in Nat \ {0} /\ Len(open) \in 1..Len(open)
<1>1. IsStack(open) /\ Len(open) \in Nat \ {0}
  BY Popped DEF ContextInv
<1> QED BY <1>1 DEF IsStack, IsList, Top

LEMMA StepOpenMod ==
  ASSUME ContextInv, NEW t \in BOOLEAN, OpenMod(t)
  PROVE  ContextInv'
<1> DEFINE n == NodeOf("mod", NoName, NoName, t, 0, {})
<1>a. n.kind = "mod"
  BY DEF NodeOf
<1>b. IsNode(n)
  BY DEF NodeOf, IsNode
<1> HIDE DEF n
<1>1. IsNode(n) /\ n.kind \notin Frames
  BY <1>a, <1>b DEF Frames
<1>2. /\ open' = Append(open, n)
      /\ vocabulary' = vocabulary /\ function' = function /\ impl_ctx' = impl_ctx
  BY DEF OpenMod, Push, Kept, n
<1> QED BY <1>1, <1>2, PushStep

LEMMA StepOpenBlock ==
  ASSUME ContextInv, NEW k \in {"block", "trait_fn"}, OpenBlock(k)
  PROVE  ContextInv'
<1>1. IsNode(Node(k)) /\ Node(k).kind \notin Frames
  BY NodesAreNodes DEF Frames
<1>2. /\ open' = Append(open, Node(k))
      /\ vocabulary' = vocabulary /\ function' = function /\ impl_ctx' = impl_ctx
  BY DEF OpenBlock, Push, Kept, fields
<1> QED BY <1>1, <1>2, PushStep

LEMMA StepOpenGuard ==
  ASSUME ContextInv, NEW k \in {"cond", "guard"}, NEW w \in BOOLEAN, OpenGuard(k, w)
  PROVE  ContextInv'
<1>1. IsNode(Node(k)) /\ Node(k).kind \notin Frames
  BY NodesAreNodes DEF Frames
<1>2. /\ open' = Append(open, Node(k))
      /\ vocabulary' = vocabulary /\ function' = function /\ impl_ctx' = impl_ctx
  BY DEF OpenGuard, Push, Kept
<1> QED BY <1>1, <1>2, PushStep

LEMMA StepOpenLoop ==
  ASSUME ContextInv, NEW k \in {"for", "while", "loop"}, NEW b \in BOOLEAN, OpenLoop(k, b)
  PROVE  ContextInv'
<1>1. vocabulary' = vocabulary /\ function' = function /\ impl_ctx' = impl_ctx
  BY DEF OpenLoop, Kept
<1>2. \A j \in {"iter", "loop"} : IsNode(LoopNode(j)) /\ LoopNode(j).kind \notin Frames
  <2> TAKE j \in {"iter", "loop"}
  <2>1. LoopNode(j).kind = j
    BY DEF LoopNode, NodeOf
  <2>2. IsNode(LoopNode(j))
    BY DEF LoopNode, NodeOf, IsNode
  <2> QED BY <2>1, <2>2 DEF Frames
<1>3. CASE k = "for"
  <2>1. open' = Append(open, LoopNode("iter"))
    BY <1>3 DEF OpenLoop
  <2> QED BY <1>1, <1>2, <2>1, PushStep
<1>4. CASE k = "loop"
  <2>1. open' = Append(open, LoopNode("loop"))
    BY <1>4 DEF OpenLoop
  <2> QED BY <1>1, <1>2, <2>1, PushStep
<1>5. CASE k = "while"
  <2> DEFINE o == Append(open, LoopNode("loop"))
  <2>1. open' = Append(o, Node("guard"))
    BY <1>5 DEF OpenLoop
  <2>2. IsStack(o) /\ Agree(open, o, Frames)
    BY <1>2, PushAgrees DEF ContextInv
  <2> HIDE DEF o
  <2>3. IsNode(Node("guard")) /\ Node("guard").kind \notin Frames
    BY NodesAreNodes DEF Frames
  <2>4. IsStack(open') /\ Agree(o, open', Frames)
    BY <2>1, <2>2, <2>3, PushAgrees
  <2>5. Agree(open, open', Frames)
    BY <2>2, <2>4 DEF Agree
  <2> QED BY <1>1, <2>4, <2>5, AgreeingStep
<1> QED BY <1>3, <1>4, <1>5

LEMMA StepClose ==
  ASSUME ContextInv, CloseMod \/ CloseBlock \/ CloseLoop
  PROVE  ContextInv'
<1>1. /\ open # << >> /\ Top.kind \notin Frames /\ open' = Below
      /\ vocabulary' = vocabulary /\ function' = function /\ impl_ctx' = impl_ctx
  BY DEF CloseMod, CloseBlock, CloseLoop, IsOpen, Kept, Frames
<1> QED BY <1>1, PopStep

LEMMA StepCloseGuard ==
  ASSUME ContextInv, CloseGuard
  PROVE  ContextInv'
<1>1. /\ open # << >> /\ Top.kind \in Guarding
      /\ vocabulary' = vocabulary /\ function' = function /\ impl_ctx' = impl_ctx
      /\ open' = IF Top.kind = "cond"
                 THEN [open EXCEPT ![Len(open)].kind = "block"] ELSE Below
  BY DEF CloseGuard, IsOpen, Kept
<1>2. Top.kind \notin Frames
  BY <1>1 DEF Guarding, Frames
<1>3. CASE Top.kind = "cond"
  <2> DEFINE n == [Top EXCEPT !.kind = "block"]
  <2>1. IsNode(n) /\ n.kind \notin Frames
    BY <1>1, TopIsNode, NodeOfKind DEF Frames
  <2>2. open' = [open EXCEPT ![Len(open)] = n]
    BY <1>1, <1>3 DEF Top
  <2> HIDE DEF n
  <2> QED BY <1>1, <1>2, <2>1, <2>2, TopStep
<1> QED BY <1>1, <1>2, <1>3, PopStep

LEMMA StepStartBody ==
  ASSUME ContextInv, StartBody
  PROVE  ContextInv'
<1> DEFINE n == [Top EXCEPT !.kind = "loop"]
<1>1. /\ open # << >> /\ Top.kind \notin Frames
      /\ vocabulary' = vocabulary /\ function' = function /\ impl_ctx' = impl_ctx
  BY DEF StartBody, IsOpen, Kept, Frames
<1>2. IsNode(n) /\ n.kind \notin Frames
  <2>1. IsNode(Top)
    BY <1>1, TopIsNode
  <2>2. IsNode(n) /\ n.kind = "loop"
    BY <2>1, NodeOfKind
  <2> QED BY <2>2 DEF Frames
<1>3. open' = [open EXCEPT ![Len(open)] = n]
  BY DEF StartBody, Top
<1> HIDE DEF n
<1> QED BY <1>1, <1>2, <1>3, TopStep

(* What the statements that bind a name change.                             *)
Rebinds ==
  /\ IsOpen(Body) /\ \E k, v : Rebind(k, v)
  /\ UNCHANGED <<impl_ctx, function, test_depth, loop_depth, guarded_depth, vocabulary,
                 include_tests, file, test_file, model, vectors>>

LEMMA BindingStep ==
  ASSUME (\E k \in Ident, v \in Bound : Let(k, v)) \/ \E k \in Ident : BindPattern(k)
  PROVE  Rebinds
<1>1. CASE \E k \in Ident, v \in Bound : Let(k, v)
  <2>1. PICK k \in Ident, v \in Bound : Let(k, v)
    BY <1>1
  <2> DEFINE w == IF v = NoKey THEN Own(k, FALSE) ELSE Meaning(v)
  <2>2. Rebind(k, w)
    BY <2>1 DEF Let
  <2> HIDE DEF w
  <2> QED BY <2>1, <2>2 DEF Let, Kept, Rebinds
<1>2. CASE \E k \in Ident : BindPattern(k)
  <2>1. PICK k \in Ident : BindPattern(k)
    BY <1>2
  <2> DEFINE w == Unnoted(k)
  <2>2. Rebind(k, w)
    BY <2>1 DEF BindPattern
  <2> HIDE DEF w
  <2> QED BY <2>1, <2>2 DEF BindPattern, Kept, fields, Rebinds
<1> QED BY <1>1, <1>2

LEMMA ReboundTop ==
  ASSUME NEW k, NEW v, Rebind(k, v)
  PROVE  open' = [open EXCEPT ![Len(open)] =
                    [Top EXCEPT !.names = [Top.names EXCEPT ![k] = v]]]
BY DEF Rebind, Top

LEMMA Rebound ==
  ASSUME Rebinds
  PROVE  open # << >> /\ \E w : open' = [open EXCEPT ![Len(open)] = [Top EXCEPT !.names = w]]
<1>1. PICK k, v : Rebind(k, v)
  BY DEF Rebinds
<1> DEFINE w == [Top.names EXCEPT ![k] = v]
<1>2. open' = [open EXCEPT ![Len(open)] = [Top EXCEPT !.names = w]]
  BY <1>1, ReboundTop
<1> HIDE DEF w
<1> QED BY <1>2 DEF Rebinds, IsOpen

LEMMA StepRebinds ==
  ASSUME ContextInv, Rebinds
  PROVE  ContextInv'
<1>1. PICK w : open' = [open EXCEPT ![Len(open)] = [Top EXCEPT !.names = w]]
  BY Rebound
<1> DEFINE n == [Top EXCEPT !.names = w]
<1>2. /\ open # << >>
      /\ vocabulary' = vocabulary /\ function' = function /\ impl_ctx' = impl_ctx
  BY DEF Rebinds, IsOpen
<1>3. /\ IsNode(n) /\ n.kind = Top.kind /\ n.name = Top.name
      /\ n.contract = Top.contract /\ n.cut = Top.cut /\ n.previous = Top.previous
      /\ n.test = Top.test
  BY <1>2, TopIsNode, NodeWithNames
<1>4. open' = [open EXCEPT ![Len(open)] = n]
  BY <1>1
<1> HIDE DEF n
<1> QED BY <1>2, <1>3, <1>4, TopStep

(* A function that is entered becomes the context, under the impl block     *)
(* around it.                                                               *)
LEMMA StepEnterBody ==
  ASSUME ContextInv, NEW n, NEW t, NEW a, EnterBody(n, t, a),
         vocabulary' = vocabulary, impl_ctx' = impl_ctx
  PROVE  ContextInv'
<1> DEFINE f == FnFrame(n, t)
           l == Len(open) + 1
<1>a. f.kind = "fn" /\ f.name = n /\ f.cut = FALSE
  BY DEF FnFrame, NodeOf
<1>b. IsNode(f)
  BY DEF FnFrame, NodeOf, IsNode
<1> HIDE DEF f
<1>0. IsNode(f) /\ f.kind = "fn" /\ f.name = n /\ f.cut = FALSE
  BY <1>a, <1>b
<1>1. CASE Skip
  BY <1>1, StillStep DEF EnterBody
<1>2. CASE ~Skip
  <2>1. function' = [name |-> n, contract |-> impl_ctx.contract] /\ open' = Append(open, f)
    <3>1. EnterFunction(n) /\ Push(FnFrame(n, t))
      BY <1>2 DEF EnterBody
    <3>2. function' = [name |-> n, contract |-> impl_ctx.contract]
      BY <3>1 DEF EnterFunction
    <3>3. open' = Append(open, f)
      BY <3>1 DEF Push, f
    <3> QED BY <3>2, <3>3
  <2>2. IsNode(f) /\ f.kind = "fn" /\ f.name = n /\ ~f.cut
    BY <1>0
  <2>3. /\ IsStack(open') /\ Len(open') = l /\ Len(open) \in Nat
        /\ \A i \in 1..Len(open) : open'[i] = open[i]
        /\ open'[l] = f
    <3>1. IsStack(open) /\ Len(open) \in Nat
      BY DEF ContextInv, IsStack, IsList
    <3> QED BY <2>1, <2>2, <3>1, Pushed
  <2>4. FnNode(open') = l
    BY <2>2, <2>3, FnNodeIs
  <2>5. ASSUME NEW i \in 1..l PROVE ContractBelow(open', i) = ContractBelow(open, i)
    <3>1. \A j \in 1..(i - 1) : open'[j] = open[j]
      BY <2>3
    <3> QED BY <2>3, <3>1, BelowSame
  <2>6. ContractBelow(open', l + 1) = ContractBelow(open', l)
    <3>1. \A j \in l..l : open'[j].kind # "impl"
      BY <2>2, <2>3
    <3> QED BY <2>3, <3>1, BelowSkips
  <2>7. impl_ctx.contract = ContractBelow(open', l)
    BY <2>3, <2>5 DEF ContextInv
  <2>8. Context(open') = [name |-> n, contract |-> ContractBelow(open', l)]
    BY <2>2, <2>3, <2>4 DEF Context
  <2>9. ASSUME NEW i \in 1..l, open'[i].kind = "impl"
        PROVE  open'[i].previous.contract = ContractBelow(open', i)
    <3>1. i \in 1..Len(open)
      BY <2>2, <2>3, <2>9
    <3> QED BY <2>3, <2>5, <2>9, <3>1 DEF ContextInv
  <2> QED BY <2>1, <2>3, <2>6, <2>7, <2>8, <2>9 DEF ContextInv
<1> QED BY <1>1, <1>2

LEMMA StepOpenFn ==
  ASSUME ContextInv, NEW n, NEW t, NEW a, OpenFn(n, t, a)
  PROVE  ContextInv'
<1>1. EnterBody(n, t, a) /\ vocabulary' = vocabulary /\ impl_ctx' = impl_ctx
  BY DEF OpenFn, Kept
<1> QED BY <1>1, StepEnterBody

LEMMA StepOpenMethod ==
  ASSUME ContextInv, NEW n, NEW p, NEW r, NEW t, NEW a, OpenMethod(n, p, r, t, a)
  PROVE  ContextInv'
<1>1. EnterBody(n, t, a) /\ vocabulary' = vocabulary /\ impl_ctx' = impl_ctx
  BY DEF OpenMethod, Kept
<1> QED BY <1>1, StepEnterBody

(* Leaving a function cuts what is open around it.                          *)
LEMMA CutBelow ==
  ASSUME IsStack(open), CloseFn
  PROVE  /\ IsStack(open') /\ Len(open') = Len(open) - 1 /\ Len(open) \in Nat \ {0}
         /\ open[Len(open)].kind = "fn"
         /\ \A i \in 1..(Len(open) - 1) :
              /\ open'[i].kind = open[i].kind /\ open'[i].cut
              /\ open'[i].contract = open[i].contract
              /\ open'[i].previous = open[i].previous
              /\ open'[i].test = open[i].test
<1> DEFINE b == Below
           l == Len(open) - 1
<1>1. /\ open # << >> /\ Top.kind = "fn"
      /\ open' = [i \in DOMAIN b |-> [b[i] EXCEPT !.cut = TRUE]]
      /\ vocabulary' = vocabulary /\ impl_ctx' = impl_ctx /\ function' = NoFunction
  BY DEF CloseFn, IsOpen, ExitFunction, Kept
<1>2. /\ IsStack(b) /\ Len(b) = l /\ Len(open) \in Nat \ {0} /\ l = Len(open) - 1
      /\ \A i \in 1..l : b[i] = open[i]
  BY <1>1, Popped DEF Below
<1>3. open[Len(open)].kind = "fn"
  BY <1>1 DEF Top
<1> HIDE DEF b, l
<1>4. DOMAIN b = 1..l
  BY <1>2, StackType
<1>5. \A i \in 1..l :
        /\ IsNode(open'[i]) /\ open'[i].kind = open[i].kind /\ open'[i].cut
        /\ open'[i].contract = open[i].contract /\ open'[i].previous = open[i].previous
        /\ open'[i].test = open[i].test
  <2> TAKE i \in 1..l
  <2>1. IsNode(b[i]) /\ b[i] = open[i]
    BY <1>2 DEF IsStack, IsList
  <2>2. open'[i] = [b[i] EXCEPT !.cut = TRUE]
    BY <1>1, <1>4
  <2> QED BY <2>1, <2>2, NodeCut
<1>6. Len(open') = l
  <2> DEFINE S == {open'[i] : i \in 1..l}
  <2>0. open' = [i \in 1..l |-> open'[i]]
    BY <1>1, <1>4
  <2>1. open' \in [1..l -> S]
    BY <2>0
  <2>2. DOMAIN open' = 1..l
    BY <1>1, <1>4
  <2> HIDE DEF S
  <2>3. l \in Nat
    BY <1>2
  <2>4. open' \in Seq(S)
    BY <2>1, <2>3
  <2> QED BY <2>2, <2>3, <2>4, LenProperties
<1>7. IsStack(open')
  <2>1. open' = [i \in 1..l |-> open'[i]]
    BY <1>1, <1>4
  <2>2. \A i \in 1..l : IsNode(open'[i])
    BY <1>5
  <2> QED BY <1>2, <1>6, <2>1, <2>2 DEF IsStack, IsList
<1> QED BY <1>2, <1>3, <1>5, <1>6, <1>7

LEMMA StepCloseFn ==
  ASSUME ContextInv, CloseFn
  PROVE  ContextInv'
<1> DEFINE l == Len(open) - 1
<1>1. vocabulary' = vocabulary /\ impl_ctx' = impl_ctx /\ function' = NoFunction
  BY DEF CloseFn, ExitFunction, Kept
<1>2. /\ IsStack(open') /\ Len(open') = l /\ Len(open) \in Nat \ {0}
      /\ open[Len(open)].kind = "fn"
      /\ \A i \in 1..l : /\ open'[i].kind = open[i].kind /\ open'[i].cut
                        /\ open'[i].contract = open[i].contract
                        /\ open'[i].previous = open[i].previous
  BY CutBelow DEF ContextInv
<1>3. l \in Nat /\ l + 1 = Len(open)
  BY <1>2
<1> HIDE DEF l
<1>4. ASSUME NEW i \in 1..(l + 1) PROVE ContractBelow(open', i) = ContractBelow(open, i)
  <2>1. \A j \in 1..(i - 1) : /\ open'[j].kind = open[j].kind
                              /\ open'[j].contract = open[j].contract
    BY <1>2, <1>3
  <2> QED BY <1>3, <2>1, BelowSame
<1>5. Context(open') = NoFunction
  <2>1. FnNode(open') \in 0..l
    BY <1>2, <1>3, FnNodeFacts
  <2>2. FnNode(open') # 0 => open'[FnNode(open')].cut
    BY <1>2, <1>3, <2>1
  <2> QED BY <2>2 DEF Context
<1>6. impl_ctx.contract = ContractBelow(open', l + 1)
  <2>1. ContractBelow(open, Len(open) + 1) = ContractBelow(open, l + 1)
    <3>1. \A j \in (l + 1)..Len(open) : open[j].kind # "impl"
      BY <1>2, <1>3
    <3> QED BY <1>2, <1>3, <3>1, BelowSkips
  <2> QED BY <1>2, <1>3, <1>4, <2>1 DEF ContextInv
<1>7. ASSUME NEW i \in 1..l, open'[i].kind = "impl"
       PROVE  open'[i].previous.contract = ContractBelow(open', i)
  <2>1. open'[i].kind = open[i].kind /\ open'[i].previous = open[i].previous
    BY <1>2, <1>3
  <2> QED BY <1>2, <1>3, <1>4, <1>7, <2>1 DEF ContextInv
<1> QED BY <1>1, <1>2, <1>3, <1>5, <1>6, <1>7 DEF ContextInv

LEMMA StepOpenImpl ==
  ASSUME ContextInv, NEW f \in vocabulary.impls, OpenImpl(f)
  PROVE  ContextInv'
<1> DEFINE n == NodeOf("impl", NoName, f.contract, f.is_test, 0, {})
           l == Len(open) + 1
<1>1. /\ open' = Append(open, n) /\ vocabulary' = vocabulary /\ function' = function
      /\ impl_ctx' = [f EXCEPT !.is_test = @ \/ impl_ctx.is_test]
  BY DEF OpenImpl, Push, Kept
<1>a. n.kind = "impl" /\ n.contract = f.contract /\ n.previous = impl_ctx
  BY DEF NodeOf
<1>b. IsNode(n)
  BY DEF NodeOf, IsNode
<1> HIDE DEF n
<1>3. IsNode(n) /\ n.kind = "impl" /\ n.contract = f.contract /\ n.previous = impl_ctx
  BY <1>a, <1>b
<1>2. impl_ctx'.contract = f.contract
  <2>1. f \in ImplCtx
    BY VocabulariesAssumption DEF ContextInv
  <2> QED BY <1>1, <2>1 DEF ImplCtx
<1>4. /\ IsStack(open') /\ Len(open') = l /\ Len(open) \in Nat
      /\ \A i \in 1..Len(open) : open'[i] = open[i]
      /\ open'[l] = n
  BY <1>1, <1>3, Pushed DEF ContextInv, IsStack, IsList
<1>5. ASSUME NEW i \in 1..l PROVE ContractBelow(open', i) = ContractBelow(open, i)
  <2>1. \A j \in 1..(i - 1) : open'[j] = open[j]
    BY <1>4
  <2> QED BY <1>4, <2>1, BelowSame
<1>6. ContractBelow(open', l + 1) = f.contract
  <2> DEFINE S == {j \in 1..l : open'[j].kind = "impl"}
  <2>1. l \in S /\ \A j \in S : j <= l
    BY <1>3, <1>4
  <2>5. l \in Nat /\ S \in SUBSET (1..l)
    BY <1>4
  <2> HIDE DEF S
  <2>2. LatestOr0(S) = l
    BY <2>1, <2>5, LastUnique
  <2>3. ImplBelow(open', l + 1) = l
    BY <1>4, <2>2 DEF ImplBelow, S
  <2> QED BY <1>3, <1>4, <2>3 DEF ContractBelow
<1>7. Context(open') = Context(open)
  <2> DEFINE k == FnNode(open)
  <2>1. /\ k \in 0..Len(open) /\ (k # 0 => open[k].kind = "fn")
        /\ \A j \in (k + 1)..Len(open) : open[j].kind # "fn"
    BY FnNodeFacts DEF ContextInv
  <2> HIDE DEF k
  <2>2. /\ k \in 0..l /\ (k # 0 => open'[k].kind = "fn")
        /\ \A j \in (k + 1)..l : open'[j].kind # "fn"
    BY <1>3, <1>4, <2>1
  <2>3. FnNode(open') = k
    BY <1>4, <2>2, FnNodeIs
  <2>4. k # 0 => open'[k] = open[k] /\ ContractBelow(open', k) = ContractBelow(open, k)
    BY <1>4, <1>5, <2>1
  <2> QED BY <2>3, <2>4 DEF Context, k
<1>8. ASSUME NEW i \in 1..l, open'[i].kind = "impl"
      PROVE  open'[i].previous.contract = ContractBelow(open', i)
  <2>1. CASE i = l
    BY <1>3, <1>4, <1>5, <2>1 DEF ContextInv
  <2>2. CASE i # l
    <3>1. i \in 1..Len(open)
      BY <1>4, <2>2
    <3> QED BY <1>4, <1>5, <1>8, <3>1 DEF ContextInv
  <2> QED BY <2>1, <2>2
<1> QED BY <1>1, <1>2, <1>4, <1>6, <1>7, <1>8 DEF ContextInv

LEMMA StepCloseImpl ==
  ASSUME ContextInv, CloseImpl
  PROVE  ContextInv'
<1> DEFINE l == Len(open) - 1
<1>1. /\ open # << >> /\ Top.kind = "impl" /\ open' = Below
      /\ vocabulary' = vocabulary /\ impl_ctx' = Top.previous /\ function' = function
  BY DEF CloseImpl, IsOpen, Kept
<1>2. /\ IsStack(open') /\ Len(open') = l /\ Len(open) \in Nat \ {0}
      /\ \A i \in 1..l : open'[i] = open[i]
  BY <1>1, Popped DEF ContextInv, Below
<1>3. open[Len(open)].kind = "impl" /\ impl_ctx' = open[Len(open)].previous
  BY <1>1 DEF Top
<1>4. ASSUME NEW i \in 1..(l + 1) PROVE ContractBelow(open', i) = ContractBelow(open, i)
  <2>1. \A j \in 1..(i - 1) : open'[j] = open[j]
    BY <1>2
  <2> QED BY <1>2, <2>1, BelowSame
<1>5. impl_ctx'.contract = ContractBelow(open', l + 1)
  BY <1>2, <1>3, <1>4 DEF ContextInv
<1>6. Context(open') = Context(open)
  <2> DEFINE k == FnNode(open)
  <2>1. /\ k \in 0..Len(open) /\ (k # 0 => open[k].kind = "fn")
        /\ \A j \in (k + 1)..Len(open) : open[j].kind # "fn"
    BY FnNodeFacts DEF ContextInv
  <2> HIDE DEF k
  <2>2. /\ k \in 0..l /\ (k # 0 => open'[k].kind = "fn")
        /\ \A j \in (k + 1)..l : open'[j].kind # "fn"
    BY <1>2, <1>3, <2>1
  <2>3. FnNode(open') = k
    BY <1>2, <2>2, FnNodeIs
  <2>4. k # 0 => open'[k] = open[k] /\ ContractBelow(open', k) = ContractBelow(open, k)
    BY <1>2, <1>4, <2>2
  <2> QED BY <2>3, <2>4 DEF Context, k
<1>7. ASSUME NEW i \in 1..l, open'[i].kind = "impl"
      PROVE  open'[i].previous.contract = ContractBelow(open', i)
  BY <1>2, <1>4, <1>7 DEF ContextInv
<1> QED BY <1>1, <1>2, <1>5, <1>6, <1>7 DEF ContextInv

LEMMA StepStill ==
  ASSUME ContextInv,
         \/ \E c \in ContractName : DeclareContract(c)
         \/ \E c \in vocabulary.chains, k \in KeyExpr : VisitChain(c, k)
         \/ \E e \in vocabulary.operations : VisitExpr(e)
         \/ \E n \in vocabulary.names, m \in BOOLEAN : VisitCall(n, m)
         \/ Finish
         \/ UNCHANGED vars
  PROVE  ContextInv'
<1>1. /\ open' = open /\ vocabulary' = vocabulary
      /\ function' = function /\ impl_ctx' = impl_ctx
  BY DEF DeclareContract, VisitChain, VisitExpr, VisitCall, Finish, vars, fields, Kept
<1> QED BY <1>1, StillStep

LEMMA ContextNext == ContextInv /\ [Next]_vars => ContextInv'
<1> SUFFICES ASSUME ContextInv, [Next]_vars PROVE ContextInv'
  OBVIOUS
<1>1. CASE \E t \in BOOLEAN : BeginFile(t) \/ OpenMod(t)
  BY <1>1, StepBeginFile, StepOpenMod
<1>2. CASE \E i \in vocabulary.impls : OpenImpl(i)
  BY <1>2, StepOpenImpl
<1>3. CASE \E n \in vocabulary.names, t, a \in BOOLEAN : OpenFn(n, t, a)
  BY <1>3, StepOpenFn
<1>4. CASE \E n \in vocabulary.names, p, r, t, a \in BOOLEAN : OpenMethod(n, p, r, t, a)
  BY <1>4, StepOpenMethod
<1>5. CASE CloseMod \/ CloseBlock \/ CloseLoop
  BY <1>5, StepClose
<1>6. CASE CloseImpl
  BY <1>6, StepCloseImpl
<1>7. CASE CloseFn
  BY <1>7, StepCloseFn
<1>8. CASE \E k \in {"block", "trait_fn"} : OpenBlock(k)
  BY <1>8, StepOpenBlock
<1>9. CASE (\E k \in Ident, v \in Bound : Let(k, v)) \/ \E k \in Ident : BindPattern(k)
  BY <1>9, BindingStep, StepRebinds
<1>10. CASE OpenGuard("cond", FALSE) \/ \E w \in BOOLEAN : OpenGuard("guard", w)
  BY <1>10, StepOpenGuard
<1>11. CASE \E k \in {"for", "while", "loop"}, b \in BOOLEAN : OpenLoop(k, b)
  BY <1>11, StepOpenLoop
<1>12. CASE CloseGuard \/ StartBody
  BY <1>12, StepCloseGuard, StepStartBody
<1>13. CASE \/ \E c \in ContractName : DeclareContract(c)
            \/ \E c \in vocabulary.chains, k \in KeyExpr : VisitChain(c, k)
            \/ \E e \in vocabulary.operations : VisitExpr(e)
            \/ \E n \in vocabulary.names, m \in BOOLEAN : VisitCall(n, m)
            \/ Finish
            \/ UNCHANGED vars
  BY <1>13, StepStill
<1> QED BY <1>1, <1>2, <1>3, <1>4, <1>5, <1>6, <1>7, <1>8, <1>9, <1>10, <1>11, <1>12,
           <1>13 DEF Next, Items, Statements

--------------------------------------------------------------------------
(* What the sites say.                                                      *)
Attributed(s) ==
  IF s.at.cut THEN s.function = NoName /\ s.contract = NoName
  ELSE s.function = s.at.fn /\ s.contract = s.at.contract

(* Where a site is follows from the open nodes alone.                       *)
LEMMA PlaceOf ==
  ASSUME NEW o, IsStack(o)
  PROVE  /\ Place(o).cut <=> FnNode(o) = 0 \/ o[FnNode(o)].cut
         /\ ~Place(o).cut => /\ Place(o).fn = Context(o).name
                             /\ Place(o).contract = Context(o).contract
<1> DEFINE k == FnNode(o)
<1>1. k \in 0..Len(o) /\ (k # 0 => o[k].kind = "fn") /\ Len(o) \in Nat
  BY FnNodeFacts DEF IsStack, IsList
<1>2. Place(o).cut <=> k = 0 \/ o[k].cut
  BY DEF Place
<1>3. /\ Place(o).fn = IF k = 0 THEN NoName ELSE o[k].name
      /\ Place(o).contract = IF ImplNode(o) = 0 THEN NoName ELSE o[ImplNode(o)].contract
  BY DEF Place
<1>4. ASSUME k # 0 PROVE ImplNode(o) = ImplBelow(o, k)
  <2>1. {i \in 1..k : o[i].kind = "impl"} = {i \in 1..(k - 1) : o[i].kind = "impl"}
    BY <1>1, <1>4
  <2> QED BY <2>1 DEF ImplNode, ImplBelow
<1> HIDE DEF k
<1>5. ASSUME k # 0, ~o[k].cut
      PROVE  Context(o) = [name |-> o[k].name, contract |-> ContractBelow(o, k)]
  BY <1>5 DEF Context, k
<1>6. ASSUME ~Place(o).cut
      PROVE  Place(o).fn = Context(o).name /\ Place(o).contract = Context(o).contract
  <2>1. k # 0 /\ ~o[k].cut
    BY <1>2, <1>6
  <2>2. Context(o) = [name |-> o[k].name, contract |-> ContractBelow(o, k)]
    BY <1>5, <2>1
  <2>3. Place(o).contract = ContractBelow(o, k)
    BY <1>3, <1>4, <2>1 DEF ContractBelow
  <2> QED BY <1>3, <2>1, <2>2, <2>3
<1> QED BY <1>2, <1>6 DEF k

LEMMA PlaceFields ==
  ASSUME NEW o
  PROVE  {"fn", "contract", "cut"} \subseteq DOMAIN Place(o)
BY DEF Place

(* What is recorded at a place in the context the open nodes give.          *)
LEMMA HereAttributed ==
  ASSUME NEW o, IsStack(o), NEW s,
         s.function = Context(o).name, s.contract = Context(o).contract,
         s.at.cut = Place(o).cut, s.at.fn = Place(o).fn, s.at.contract = Place(o).contract
  PROVE  Attributed(s)
<1>1. CASE Place(o).cut
  <2>1. Context(o) = NoFunction
    BY <1>1, PlaceOf DEF Context
  <2> QED BY <1>1, <2>1 DEF Attributed, NoFunction
<1>2. CASE ~Place(o).cut
  <2>1. Place(o).fn = Context(o).name /\ Place(o).contract = Context(o).contract
    BY <1>2, PlaceOf
  <2> QED BY <1>2, <2>1 DEF Attributed
<1> QED BY <1>1, <1>2

LEMMA SiteOfAttributed ==
  ASSUME ContextInv, NEW v, NEW p, NEW w, NEW g, NEW k, NEW m
  PROVE  Attributed(SiteOf(v, p, w, g, k, m))
<1> DEFINE s == SiteOf(v, p, w, g, k, m)
<1>1. s.function = function.name /\ s.contract = function.contract /\ s.at = Place(open)
  BY DEF SiteOf
<1> HIDE DEF s
<1>2. IsStack(open) /\ function = Context(open)
  BY DEF ContextInv
<1>3. Attributed(s)
  BY <1>1, <1>2, HereAttributed
<1> QED BY <1>3 DEF s

LEMMA ChainSiteAttributed ==
  ASSUME ContextInv, NEW c, NEW key, NEW i, NEW v
  PROVE  Attributed(ChainSite(c, key, i, v))
<1> DEFINE s == ChainSite(c, key, i, v)
<1>1. PICK w, g, k, m :
        s = [SiteOf(v, i, w, g, k, m) EXCEPT !.at.guard = @ \/ GuardedInside(c, i)]
  BY DEF ChainSite
<1> DEFINE t == SiteOf(v, i, w, g, k, m)
<1>2. /\ t.function = function.name /\ t.contract = function.contract /\ t.at = Place(open)
      /\ {"function", "contract", "at"} \subseteq DOMAIN t
  BY DEF SiteOf
<1> HIDE DEF s, t
<1>3. s = [t EXCEPT !.at.guard = @ \/ GuardedInside(c, i)]
  BY <1>1 DEF t
<1>4. s.function = t.function /\ s.contract = t.contract
  BY <1>2, <1>3
<1>5. s.at = [t.at EXCEPT !.guard = @ \/ GuardedInside(c, i)]
  BY <1>2, <1>3
<1>6. /\ s.at.cut = Place(open).cut /\ s.at.fn = Place(open).fn
      /\ s.at.contract = Place(open).contract
  BY <1>2, <1>5, PlaceFields
<1>7. IsStack(open) /\ function = Context(open)
  BY DEF ContextInv
<1>8. Attributed(s)
  BY <1>2, <1>4, <1>6, <1>7, HereAttributed
<1> QED BY <1>8 DEF s

LEMMA AttributeSiteAttributed ==
  ASSUME NEW n, NEW t, NEW o, IsStack(o), o = Append(open, FnFrame(n, t)),
         NEW f, f = Context(o)
  PROVE  Attributed(AttributeSite(f, FnFrame(n, t)))
<1> DEFINE s == AttributeSite(f, FnFrame(n, t))
<1>1. s.function = f.name /\ s.contract = f.contract /\ s.at = Place(o)
  BY DEF AttributeSite
<1> HIDE DEF s
<1>2. Attributed(s)
  BY <1>1, HereAttributed
<1> QED BY <1>2 DEF s

(* What the vectors hold is attributed.                                     *)
LoopRecorded(l) == {"function", "contract", "at"} \subseteq DOMAIN l /\ Attributed(l)
SitesInv == \A s \in sites : Attributed(s)
LoopsInv == IsList(loops) /\ \A i \in 1..Len(loops) : LoopRecorded(loops[i])

LEMMA RecordedInit == Init => SitesInv /\ LoopsInv
<1> SUFFICES ASSUME Init PROVE SitesInv /\ LoopsInv
  OBVIOUS
<1>1. sites = {} /\ loops = << >> /\ Len(loops) = 0
  BY DEF Init
<1> QED BY <1>1 DEF SitesInv, LoopsInv, IsList

LEMMA SitesEnterBody ==
  ASSUME ContextInv, ContextInv', SitesInv, NEW n, NEW t, NEW a \in BOOLEAN, EnterBody(n, t, a)
  PROVE  SitesInv'
<1> DEFINE new == AttributeSite(function', FnFrame(n, t))
<1>1. CASE Skip
  BY <1>1 DEF EnterBody, SitesInv, Attributed
<1>2. CASE ~Skip
  <2>1. open' = Append(open, FnFrame(n, t)) /\ sites' = sites \cup (IF a THEN {new} ELSE {})
    BY <1>2 DEF EnterBody, Push
  <2>2. IsStack(open') /\ function' = Context(open')
    BY DEF ContextInv
  <2>3. Attributed(new)
    BY <2>1, <2>2, AttributeSiteAttributed
  <2> HIDE DEF new
  <2> QED BY <2>1, <2>3 DEF SitesInv
<1> QED BY <1>1, <1>2

(* The steps that record a site.                                            *)
LEMMA SitesChange ==
  ASSUME [Next]_vars, ~(sites' = sites)
  PROVE  \/ \E n \in vocabulary.names, t, a \in BOOLEAN : OpenFn(n, t, a)
         \/ \E n \in vocabulary.names, p, r, t, a \in BOOLEAN : OpenMethod(n, p, r, t, a)
         \/ \E c \in vocabulary.chains, k \in KeyExpr : VisitChain(c, k)
         \/ \E e \in vocabulary.operations : VisitExpr(e)
         \/ OpenGuard("cond", FALSE) \/ \E w \in BOOLEAN : OpenGuard("guard", w)
<1>1. CASE Items
  BY <1>1 DEF Items, BeginFile, OpenMod, DeclareContract, OpenImpl, CloseMod,
       CloseImpl, CloseFn, vectors
<1>2. CASE Statements
  BY <1>2 DEF Statements, OpenBlock, Let, BindPattern, VisitCall, OpenLoop, CloseBlock,
       CloseGuard, StartBody, CloseLoop, vectors
<1>3. CASE Finish \/ UNCHANGED vars
  BY <1>3 DEF Finish, vars, vectors
<1> QED BY <1>1, <1>2, <1>3 DEF Next

LEMMA SitesNext == ContextInv /\ ContextInv' /\ SitesInv /\ [Next]_vars => SitesInv'
<1> SUFFICES ASSUME ContextInv, ContextInv', SitesInv, [Next]_vars PROVE SitesInv'
  OBVIOUS
<1>1. CASE \E n \in vocabulary.names, t, a \in BOOLEAN : OpenFn(n, t, a)
  BY <1>1, SitesEnterBody DEF OpenFn
<1>2. CASE \E n \in vocabulary.names, p, r, t, a \in BOOLEAN : OpenMethod(n, p, r, t, a)
  BY <1>2, SitesEnterBody DEF OpenMethod
<1>3. CASE \E c \in vocabulary.chains, k \in KeyExpr : VisitChain(c, k)
  <2>1. PICK c \in vocabulary.chains, k \in KeyExpr : VisitChain(c, k)
    BY <1>3
  <2>2. \A s \in ChainSites(c, k) : Attributed(s)
    BY ChainSiteAttributed DEF ChainSites
  <2> QED BY <2>1, <2>2 DEF VisitChain, SitesInv
<1>4. CASE \E e \in vocabulary.operations : VisitExpr(e)
  <2>1. PICK e \in vocabulary.operations : VisitExpr(e)
    BY <1>4
  <2> DEFINE New == {SiteOf(vec, 0, WhatExpr(e), guarded_depth > 0, NoKey, Meaning(NoKey)) :
                       vec \in RecordedExpr(e)}
  <2>2. \A s \in New : Attributed(s)
    BY SiteOfAttributed
  <2>3. sites' \subseteq sites \cup New
    BY <2>1 DEF VisitExpr
  <2> HIDE DEF New
  <2> QED BY <2>2, <2>3 DEF SitesInv
<1>5. CASE OpenGuard("cond", FALSE) \/ \E w \in BOOLEAN : OpenGuard("guard", w)
  <2> DEFINE s == SiteOf("arithmetic", 0, WrappingCall, guarded_depth > 0, NoKey, Meaning(NoKey))
  <2>1. Attributed(s)
    BY SiteOfAttributed
  <2>2. sites' \subseteq sites \cup {s}
    BY <1>5 DEF OpenGuard
  <2> HIDE DEF s
  <2> QED BY <2>1, <2>2 DEF SitesInv
<1>6. CASE sites' = sites
  BY <1>6 DEF SitesInv
<1> QED
  <2>1. ASSUME ~(sites' = sites)
        PROVE  \/ \E n \in vocabulary.names, t, a \in BOOLEAN : OpenFn(n, t, a)
               \/ \E n \in vocabulary.names, p, r, t, a \in BOOLEAN : OpenMethod(n, p, r, t, a)
               \/ \E c \in vocabulary.chains, k \in KeyExpr : VisitChain(c, k)
               \/ \E e \in vocabulary.operations : VisitExpr(e)
               \/ OpenGuard("cond", FALSE) \/ \E w \in BOOLEAN : OpenGuard("guard", w)
    BY <2>1, SitesChange
  <2> QED BY <1>1, <1>2, <1>3, <1>4, <1>5, <1>6, <2>1

LEMMA LoopsOpened ==
  ASSUME ContextInv, LoopsInv, NEW b, loops' = Append(loops, LoopHere(b))
  PROVE  LoopsInv'
<1> DEFINE l == LoopHere(b)
<1>1. /\ l.function = function.name /\ l.contract = function.contract /\ l.at = Place(open)
      /\ {"function", "contract", "at"} \subseteq DOMAIN l
  BY DEF LoopHere
<1> HIDE DEF l
<1>2. IsStack(open) /\ function = Context(open)
  BY DEF ContextInv
<1>3. LoopRecorded(l)
  BY <1>1, <1>2, HereAttributed DEF LoopRecorded
<1>4. loops' = Append(loops, l)
  BY DEF l
<1>5. /\ IsList(loops') /\ Len(loops') = Len(loops) + 1 /\ Len(loops) \in Nat
      /\ \A i \in 1..Len(loops) : loops'[i] = loops[i]
      /\ loops'[Len(loops) + 1] = l
  BY <1>4, Appended DEF LoopsInv, IsList
<1>6. ASSUME NEW i \in 1..(Len(loops) + 1) PROVE LoopRecorded(loops'[i])
  <2>1. CASE i \in 1..Len(loops)
    BY <1>5, <2>1 DEF LoopsInv
  <2>2. CASE i = Len(loops) + 1
    BY <1>3, <1>5, <2>2
  <2> QED BY <1>5, <2>1, <2>2
<1> QED BY <1>5, <1>6 DEF LoopsInv

LEMMA LoopsClosed ==
  ASSUME LoopsInv, CloseLoop
  PROVE  LoopsInv'
<1> DEFINE k == Top.index
           ops == Since("storage_ops")
           calls == Since("calls")
           n == [loops[k] EXCEPT !.storage_ops = ops, !.contract_calls = calls, !.closed = TRUE]
           S == {loops[i] : i \in 1..Len(loops)} \cup {n}
<1>1. loops' = [loops EXCEPT ![k] = n]
  BY DEF CloseLoop
<1>2. Len(loops) \in Nat /\ DOMAIN loops = 1..Len(loops)
  BY ListType DEF LoopsInv, IsList
<1>3. ASSUME LoopRecorded(loops[k]) PROVE LoopRecorded(n)
  <2> DEFINE l == loops[k]
  <2> HIDE DEF ops, calls, k
  <2>1. /\ {"function", "contract", "at"} \subseteq DOMAIN n
        /\ n.function = l.function /\ n.contract = l.contract /\ n.at = l.at
    BY <1>3 DEF LoopRecorded
  <2> HIDE DEF n, l
  <2> QED BY <1>3, <2>1 DEF LoopRecorded, Attributed, l
<1> HIDE DEF n, k
<1>4. \A i \in 1..Len(loops) : loops'[i] = IF i = k THEN n ELSE loops[i]
  BY <1>1, <1>2
<1>5. loops' = [i \in 1..Len(loops) |-> loops'[i]]
  BY <1>1, <1>2
<1>6. Len(loops') = Len(loops)
  <2>1. loops' \in [1..Len(loops) -> S] /\ DOMAIN loops' = 1..Len(loops)
    BY <1>4, <1>5
  <2> HIDE DEF S
  <2>2. loops' \in Seq(S)
    BY <1>2, <2>1
  <2> QED BY <1>2, <2>1, <2>2, LenProperties
<1>7. ASSUME NEW i \in 1..Len(loops) PROVE LoopRecorded(loops'[i])
  BY <1>3, <1>4 DEF LoopsInv
<1> QED BY <1>2, <1>5, <1>6, <1>7 DEF LoopsInv, IsList

(* The steps that change the loops.                                         *)
LEMMA LoopsChange ==
  ASSUME [Next]_vars, ~(loops' = loops)
  PROVE  CloseLoop \/ \E k \in {"for", "while", "loop"}, b \in BOOLEAN : OpenLoop(k, b)
<1>1. CASE Items
  BY <1>1 DEF Items, BeginFile, OpenMod, DeclareContract, OpenImpl, CloseMod,
       CloseImpl, CloseFn, OpenFn, OpenMethod, vectors
<1>2. CASE Statements
  BY <1>2 DEF Statements, OpenBlock, Let, BindPattern, VisitCall, CloseBlock, OpenGuard,
       CloseGuard, StartBody, VisitChain, VisitExpr, vectors
<1>3. CASE Finish \/ UNCHANGED vars
  BY <1>3 DEF Finish, vars, vectors
<1> QED BY <1>1, <1>2, <1>3 DEF Next

LEMMA LoopsNext == ContextInv /\ LoopsInv /\ [Next]_vars => LoopsInv'
<1> SUFFICES ASSUME ContextInv, LoopsInv, [Next]_vars PROVE LoopsInv'
  OBVIOUS
<1>1. CASE \E k \in {"for", "while", "loop"}, b \in BOOLEAN : OpenLoop(k, b)
  BY <1>1, LoopsOpened DEF OpenLoop
<1>2. CASE CloseLoop
  BY <1>2, LoopsClosed
<1>3. CASE loops' = loops
  BY <1>3 DEF LoopsInv
<1> QED
  <2>1. ASSUME ~(loops' = loops)
        PROVE  CloseLoop \/ \E k \in {"for", "while", "loop"}, b \in BOOLEAN : OpenLoop(k, b)
    BY <2>1, LoopsChange
  <2> QED BY <1>1, <1>2, <1>3, <2>1

--------------------------------------------------------------------------
(* The context fields are those of the innermost function that is open and  *)
(* of its impl block: whatever nests in whatever, entering and leaving      *)
(* modules, impl blocks, functions, loops and conditions keeps them right,  *)
(* except that leaving a nested function loses the outer one.               *)
ContextFollows == function = Context(open)

THEOREM ContextIsTheInnermostFunction == Spec => []ContextFollows
<1>1. Init => ContextInv
  BY ContextInit
<1>2. ContextInv /\ [Next]_vars => ContextInv'
  BY ContextNext
<1>3. ContextInv => ContextFollows
  BY DEF ContextInv, ContextFollows
<1> QED BY <1>1, <1>2, <1>3, PTL DEF Spec

(* Every site and every loop of the model names the innermost function      *)
(* around it and that function's contract, or none at all: no finding can   *)
(* be reported against a function that ended before it, or against one of   *)
(* another file, module or impl block.                                      *)
THEOREM SitesNameTheirFunction == Spec => []SitesAttributed
<1> DEFINE Inv == ContextInv /\ SitesInv /\ LoopsInv
<1>1. Init => Inv
  BY ContextInit, RecordedInit
<1>2. Inv /\ [Next]_vars => Inv'
  BY ContextNext, SitesNext, LoopsNext
<1>3. Inv => SitesAttributed
  <2> SUFFICES ASSUME Inv, NEW s \in Recordings PROVE Attributed(s)
    BY DEF SitesAttributed, Attributed
  <2>1. CASE s \in sites
    BY <2>1 DEF SitesInv
  <2>2. CASE s \in {loops[i] : i \in DOMAIN loops}
    <3>1. DOMAIN loops = 1..Len(loops)
      BY ListType DEF LoopsInv
    <3> QED BY <2>2, <3>1 DEF LoopsInv, LoopRecorded
  <2> QED BY <2>1, <2>2 DEF Recordings
<1> QED BY <1>1, <1>2, <1>3, PTL DEF Spec

--------------------------------------------------------------------------
(* Counting open nodes.                                                     *)
LEMMA Counted ==
  ASSUME NEW n \in Nat, NEW S \in SUBSET (1..n)
  PROVE  /\ IsFiniteSet(S) /\ Cardinality(S) \in 0..n
         /\ Cardinality(S) = 0 <=> S = {}
         /\ \A x : /\ x \notin S => Cardinality(S \cup {x}) = Cardinality(S) + 1
                  /\ x \in S => Cardinality(S \ {x}) = Cardinality(S) - 1
<1>1. IsFiniteSet(1..n) /\ Cardinality(1..n) = n
  BY FS_Interval
<1>2. IsFiniteSet(S) /\ Cardinality(S) <= n
  BY <1>1, FS_Subset
<1>3. Cardinality(S) \in Nat
  BY <1>2, FS_CardinalityType
<1>4. Cardinality(S) = 0 <=> S = {}
  BY <1>2, FS_EmptySet
<1>5. ASSUME NEW x
      PROVE  /\ x \notin S => Cardinality(S \cup {x}) = Cardinality(S) + 1
             /\ x \in S => Cardinality(S \ {x}) = Cardinality(S) - 1
  BY <1>2, FS_AddElement, FS_RemoveElement
<1> QED BY <1>2, <1>3, <1>4, <1>5

(* The nodes of given kinds in the innermost open function, and how many    *)
(* they are.                                                                *)
Above(o, K) == {j \in (FnNode(o) + 1)..Len(o) : o[j].kind \in K}
Depth(o, K) == Cardinality(Above(o, K))
Weight(n, K) == IF n.kind \in K THEN 1 ELSE 0

LEMMA AboveCounted ==
  ASSUME NEW o, IsStack(o), NEW K
  PROVE  /\ Above(o, K) \in SUBSET (1..Len(o)) /\ Len(o) \in Nat
         /\ Depth(o, K) \in 0..Len(o)
         /\ Depth(o, K) = 0 <=> Above(o, K) = {}
<1>1. Len(o) \in Nat /\ FnNode(o) \in 0..Len(o)
  BY FnNodeFacts DEF IsStack, IsList
<1>2. Above(o, K) \in SUBSET (1..Len(o))
  BY <1>1 DEF Above
<1> QED BY <1>1, <1>2, Counted DEF Depth

LEMMA FnNodePushed ==
  ASSUME NEW o, NEW n, IsStack(o), IsNode(n), n.kind # "fn"
  PROVE  LET p == Append(o, n)
         IN /\ IsStack(p) /\ Len(p) = Len(o) + 1 /\ Len(o) \in Nat /\ p[Len(o) + 1] = n
            /\ \A i \in 1..Len(o) : p[i] = o[i]
            /\ FnNode(p) = FnNode(o) /\ FnNode(o) \in 0..Len(o)
<1> DEFINE k == FnNode(o)
           p == Append(o, n)
<1>1. /\ IsStack(p) /\ Len(p) = Len(o) + 1 /\ Len(o) \in Nat /\ p[Len(o) + 1] = n
      /\ \A i \in 1..Len(o) : p[i] = o[i]
  BY Pushed DEF IsStack, IsList
<1>2. /\ k \in 0..Len(o) /\ (k # 0 => o[k].kind = "fn")
      /\ \A j \in (k + 1)..Len(o) : o[j].kind # "fn"
  BY FnNodeFacts
<1> HIDE DEF k, p
<1>3. \A j \in (k + 1)..(Len(o) + 1) : p[j].kind # "fn"
  <2> TAKE j \in (k + 1)..(Len(o) + 1)
  <2>1. CASE j \in 1..Len(o)
    BY <1>1, <1>2, <2>1
  <2>2. CASE j = Len(o) + 1
    BY <1>1, <2>2
  <2> QED BY <1>1, <1>2, <2>1, <2>2
<1>4. k \in 0..(Len(o) + 1) /\ (k # 0 => p[k].kind = "fn")
  BY <1>1, <1>2
<1>5. FnNode(p) = k
  BY <1>1, <1>3, <1>4, FnNodeIs
<1> QED BY <1>1, <1>2, <1>5 DEF k, p

LEMMA DepthPushed ==
  ASSUME NEW o, NEW n, IsStack(o), IsNode(n), n.kind # "fn", NEW K
  PROVE  Depth(Append(o, n), K) = Depth(o, K) + Weight(n, K)
<1> DEFINE l == Len(o)
           p == Append(o, n)
<1>0. /\ IsStack(p) /\ Len(p) = Len(o) + 1 /\ Len(o) \in Nat /\ p[Len(o) + 1] = n
      /\ \A i \in 1..Len(o) : p[i] = o[i]
      /\ FnNode(p) = FnNode(o) /\ FnNode(o) \in 0..Len(o)
  BY FnNodePushed
<1>1. /\ Len(p) = l + 1 /\ l \in Nat /\ p[l + 1] = n
      /\ \A i \in 1..l : p[i] = o[i]
      /\ FnNode(p) = FnNode(o) /\ FnNode(o) \in 0..l
  BY <1>0
<1>2. Above(o, K) \in SUBSET (1..l)
  BY AboveCounted
<1> HIDE DEF l, p
<1>3. \A j : j \in Above(p, K) <=> j \in (FnNode(o) + 1)..(l + 1) /\ p[j].kind \in K
  BY <1>1 DEF Above
<1>4. \A j : j \in Above(o, K) <=> j \in (FnNode(o) + 1)..l /\ o[j].kind \in K
  BY DEF Above, l
<1>5. ASSUME n.kind \in K PROVE Depth(p, K) = Depth(o, K) + Weight(n, K)
  <2>1. Above(p, K) = Above(o, K) \cup {l + 1}
    BY <1>1, <1>3, <1>4, <1>5
  <2>2. l + 1 \notin Above(o, K)
    BY <1>1, <1>2
  <2>3. Cardinality(Above(o, K) \cup {l + 1}) = Cardinality(Above(o, K)) + 1
    <3> DEFINE x == l + 1
    <3>1. x \notin Above(o, K)
      BY <2>2
    <3> HIDE DEF x
    <3>2. Cardinality(Above(o, K) \cup {x}) = Cardinality(Above(o, K)) + 1
      <4>1. IsFiniteSet(Above(o, K))
        BY <1>1, <1>2, Counted
      <4> QED BY <3>1, <4>1, FS_AddElement
    <3> QED BY <3>2 DEF x
  <2> QED BY <1>5, <2>1, <2>3 DEF Depth, Weight
<1>6. ASSUME n.kind \notin K PROVE Depth(p, K) = Depth(o, K) + Weight(n, K)
  <2>0. \A j : j \in Above(p, K) <=> j \in Above(o, K)
    BY <1>1, <1>3, <1>4, <1>6
  <2>1. Above(p, K) = Above(o, K)
    BY <2>0 DEF Above
  <2>2. Depth(o, K) \in Nat
    BY AboveCounted
  <2> QED BY <1>6, <2>1, <2>2 DEF Depth, Weight
<1>7. Depth(p, K) = Depth(o, K) + Weight(n, K)
  BY <1>5, <1>6
<1> QED BY <1>7 DEF p

LEMMA FnNodePopped ==
  ASSUME NEW o, IsStack(o), o # << >>, o[Len(o)].kind # "fn"
  PROVE  LET p == SubSeq(o, 1, Len(o) - 1)
         IN /\ IsStack(p) /\ Len(p) = Len(o) - 1 /\ Len(o) \in Nat \ {0}
            /\ \A i \in 1..(Len(o) - 1) : p[i] = o[i]
            /\ FnNode(p) = FnNode(o) /\ FnNode(o) \in 0..(Len(o) - 1)
<1> DEFINE k == FnNode(o)
           p == SubSeq(o, 1, Len(o) - 1)
<1>1. /\ IsStack(p) /\ Len(p) = Len(o) - 1 /\ Len(o) \in Nat \ {0}
      /\ \A i \in 1..(Len(o) - 1) : p[i] = o[i]
  BY Popped
<1>2. /\ k \in 0..Len(o) /\ (k # 0 => o[k].kind = "fn")
      /\ \A j \in (k + 1)..Len(o) : o[j].kind # "fn"
  BY FnNodeFacts
<1> HIDE DEF k, p
<1>3. k # Len(o)
  BY <1>1, <1>2
<1>4. k \in 0..Len(p) /\ (k # 0 => p[k].kind = "fn") /\ \A j \in (k + 1)..Len(p) : p[j].kind # "fn"
  BY <1>1, <1>2, <1>3
<1>5. FnNode(p) = k
  BY <1>1, <1>4, FnNodeIs
<1> QED BY <1>1, <1>4, <1>5 DEF k, p

LEMMA DepthPopped ==
  ASSUME NEW o, IsStack(o), o # << >>, o[Len(o)].kind # "fn", NEW K
  PROVE  Depth(SubSeq(o, 1, Len(o) - 1), K) = Depth(o, K) - Weight(o[Len(o)], K)
<1> DEFINE l == Len(o)
           p == SubSeq(o, 1, Len(o) - 1)
<1>1. /\ Len(p) = l - 1 /\ l \in Nat \ {0}
      /\ \A i \in 1..(l - 1) : p[i] = o[i]
      /\ FnNode(p) = FnNode(o) /\ FnNode(o) \in 0..(l - 1)
  BY FnNodePopped
<1>2. Above(o, K) \in SUBSET (1..l)
  BY AboveCounted
<1>a. o[Len(o)] = o[l]
  OBVIOUS
<1> HIDE DEF l, p
<1>3. \A j : j \in Above(p, K) <=> j \in (FnNode(o) + 1)..(l - 1) /\ p[j].kind \in K
  BY <1>1 DEF Above
<1>4. \A j : j \in Above(o, K) <=> j \in (FnNode(o) + 1)..l /\ o[j].kind \in K
  BY DEF Above, l
<1>5. ASSUME o[l].kind \in K PROVE Depth(p, K) = Depth(o, K) - Weight(o[Len(o)], K)
  <2>1. Above(p, K) = Above(o, K) \ {l}
    BY <1>1, <1>3, <1>4, <1>5
  <2>2. l \in Above(o, K)
    BY <1>1, <1>4, <1>5
  <2>3. /\ Cardinality(Above(p, K)) = Cardinality(Above(o, K)) - 1
    <3>1. l \in Nat
      BY <1>1
    <3> HIDE DEF Above
    <3> QED BY <1>2, <2>1, <2>2, <3>1, Counted
  <2>4. Weight(o[Len(o)], K) = 1
    BY <1>5, <1>a DEF Weight
  <2> QED BY <2>3, <2>4 DEF Depth
<1>6. ASSUME o[l].kind \notin K PROVE Depth(p, K) = Depth(o, K) - Weight(o[Len(o)], K)
  <2>a. ASSUME NEW j \in Above(p, K) PROVE j \in Above(o, K)
    BY <1>1, <1>3, <1>4
  <2>b. ASSUME NEW j \in Above(o, K) PROVE j \in Above(p, K)
    <3>1. j \in (FnNode(o) + 1)..l /\ j # l
      BY <1>4, <1>6
    <3> QED BY <1>1, <1>3, <1>4, <3>1
  <2>0. \A j : j \in Above(p, K) <=> j \in Above(o, K)
    BY <2>a, <2>b
  <2>1. Above(p, K) = Above(o, K)
    BY <2>0 DEF Above
  <2>2. Depth(o, K) \in Nat
    BY AboveCounted
  <2> QED BY <1>6, <1>a, <2>1, <2>2 DEF Depth, Weight
<1>7. Depth(p, K) = Depth(o, K) - Weight(o[Len(o)], K)
  BY <1>5, <1>6, <1>a
<1> QED BY <1>7 DEF p

--------------------------------------------------------------------------
(* The depths count what surrounds the node in the innermost function, as   *)
(* long as that function is still the context.                              *)
Inside(o) == FnNode(o) # 0 /\ ~o[FnNode(o)].cut

Counts(o, in_loops, in_guards) ==
  /\ Len(o) <= MaxOpen
  /\ Inside(o) => in_loops = Depth(o, {"loop"}) /\ in_guards = Depth(o, Guarding)

DepthInv == Counts(open, loop_depth, guarded_depth)

UpOn(n, K, d) == IF n.kind \in K THEN Up(d) ELSE d
DownOn(n, K, d) == IF n.kind \in K THEN Down(d) ELSE d

LEMMA Modular ==
  ASSUME NEW d \in Nat, d < Width
  PROVE  /\ d + 1 < Width => Up(d) = d + 1
         /\ d > 0 => Down(d) = d - 1
<1>1. Width \in Nat
  BY BoundsAssumption
<1>2. ASSUME d + 1 < Width PROVE (d + 1) % Width = d + 1
  BY <1>1, <1>2
<1>3. ASSUME d > 0 PROVE (d + Width - 1) % Width = d - 1
  <2> DEFINE e == d - 1
  <2>1. e \in Nat /\ e < Width /\ d + Width - 1 = e + Width
    BY <1>1, <1>3
  <2> HIDE DEF e
  <2>2. (e + Width) % Width = e
    BY <1>1, <2>1
  <2> QED BY <2>1, <2>2 DEF e
<1> QED BY <1>2, <1>3 DEF Up, Down

LEMMA CountsPushed ==
  ASSUME NEW o, NEW n, NEW i, NEW g, IsStack(o), IsNode(n), n.kind # "fn",
         Len(o) < MaxOpen, Counts(o, i, g)
  PROVE  Counts(Append(o, n), UpOn(n, {"loop"}, i), UpOn(n, Guarding, g))
<1> DEFINE p == Append(o, n)
<1>1. /\ Len(p) = Len(o) + 1 /\ Len(o) \in Nat
      /\ \A j \in 1..Len(o) : p[j] = o[j]
      /\ FnNode(p) = FnNode(o) /\ FnNode(o) \in 0..Len(o)
  BY FnNodePushed
<1>2. \A K : Depth(p, K) = Depth(o, K) + Weight(n, K)
  BY DepthPushed
<1> HIDE DEF p
<1>3. ASSUME Inside(p) PROVE i = Depth(o, {"loop"}) /\ g = Depth(o, Guarding)
  BY <1>1, <1>3 DEF Inside, Counts
<1>4. ASSUME NEW K, NEW d, d = Depth(o, K) PROVE UpOn(n, K, d) = Depth(p, K)
  <2>1. d \in Nat /\ d < Width /\ d + 1 < Width
    BY <1>1, <1>4, AboveCounted, BoundsAssumption
  <2>2. Up(d) = d + 1
    BY <2>1, Modular
  <2> QED BY <1>2, <1>4, <2>1, <2>2 DEF UpOn, Weight
<1>5. Counts(p, UpOn(n, {"loop"}, i), UpOn(n, Guarding, g))
  BY <1>1, <1>3, <1>4, BoundsAssumption DEF Counts
<1> QED BY <1>5 DEF p

LEMMA CountsPopped ==
  ASSUME NEW o, NEW i, NEW g, IsStack(o), o # << >>, o[Len(o)].kind # "fn", Counts(o, i, g)
  PROVE  Counts(SubSeq(o, 1, Len(o) - 1), DownOn(o[Len(o)], {"loop"}, i),
                DownOn(o[Len(o)], Guarding, g))
<1> DEFINE p == SubSeq(o, 1, Len(o) - 1)
           n == o[Len(o)]
<1>1. /\ Len(p) = Len(o) - 1 /\ Len(o) \in Nat \ {0}
      /\ \A j \in 1..(Len(o) - 1) : p[j] = o[j]
      /\ FnNode(p) = FnNode(o) /\ FnNode(o) \in 0..(Len(o) - 1)
  BY FnNodePopped
<1>2. \A K : Depth(p, K) = Depth(o, K) - Weight(n, K)
  BY DepthPopped
<1>a. \A K : n.kind \in K => Len(o) \in Above(o, K)
  BY <1>1 DEF Above
<1> HIDE DEF p, n
<1>3. ASSUME Inside(p) PROVE i = Depth(o, {"loop"}) /\ g = Depth(o, Guarding)
  BY <1>1, <1>3 DEF Inside, Counts
<1>4. ASSUME NEW K, NEW d, d = Depth(o, K) PROVE DownOn(n, K, d) = Depth(p, K)
  <2>1. d \in Nat /\ d < Width
    BY <1>1, <1>4, AboveCounted, BoundsAssumption DEF Counts
  <2>2. n.kind \in K => d # 0
    BY <1>4, <1>a, AboveCounted
  <2>3. n.kind \in K => Down(d) = d - 1
    BY <2>1, <2>2, Modular
  <2> QED BY <1>2, <1>4, <2>1, <2>3 DEF DownOn, Weight
<1>5. Counts(p, DownOn(n, {"loop"}, i), DownOn(n, Guarding, g))
  BY <1>1, <1>3, <1>4, BoundsAssumption DEF Counts
<1> QED BY <1>5 DEF p, n

(* To change the top node is to leave it and enter another.                 *)
LEMMA Replaced ==
  ASSUME NEW o, NEW n, IsStack(o), o # << >>
  PROVE  [o EXCEPT ![Len(o)] = n] = Append(SubSeq(o, 1, Len(o) - 1), n)
<1> DEFINE p == [o EXCEPT ![Len(o)] = n]
           b == SubSeq(o, 1, Len(o) - 1)
           q == Append(b, n)
           k == Len(o)
<1>1. /\ IsStack(b) /\ k \in Nat \ {0} /\ Len(b) = k - 1
      /\ \A i \in 1..(k - 1) : b[i] = o[i]
  BY Popped
<1>2. DOMAIN o = 1..k
  BY StackType
<1>3. p = [i \in 1..k |-> IF i = k THEN n ELSE o[i]]
  BY <1>1, <1>2
<1> HIDE DEF p, b, k
<1>4. /\ IsList(q) /\ Len(q) = Len(b) + 1 /\ q[Len(b) + 1] = n
      /\ \A i \in 1..Len(b) : q[i] = b[i]
  BY <1>1, Appended DEF IsStack
<1> HIDE DEF q
<1>5. q = [i \in 1..k |-> q[i]]
  BY <1>1, <1>4 DEF IsList
<1>6. \A i \in 1..k : q[i] = IF i = k THEN n ELSE o[i]
  <2> TAKE i \in 1..k
  <2>1. CASE i = k
    BY <1>1, <1>4, <2>1
  <2>2. CASE i # k
    <3>1. i \in 1..(k - 1)
      BY <1>1, <2>2
    <3> QED BY <1>1, <1>4, <2>2, <3>1
  <2> QED BY <2>1, <2>2
<1>7. p = q
  BY <1>3, <1>5, <1>6
<1> QED BY <1>7 DEF p, q, b, k

LEMMA CountsReplaced ==
  ASSUME NEW o, NEW n, NEW i, NEW g, IsStack(o), o # << >>, IsNode(n),
         o[Len(o)].kind # "fn", n.kind # "fn", Counts(o, i, g)
  PROVE  Counts([o EXCEPT ![Len(o)] = n],
                UpOn(n, {"loop"}, DownOn(o[Len(o)], {"loop"}, i)),
                UpOn(n, Guarding, DownOn(o[Len(o)], Guarding, g)))
<1> DEFINE b == SubSeq(o, 1, Len(o) - 1)
           x == DownOn(o[Len(o)], {"loop"}, i)
           y == DownOn(o[Len(o)], Guarding, g)
<1>1. Counts(b, x, y)
  BY CountsPopped
<1>2. IsStack(b) /\ Len(b) < MaxOpen
  BY Popped, BoundsAssumption DEF Counts
<1>3. [o EXCEPT ![Len(o)] = n] = Append(b, n)
  BY Replaced
<1> HIDE DEF b, x, y
<1>4. Counts(Append(b, n), UpOn(n, {"loop"}, x), UpOn(n, Guarding, y))
  BY <1>1, <1>2, CountsPushed
<1> QED BY <1>3, <1>4 DEF x, y

(* A change of the top node that leaves its kind and its cut alone.         *)
LEMMA CountsKept ==
  ASSUME NEW o, NEW n, NEW i, NEW g, IsStack(o), o # << >>, IsNode(n),
         n.kind = o[Len(o)].kind, n.cut = o[Len(o)].cut, Counts(o, i, g)
  PROVE  Counts([o EXCEPT ![Len(o)] = n], i, g)
<1> DEFINE p == [o EXCEPT ![Len(o)] = n]
           k == Len(o)
<1>1. k \in Nat \ {0} /\ DOMAIN o = 1..k
  BY StackType, Popped
<1>2. p = [o EXCEPT ![k] = n]
  OBVIOUS
<1>3. p = Append(SubSeq(o, 1, k - 1), n)
  BY Replaced
<1>4. IsStack(p) /\ Len(p) = k
  <2> DEFINE b == SubSeq(o, 1, k - 1)
  <2>1. IsStack(b) /\ Len(b) = k - 1
    BY Popped
  <2>0. p = Append(b, n)
    BY <1>3
  <2> HIDE DEF b, p, k
  <2>2. IsStack(Append(b, n)) /\ Len(Append(b, n)) = Len(b) + 1
    BY <2>1, Pushed
  <2> QED BY <1>1, <2>0, <2>1, <2>2
<1>a. n.kind = o[k].kind /\ n.cut = o[k].cut
  OBVIOUS
<1>b. k = Len(o)
  OBVIOUS
<1> HIDE DEF p, k
<1>5. \A j \in 1..k : p[j].kind = o[j].kind /\ p[j].cut = o[j].cut
  BY <1>1, <1>2, <1>a
<1>6. FnNode(p) = FnNode(o) /\ FnNode(o) \in 0..k
  <2>1. /\ FnNode(o) \in 0..k /\ (FnNode(o) # 0 => o[FnNode(o)].kind = "fn")
        /\ \A j \in (FnNode(o) + 1)..k : o[j].kind # "fn"
    BY <1>b, FnNodeFacts
  <2>2. /\ FnNode(o) \in 0..Len(p) /\ (FnNode(o) # 0 => p[FnNode(o)].kind = "fn")
        /\ \A j \in (FnNode(o) + 1)..Len(p) : p[j].kind # "fn"
    BY <1>1, <1>4, <1>5, <2>1
  <2>3. FnNode(p) = FnNode(o)
    BY <1>4, <2>2, FnNodeIs
  <2> QED BY <2>1, <2>3
<1>7. \A K : Above(p, K) = Above(o, K)
  <2> TAKE K
  <2>1. \A j \in (FnNode(o) + 1)..k : p[j].kind = o[j].kind
    BY <1>1, <1>5, <1>6
  <2> QED BY <1>4, <1>6, <1>b, <2>1 DEF Above
<1>8. Inside(p) => Inside(o)
  BY <1>1, <1>5, <1>6 DEF Inside
<1>9. Counts(p, i, g)
  BY <1>4, <1>7, <1>8, <1>b DEF Counts, Depth
<1> QED BY <1>9 DEF p

(* What each step does to the depths.                                       *)
LEMMA DepthInit == Init => DepthInv
<1> SUFFICES ASSUME Init PROVE DepthInv
  OBVIOUS
<1>1. open = << >> /\ Len(open) = 0
  BY DEF Init
<1>2. IsStack(open)
  BY <1>1 DEF IsStack, IsList
<1>3. FnNode(open) = 0
  BY <1>1, <1>2, FnNodeFacts
<1> QED BY <1>1, <1>3, BoundsAssumption DEF DepthInv, Counts, Inside

LEMMA DepthStill ==
  ASSUME ContextInv, DepthInv,
         \/ \E t \in BOOLEAN : BeginFile(t)
         \/ \E c \in ContractName : DeclareContract(c)
         \/ \E c \in vocabulary.chains, k \in KeyExpr : VisitChain(c, k)
         \/ \E e \in vocabulary.operations : VisitExpr(e)
         \/ \E n \in vocabulary.names, m \in BOOLEAN : VisitCall(n, m)
         \/ Finish
         \/ UNCHANGED vars
  PROVE  DepthInv'
<1>1. CASE \E t \in BOOLEAN : BeginFile(t)
  <2>1. open' = << >> /\ open' = open /\ Len(open') = 0
    BY <1>1 DEF BeginFile
  <2>2. FnNode(open') = 0
    BY <2>1, FnNodeFacts DEF ContextInv
  <2> QED BY <2>1, <2>2, BoundsAssumption DEF DepthInv, Counts, Inside
<1>2. CASE UNCHANGED <<open, loop_depth, guarded_depth>>
  BY <1>2 DEF DepthInv
<1>3. UNCHANGED <<open, loop_depth, guarded_depth>> \/ \E t \in BOOLEAN : BeginFile(t)
  BY DEF DeclareContract, VisitChain, VisitExpr, VisitCall, Finish, vars, fields
<1> QED BY <1>1, <1>2, <1>3

LEMMA DepthPush ==
  ASSUME ContextInv, DepthInv, NEW n, IsNode(n), n.kind # "fn", open' = Append(open, n),
         Len(open) < MaxOpen, loop_depth' = UpOn(n, {"loop"}, loop_depth),
         guarded_depth' = UpOn(n, Guarding, guarded_depth)
  PROVE  DepthInv'
<1>1. Counts(Append(open, n), UpOn(n, {"loop"}, loop_depth), UpOn(n, Guarding, guarded_depth))
  BY CountsPushed DEF ContextInv, DepthInv
<1>2. Counts(open', loop_depth', guarded_depth')
  BY <1>1
<1> QED BY <1>2 DEF DepthInv

LEMMA DepthPop ==
  ASSUME ContextInv, DepthInv, open # << >>, Top.kind # "fn", open' = Below,
         loop_depth' = DownOn(Top, {"loop"}, loop_depth),
         guarded_depth' = DownOn(Top, Guarding, guarded_depth)
  PROVE  DepthInv'
<1>1. Counts(Below, DownOn(Top, {"loop"}, loop_depth), DownOn(Top, Guarding, guarded_depth))
  BY CountsPopped DEF ContextInv, DepthInv, Below, Top
<1>2. Counts(open', loop_depth', guarded_depth')
  BY <1>1
<1> QED BY <1>2 DEF DepthInv

LEMMA DepthOpenItem ==
  ASSUME ContextInv, DepthInv,
         \/ \E t \in BOOLEAN : OpenMod(t)
         \/ \E f \in vocabulary.impls : OpenImpl(f)
         \/ \E k \in {"block", "trait_fn"} : OpenBlock(k)
  PROVE  DepthInv'
<1>1. PICK n : /\ open' = Append(open, n) /\ IsNode(n)
               /\ n.kind \in {"mod", "impl", "block", "trait_fn"}
  <2>1. \A k, c, t : LET n == NodeOf(k, NoName, c, t, 0, {}) IN n.kind = k
    BY DEF NodeOf
  <2>2. \A k, c, t : LET n == NodeOf(k, NoName, c, t, 0, {}) IN IsNode(n)
    BY DEF NodeOf, IsNode
  <2>3. \E k \in {"mod", "impl", "block", "trait_fn"} : \E c, t :
          open' = Append(open, NodeOf(k, NoName, c, t, 0, {}))
    BY DEF OpenMod, OpenImpl, OpenBlock, Push, Node
  <2> QED BY <2>1, <2>2, <2>3
<1>2. UNCHANGED <<loop_depth, guarded_depth>> /\ Len(open) < MaxOpen
  BY DEF OpenMod, OpenImpl, OpenBlock, fields, Room
<1> QED BY <1>1, <1>2, DepthPush DEF UpOn, Guarding

LEMMA DepthOpenGuard ==
  ASSUME ContextInv, DepthInv, NEW k \in {"cond", "guard"}, NEW w, OpenGuard(k, w)
  PROVE  DepthInv'
<1>1. IsNode(Node(k)) /\ Node(k).kind = k
  BY NodesAreNodes
<1>2. /\ open' = Append(open, Node(k)) /\ Len(open) < MaxOpen
      /\ loop_depth' = loop_depth /\ guarded_depth' = Up(guarded_depth)
  BY DEF OpenGuard, Push, Room
<1> QED BY <1>1, <1>2, DepthPush DEF UpOn, Guarding

LEMMA LoopNodes ==
  ASSUME NEW j
  PROVE  IsNode(LoopNode(j)) /\ LoopNode(j).kind = j
<1>1. LoopNode(j).kind = j
  BY DEF LoopNode, NodeOf
<1>2. IsNode(LoopNode(j))
  BY DEF LoopNode, NodeOf, IsNode
<1> QED BY <1>1, <1>2

LEMMA DepthOpenLoop ==
  ASSUME ContextInv, DepthInv, NEW k \in {"for", "while", "loop"}, NEW b, OpenLoop(k, b)
  PROVE  DepthInv'
<1>1. Len(open) < MaxOpen
  BY DEF OpenLoop, Room
<1>2. CASE k = "for"
  <2>1. /\ open' = Append(open, LoopNode("iter"))
        /\ loop_depth' = loop_depth /\ guarded_depth' = guarded_depth
    BY <1>2 DEF OpenLoop
  <2> QED BY <1>1, <2>1, LoopNodes, DepthPush DEF UpOn, Guarding
<1>3. CASE k = "loop"
  <2>1. /\ open' = Append(open, LoopNode("loop"))
        /\ loop_depth' = Up(loop_depth) /\ guarded_depth' = guarded_depth
    BY <1>3 DEF OpenLoop
  <2> QED BY <1>1, <2>1, LoopNodes, DepthPush DEF UpOn, Guarding
<1>4. CASE k = "while"
  <2> DEFINE n == LoopNode("loop")
             m == Node("guard")
             o == Append(open, n)
  <2>1. /\ open' = Append(o, m) /\ Len(open) + 1 < MaxOpen
        /\ loop_depth' = Up(loop_depth) /\ guarded_depth' = Up(guarded_depth)
    BY <1>4 DEF OpenLoop
  <2>2. IsNode(n) /\ n.kind = "loop" /\ IsNode(m) /\ m.kind = "guard"
    BY LoopNodes, NodesAreNodes
  <2> HIDE DEF n, m
  <2>3. Counts(o, UpOn(n, {"loop"}, loop_depth), UpOn(n, Guarding, guarded_depth))
    BY <1>1, <2>2, CountsPushed DEF ContextInv, DepthInv
  <2>4. IsStack(o) /\ Len(o) = Len(open) + 1
    BY <2>2, Pushed DEF ContextInv
  <2> HIDE DEF o
  <2>5. Counts(o, Up(loop_depth), guarded_depth)
    BY <2>2, <2>3 DEF UpOn, Guarding
  <2>6. Counts(Append(o, m), UpOn(m, {"loop"}, Up(loop_depth)), UpOn(m, Guarding, guarded_depth))
    BY <2>1, <2>2, <2>4, <2>5, CountsPushed
  <2>7. Counts(open', loop_depth', guarded_depth')
    BY <2>1, <2>2, <2>6 DEF UpOn, Guarding
  <2> QED BY <2>7 DEF DepthInv
<1> QED BY <1>2, <1>3, <1>4

LEMMA DepthClose ==
  ASSUME ContextInv, DepthInv, CloseMod \/ CloseImpl \/ CloseBlock \/ CloseLoop
  PROVE  DepthInv'
<1>1. open # << >> /\ open' = Below /\ Top.kind # "fn"
  BY DEF CloseMod, CloseImpl, CloseBlock, CloseLoop, IsOpen
<1>2. /\ loop_depth' = DownOn(Top, {"loop"}, loop_depth)
      /\ guarded_depth' = DownOn(Top, Guarding, guarded_depth)
  BY DEF CloseMod, CloseImpl, CloseBlock, CloseLoop, IsOpen, DownOn, Guarding
<1> QED BY <1>1, <1>2, DepthPop

LEMMA DepthReplace ==
  ASSUME ContextInv, DepthInv, NEW k \in {"block", "loop"}, open # << >>, Top.kind # "fn",
         open' = [open EXCEPT ![Len(open)].kind = k],
         loop_depth' = IF k = "loop" THEN Up(DownOn(Top, {"loop"}, loop_depth))
                       ELSE DownOn(Top, {"loop"}, loop_depth),
         guarded_depth' = DownOn(Top, Guarding, guarded_depth)
  PROVE  DepthInv'
<1> DEFINE n == [Top EXCEPT !.kind = k]
           x == DownOn(Top, {"loop"}, loop_depth)
           y == DownOn(Top, Guarding, guarded_depth)
<1>0. IsNode(Top)
  BY TopIsNode
<1>2. open' = [open EXCEPT ![Len(open)] = n]
  BY DEF Top
<1>a. n = [Top EXCEPT !.kind = k]
  OBVIOUS
<1> HIDE DEF n
<1>1. IsNode(n) /\ n.kind = k
  BY <1>0, <1>a DEF IsNode
<1>3. Counts([open EXCEPT ![Len(open)] = n], UpOn(n, {"loop"}, x), UpOn(n, Guarding, y))
  BY <1>1, CountsReplaced DEF ContextInv, DepthInv, Top
<1>4. loop_depth' = UpOn(n, {"loop"}, x) /\ guarded_depth' = UpOn(n, Guarding, y)
  BY <1>1 DEF UpOn, Guarding
<1>5. Counts(open', loop_depth', guarded_depth')
  BY <1>2, <1>3, <1>4
<1> QED BY <1>5 DEF DepthInv

LEMMA DepthCloseGuard ==
  ASSUME ContextInv, DepthInv, CloseGuard
  PROVE  DepthInv'
<1>1. /\ open # << >> /\ Top.kind \in Guarding
      /\ loop_depth' = loop_depth /\ guarded_depth' = Down(guarded_depth)
      /\ open' = IF Top.kind = "cond"
                 THEN [open EXCEPT ![Len(open)].kind = "block"] ELSE Below
  BY DEF CloseGuard, IsOpen
<1>2. /\ Top.kind # "fn"
      /\ loop_depth' = DownOn(Top, {"loop"}, loop_depth)
      /\ guarded_depth' = DownOn(Top, Guarding, guarded_depth)
  BY <1>1 DEF DownOn, Guarding
<1> QED BY <1>1, <1>2, DepthPop, DepthReplace

LEMMA DepthStartBody ==
  ASSUME ContextInv, DepthInv, StartBody
  PROVE  DepthInv'
<1>1. /\ open # << >> /\ Top.kind = "iter"
      /\ open' = [open EXCEPT ![Len(open)].kind = "loop"]
      /\ loop_depth' = Up(loop_depth) /\ guarded_depth' = guarded_depth
  BY DEF StartBody, IsOpen
<1>2. /\ loop_depth' = Up(DownOn(Top, {"loop"}, loop_depth))
      /\ guarded_depth' = DownOn(Top, Guarding, guarded_depth)
  BY <1>1 DEF DownOn, Guarding
<1> QED BY <1>1, <1>2, DepthReplace

LEMMA DepthRebinds ==
  ASSUME ContextInv, DepthInv, Rebinds
  PROVE  DepthInv'
<1>1. PICK w : open' = [open EXCEPT ![Len(open)] = [Top EXCEPT !.names = w]]
  BY Rebound
<1> DEFINE n == [Top EXCEPT !.names = w]
<1>2. open # << >> /\ loop_depth' = loop_depth /\ guarded_depth' = guarded_depth
  BY DEF Rebinds, IsOpen
<1>3. open' = [open EXCEPT ![Len(open)] = n]
  BY <1>1
<1>4. IsNode(n) /\ n.kind = Top.kind /\ n.cut = Top.cut
  <2>1. n = [Top EXCEPT !.names = w] /\ IsNode(Top)
    BY <1>2, TopIsNode
  <2> HIDE DEF n
  <2> QED BY <2>1, NodeWithNames
<1> HIDE DEF n
<1>5. Counts([open EXCEPT ![Len(open)] = n], loop_depth, guarded_depth)
  BY <1>2, <1>4, CountsKept DEF ContextInv, DepthInv, Top
<1>6. Counts(open', loop_depth', guarded_depth')
  BY <1>2, <1>3, <1>5
<1> QED BY <1>6 DEF DepthInv

LEMMA DepthEnterBody ==
  ASSUME ContextInv, DepthInv, NEW n, NEW t, NEW a, Len(open) < MaxOpen, EnterBody(n, t, a)
  PROVE  DepthInv'
<1> DEFINE f == FnFrame(n, t)
           l == Len(open) + 1
<1>a. f.kind = "fn"
  BY DEF FnFrame, NodeOf
<1>b. IsNode(f)
  BY DEF FnFrame, NodeOf, IsNode
<1> HIDE DEF f
<1>1. CASE Skip
  BY <1>1 DEF EnterBody, DepthInv
<1>2. CASE ~Skip
  <2>1. open' = Append(open, f) /\ loop_depth' = 0 /\ guarded_depth' = 0
    BY <1>2 DEF EnterBody, EnterFunction, Push, f
  <2>2. /\ IsStack(open') /\ Len(open') = l /\ Len(open) \in Nat /\ open'[l] = f
    BY <2>1, <1>b, Pushed DEF ContextInv, IsStack, IsList
  <2>3. FnNode(open') = l
    BY <1>a, <2>2, FnNodeIs
  <2>4. \A K : Above(open', K) = {}
    BY <2>2, <2>3 DEF Above
  <2>5. \A K : Depth(open', K) = 0
    BY <2>2, <2>4, AboveCounted
  <2>6. Counts(open', loop_depth', guarded_depth')
    BY <2>1, <2>2, <2>5, BoundsAssumption DEF Counts
  <2> QED BY <2>6 DEF DepthInv
<1> QED BY <1>1, <1>2

LEMMA DepthCloseFn ==
  ASSUME ContextInv, DepthInv, CloseFn
  PROVE  DepthInv'
<1>1. /\ IsStack(open') /\ Len(open') = Len(open) - 1 /\ Len(open) \in Nat \ {0}
      /\ \A i \in 1..(Len(open) - 1) : open'[i].cut
  BY CutBelow DEF ContextInv
<1>2. FnNode(open') \in 0..(Len(open) - 1)
  BY <1>1, FnNodeFacts
<1>3. ~Inside(open')
  BY <1>1, <1>2 DEF Inside
<1>4. Counts(open', loop_depth', guarded_depth')
  BY <1>1, <1>3, BoundsAssumption DEF Counts, DepthInv
<1> QED BY <1>4 DEF DepthInv

LEMMA DepthNext == ContextInv /\ DepthInv /\ [Next]_vars => DepthInv'
<1> SUFFICES ASSUME ContextInv, DepthInv, [Next]_vars PROVE DepthInv'
  OBVIOUS
<1>1. CASE \/ \E t \in BOOLEAN : OpenMod(t)
           \/ \E f \in vocabulary.impls : OpenImpl(f)
           \/ \E k \in {"block", "trait_fn"} : OpenBlock(k)
  BY <1>1, DepthOpenItem
<1>2. CASE \E n \in vocabulary.names, t, a \in BOOLEAN : OpenFn(n, t, a)
  BY <1>2, DepthEnterBody DEF OpenFn, Room
<1>3. CASE \E n \in vocabulary.names, p, r, t, a \in BOOLEAN : OpenMethod(n, p, r, t, a)
  BY <1>3, DepthEnterBody DEF OpenMethod, Room
<1>4. CASE CloseMod \/ CloseImpl \/ CloseBlock \/ CloseLoop
  BY <1>4, DepthClose
<1>5. CASE CloseFn
  BY <1>5, DepthCloseFn
<1>6. CASE (\E k \in Ident, v \in Bound : Let(k, v)) \/ \E k \in Ident : BindPattern(k)
  BY <1>6, BindingStep, DepthRebinds
<1>7. CASE OpenGuard("cond", FALSE) \/ \E w \in BOOLEAN : OpenGuard("guard", w)
  BY <1>7, DepthOpenGuard
<1>8. CASE \E k \in {"for", "while", "loop"}, b \in BOOLEAN : OpenLoop(k, b)
  BY <1>8, DepthOpenLoop
<1>9. CASE CloseGuard \/ StartBody
  BY <1>9, DepthCloseGuard, DepthStartBody
<1>10. CASE \/ \E t \in BOOLEAN : BeginFile(t)
            \/ \E c \in ContractName : DeclareContract(c)
            \/ \E c \in vocabulary.chains, k \in KeyExpr : VisitChain(c, k)
            \/ \E e \in vocabulary.operations : VisitExpr(e)
            \/ \E n \in vocabulary.names, m \in BOOLEAN : VisitCall(n, m)
            \/ Finish
            \/ UNCHANGED vars
  BY <1>10, DepthStill
<1> QED BY <1>1, <1>2, <1>3, <1>4, <1>5, <1>6, <1>7, <1>8, <1>9, <1>10
     DEF Next, Items, Statements

--------------------------------------------------------------------------
(* Test code: the fields test_depth and impl_ctx.is_test say whether a      *)
(* module, an impl block or the file around the node is one of tests.       *)
Marks == {"mod", "impl"}
TestMods(o) == {i \in 1..Len(o) : o[i].kind = "mod" /\ o[i].test}
TestImplBelow(o, i) == \E j \in 1..(i - 1) : o[j].kind = "impl" /\ o[j].test

TestInv ==
  /\ test_depth = Cardinality(TestMods(open)) + (IF test_file THEN 1 ELSE 0)
  /\ impl_ctx.is_test <=> TestImplBelow(open, Len(open) + 1)
  /\ \A i \in 1..Len(open) : open[i].kind = "impl" =>
       (open[i].previous.is_test <=> TestImplBelow(open, i))

MarkedAlike(o, p) ==
  \A i \in Nat \ {0} :
    /\ i <= Len(o) /\ o[i].kind \in Marks =>
         /\ i <= Len(p) /\ p[i].kind = o[i].kind
         /\ p[i].previous = o[i].previous /\ p[i].test = o[i].test
    /\ i <= Len(p) /\ p[i].kind \in Marks => i <= Len(o) /\ o[i].kind \in Marks

LEMMA AgreeMarked ==
  ASSUME NEW o, NEW p, Agree(o, p, Marks)
  PROVE  MarkedAlike(o, p)
BY DEF Agree, MarkedAlike

LEMMA MarkedKeeps ==
  ASSUME NEW o, NEW p, IsStack(o), IsStack(p), MarkedAlike(o, p)
  PROVE  /\ TestMods(p) = TestMods(o)
         /\ TestImplBelow(p, Len(p) + 1) <=> TestImplBelow(o, Len(o) + 1)
         /\ \A i \in 1..Len(p) : p[i].kind = "impl" =>
              /\ i \in 1..Len(o) /\ o[i].kind = "impl" /\ p[i].previous = o[i].previous
              /\ TestImplBelow(p, i) <=> TestImplBelow(o, i)
<1>0. Len(o) \in Nat /\ Len(p) \in Nat
  BY DEF IsStack, IsList
<1>1. \A i \in Nat \ {0}, k \in Marks :
        i <= Len(p) /\ p[i].kind = k /\ p[i].test <=> i <= Len(o) /\ o[i].kind = k /\ o[i].test
  BY <1>0 DEF MarkedAlike, Marks
<1>2. TestMods(p) = TestMods(o)
  BY <1>0, <1>1 DEF TestMods, Marks
<1>3. TestImplBelow(p, Len(p) + 1) <=> TestImplBelow(o, Len(o) + 1)
  <2>1. ASSUME NEW j \in 1..Len(p), p[j].kind = "impl" /\ p[j].test
        PROVE  j \in 1..Len(o) /\ o[j].kind = "impl" /\ o[j].test
    BY <1>0, <1>1, <2>1 DEF Marks
  <2>2. ASSUME NEW j \in 1..Len(o), o[j].kind = "impl" /\ o[j].test
        PROVE  j \in 1..Len(p) /\ p[j].kind = "impl" /\ p[j].test
    BY <1>0, <1>1, <2>2 DEF Marks
  <2>3. Len(p) + 1 - 1 = Len(p) /\ Len(o) + 1 - 1 = Len(o)
    BY <1>0
  <2> QED BY <2>1, <2>2, <2>3 DEF TestImplBelow
<1>4. ASSUME NEW i \in 1..Len(p), p[i].kind = "impl"
      PROVE  /\ i \in 1..Len(o) /\ o[i].kind = "impl" /\ p[i].previous = o[i].previous
             /\ TestImplBelow(p, i) <=> TestImplBelow(o, i)
  <2>1. i \in Nat \ {0} /\ i <= Len(p) /\ p[i].kind \in Marks
    BY <1>0, <1>4 DEF Marks
  <2>2. i <= Len(o) /\ o[i].kind \in Marks
    BY <2>1 DEF MarkedAlike
  <2>3. o[i].kind = "impl" /\ p[i].previous = o[i].previous
    BY <1>4, <2>1, <2>2 DEF MarkedAlike
  <2>4. \A j \in 1..(i - 1) :
          p[j].kind = "impl" /\ p[j].test <=> o[j].kind = "impl" /\ o[j].test
    BY <1>0, <1>1, <2>1, <2>2 DEF Marks
  <2> QED BY <1>0, <2>1, <2>2, <2>3, <2>4 DEF TestImplBelow
<1> QED BY <1>2, <1>3, <1>4

LEMMA MarkedStep ==
  ASSUME TestInv, IsStack(open), IsStack(open'), MarkedAlike(open, open'),
         test_depth' = test_depth, test_file' = test_file, impl_ctx' = impl_ctx
  PROVE  TestInv'
<1>1. /\ TestMods(open') = TestMods(open)
      /\ TestImplBelow(open', Len(open') + 1) <=> TestImplBelow(open, Len(open) + 1)
      /\ \A i \in 1..Len(open') : open'[i].kind = "impl" =>
           /\ i \in 1..Len(open) /\ open[i].kind = "impl"
           /\ open'[i].previous = open[i].previous
           /\ TestImplBelow(open', i) <=> TestImplBelow(open, i)
  BY MarkedKeeps
<1>2. test_depth' = Cardinality(TestMods(open')) + (IF test_file' THEN 1 ELSE 0)
  BY <1>1 DEF TestInv
<1>3. impl_ctx'.is_test <=> TestImplBelow(open', Len(open') + 1)
  BY <1>1 DEF TestInv
<1>4. \A i \in 1..Len(open') : open'[i].kind = "impl" =>
        (open'[i].previous.is_test <=> TestImplBelow(open', i))
  BY <1>1 DEF TestInv
<1> QED BY <1>2, <1>3, <1>4 DEF TestInv

LEMMA TestInit == Init => TestInv
<1> SUFFICES ASSUME Init PROVE TestInv
  OBVIOUS
<1>1. open = << >> /\ Len(open) = 0 /\ test_depth = 0 /\ test_file = FALSE
      /\ impl_ctx = NoImpl
  BY DEF Init
<1>2. TestMods(open) = {}
  BY <1>1 DEF TestMods
<1>3. ~TestImplBelow(open, 1)
  BY DEF TestImplBelow
<1>4. Cardinality(TestMods(open)) = 0
  BY <1>2, FS_EmptySet
<1> QED BY <1>1, <1>3, <1>4 DEF TestInv, NoImpl

LEMMA TestBeginFile ==
  ASSUME TestInv, NEW t \in BOOLEAN, BeginFile(t)
  PROVE  TestInv'
<1>1. open' = << >> /\ Len(open') = 0 /\ test_depth' = (IF t THEN 1 ELSE 0) /\ test_file' = t
      /\ impl_ctx' = NoImpl
  BY DEF BeginFile, NewFile
<1>2. TestMods(open') = {}
  BY <1>1 DEF TestMods
<1>3. ~TestImplBelow(open', 1)
  BY DEF TestImplBelow
<1>4. Cardinality(TestMods(open')) = 0
  BY <1>2, FS_EmptySet
<1> QED BY <1>1, <1>3, <1>4 DEF TestInv, NoImpl

LEMMA TestStill ==
  ASSUME TestInv, UNCHANGED <<open, test_depth, test_file, impl_ctx>>
  PROVE  TestInv'
BY DEF TestInv

LEMMA TestPush ==
  ASSUME ContextInv, TestInv, NEW n, IsNode(n), n.kind \notin Marks, open' = Append(open, n),
         UNCHANGED <<test_depth, test_file, impl_ctx>>
  PROVE  TestInv'
<1>1. IsStack(open') /\ Agree(open, open', Marks)
  BY PushAgrees DEF ContextInv
<1> QED BY <1>1, AgreeMarked, MarkedStep DEF ContextInv

LEMMA TestPop ==
  ASSUME ContextInv, TestInv, open # << >>, Top.kind \notin Marks, open' = Below,
         UNCHANGED <<test_depth, test_file, impl_ctx>>
  PROVE  TestInv'
<1>1. IsStack(open') /\ Agree(open, open', Marks)
  BY PopAgrees DEF ContextInv, Below, Top
<1> QED BY <1>1, AgreeMarked, MarkedStep DEF ContextInv

LEMMA TestTop ==
  ASSUME ContextInv, TestInv, NEW n, open # << >>, IsNode(n),
         open' = [open EXCEPT ![Len(open)] = n],
         \/ Top.kind \notin Marks /\ n.kind \notin Marks
         \/ /\ n.kind = Top.kind /\ n.name = Top.name
            /\ n.contract = Top.contract /\ n.cut = Top.cut
            /\ n.previous = Top.previous /\ n.test = Top.test,
         UNCHANGED <<test_depth, test_file, impl_ctx>>
  PROVE  TestInv'
<1>1. IsStack(open') /\ Agree(open, open', Marks)
  BY TopAgrees DEF ContextInv, Top
<1> QED BY <1>1, AgreeMarked, MarkedStep DEF ContextInv

LEMMA TestEnterBody ==
  ASSUME ContextInv, TestInv, NEW n, NEW t, NEW a, EnterBody(n, t, a),
         UNCHANGED <<test_depth, test_file, impl_ctx>>
  PROVE  TestInv'
<1> DEFINE f == FnFrame(n, t)
<1>a. f.kind = "fn"
  BY DEF FnFrame, NodeOf
<1>b. IsNode(f)
  BY DEF FnFrame, NodeOf, IsNode
<1>1. CASE Skip
  BY <1>1, TestStill DEF EnterBody
<1>2. CASE ~Skip
  <2>1. open' = Append(open, f)
    BY <1>2 DEF EnterBody, Push
  <2> HIDE DEF f
  <2> QED BY <1>a, <1>b, <2>1, TestPush DEF Marks
<1> QED BY <1>1, <1>2

LEMMA TestCloseFn ==
  ASSUME ContextInv, TestInv, CloseFn
  PROVE  TestInv'
<1>1. UNCHANGED <<test_depth, test_file, impl_ctx>>
  BY DEF CloseFn, Kept
<1>2. /\ IsStack(open') /\ Len(open') = Len(open) - 1 /\ Len(open) \in Nat \ {0}
      /\ open[Len(open)].kind = "fn"
      /\ \A i \in 1..(Len(open) - 1) :
           /\ open'[i].kind = open[i].kind /\ open'[i].test = open[i].test
           /\ open'[i].previous = open[i].previous
  BY CutBelow DEF ContextInv
<1>3. MarkedAlike(open, open')
  <2> SUFFICES ASSUME NEW i \in Nat \ {0}
               PROVE  /\ i <= Len(open) /\ open[i].kind \in Marks =>
                           /\ i <= Len(open') /\ open'[i].kind = open[i].kind
                           /\ open'[i].previous = open[i].previous
                           /\ open'[i].test = open[i].test
                      /\ i <= Len(open') /\ open'[i].kind \in Marks =>
                           i <= Len(open) /\ open[i].kind \in Marks
    BY DEF MarkedAlike
  <2>1. i <= Len(open) /\ open[i].kind \in Marks => i \in 1..(Len(open) - 1)
    BY <1>2 DEF Marks
  <2>2. i <= Len(open') => i \in 1..(Len(open) - 1) /\ i <= Len(open)
    BY <1>2
  <2> QED BY <1>2, <2>1, <2>2
<1> QED BY <1>1, <1>2, <1>3, MarkedStep DEF ContextInv

(* What one more node does to the marks, and one less.                      *)
LEMMA MarksPushed ==
  ASSUME NEW o, NEW n, IsStack(o), IsNode(n)
  PROVE  LET p == Append(o, n)
             l == Len(o) + 1
         IN /\ Len(p) = l /\ l \in Nat \ {0} /\ l \notin TestMods(o) /\ p[l] = n
            /\ TestMods(o) \in SUBSET (1..Len(o)) /\ Len(o) \in Nat
            /\ \A i \in 1..Len(o) : p[i] = o[i]
            /\ TestMods(p) = IF n.kind = "mod" /\ n.test THEN TestMods(o) \cup {l}
                             ELSE TestMods(o)
            /\ \A i \in 1..l : TestImplBelow(p, i) <=> TestImplBelow(o, i)
            /\ TestImplBelow(p, l + 1) <=>
                 TestImplBelow(o, l) \/ (n.kind = "impl" /\ n.test)
<1> DEFINE p == Append(o, n)
           l == Len(o) + 1
<1>1. /\ Len(p) = l /\ Len(o) \in Nat /\ l \in Nat \ {0} /\ p[l] = n
      /\ \A i \in 1..(l - 1) : p[i] = o[i]
      /\ 1..Len(o) = 1..(l - 1)
  BY Pushed DEF IsStack, IsList
<1> HIDE DEF p
<1>2. /\ TestMods(p) = {i \in 1..l : p[i].kind = "mod" /\ p[i].test}
      /\ TestMods(o) = {i \in 1..(l - 1) : o[i].kind = "mod" /\ o[i].test}
  BY <1>1 DEF TestMods
<1> HIDE DEF l
<1>3. \A i \in 1..l : i = l \/ i \in 1..(l - 1)
  BY <1>1
<1>4. TestMods(p) = IF n.kind = "mod" /\ n.test THEN TestMods(o) \cup {l} ELSE TestMods(o)
  BY <1>1, <1>2, <1>3
<1>5. l \notin TestMods(o)
  BY <1>1, <1>2
<1>6. \A i \in 1..l : TestImplBelow(p, i) <=> TestImplBelow(o, i)
  BY <1>1 DEF TestImplBelow
<1>7. TestImplBelow(p, l + 1) <=> TestImplBelow(o, l) \/ (n.kind = "impl" /\ n.test)
  <2>1. (l + 1) - 1 = l /\ l \in 1..l
    BY <1>1
  <2> QED BY <1>1, <1>3, <2>1 DEF TestImplBelow
<1>8. TestMods(o) \in SUBSET (1..Len(o))
  BY DEF TestMods
<1> QED BY <1>1, <1>4, <1>5, <1>6, <1>7, <1>8 DEF p, l

LEMMA MarksPopped ==
  ASSUME NEW o, IsStack(o), o # << >>
  PROVE  LET p == SubSeq(o, 1, Len(o) - 1)
             l == Len(o)
         IN /\ Len(p) = l - 1 /\ l \in Nat \ {0}
            /\ TestMods(o) \in SUBSET (1..l)
            /\ \A i \in 1..(l - 1) : p[i] = o[i]
            /\ TestMods(p) = TestMods(o) \ {l}
            /\ l \in TestMods(o) <=> o[l].kind = "mod" /\ o[l].test
            /\ \A i \in 1..l : TestImplBelow(p, i) <=> TestImplBelow(o, i)
            /\ o[l].kind # "impl" => (TestImplBelow(o, l + 1) <=> TestImplBelow(o, l))
<1> DEFINE p == SubSeq(o, 1, Len(o) - 1)
           l == Len(o)
<1>1. /\ Len(p) = l - 1 /\ l \in Nat \ {0}
      /\ \A i \in 1..(l - 1) : p[i] = o[i]
  BY Popped
<1>2. /\ TestMods(p) = {i \in 1..(l - 1) : p[i].kind = "mod" /\ p[i].test}
      /\ TestMods(o) = {i \in 1..l : o[i].kind = "mod" /\ o[i].test}
  BY <1>1 DEF TestMods
<1> HIDE DEF l, p
<1>3. \A i \in 1..l : i = l \/ i \in 1..(l - 1)
  BY <1>1
<1>a. \A i \in 1..(l - 1) : i # l /\ i \in 1..l
  BY <1>1
<1>4. TestMods(p) = TestMods(o) \ {l}
  BY <1>1, <1>2, <1>3, <1>a
<1>5. l \in TestMods(o) <=> o[l].kind = "mod" /\ o[l].test
  BY <1>1, <1>2
<1>6. \A i \in 1..l : TestImplBelow(p, i) <=> TestImplBelow(o, i)
  BY <1>1 DEF TestImplBelow
<1>7. o[l].kind # "impl" => (TestImplBelow(o, l + 1) <=> TestImplBelow(o, l))
  <2>1. (l + 1) - 1 = l
    BY <1>1
  <2> QED BY <1>3, <1>a, <2>1 DEF TestImplBelow
<1>8. TestMods(o) \in SUBSET (1..l)
  BY <1>2
<1> QED BY <1>1, <1>4, <1>5, <1>6, <1>7, <1>8 DEF p, l

(* The depth of test modules stays far below the width of its field.        *)
LEMMA TestDepthSmall ==
  ASSUME ContextInv, DepthInv, TestInv
  PROVE  /\ test_depth \in Nat /\ test_depth <= MaxOpen + 1 /\ test_depth < Width
         /\ Len(open) < MaxOpen => test_depth + 1 < Width
<1>1. Len(open) \in Nat /\ Len(open) <= MaxOpen
  BY DEF ContextInv, IsStack, IsList, DepthInv, Counts
<1>2. TestMods(open) \in SUBSET (1..Len(open))
  BY DEF TestMods
<1>3. Cardinality(TestMods(open)) \in 0..Len(open)
  BY <1>1, <1>2, Counted
<1> QED BY <1>1, <1>3, BoundsAssumption DEF TestInv

LEMMA TestOpenMod ==
  ASSUME ContextInv, DepthInv, TestInv, NEW t \in BOOLEAN, OpenMod(t)
  PROVE  TestInv'
<1> DEFINE n == NodeOf("mod", NoName, NoName, t, 0, {})
           l == Len(open) + 1
<1>a. n.kind = "mod" /\ n.test = t
  BY DEF NodeOf
<1>b. IsNode(n)
  BY DEF NodeOf, IsNode
<1>1. /\ open' = Append(open, n) /\ Len(open) < MaxOpen
      /\ impl_ctx' = impl_ctx /\ test_file' = test_file
      /\ test_depth' = IF t THEN Up(test_depth) ELSE test_depth
  BY DEF OpenMod, Push, Kept, Room
<1> HIDE DEF n
<1>2. /\ Len(open') = l /\ l \in Nat \ {0} /\ l \notin TestMods(open) /\ open'[l] = n
      /\ TestMods(open) \in SUBSET (1..Len(open)) /\ Len(open) \in Nat
      /\ \A i \in 1..Len(open) : open'[i] = open[i]
      /\ TestMods(open') = IF t THEN TestMods(open) \cup {l} ELSE TestMods(open)
      /\ \A i \in 1..l : TestImplBelow(open', i) <=> TestImplBelow(open, i)
      /\ TestImplBelow(open', l + 1) <=> TestImplBelow(open, l)
  BY <1>a, <1>b, <1>1, MarksPushed DEF ContextInv
<1>3. test_depth' = Cardinality(TestMods(open')) + (IF test_file' THEN 1 ELSE 0)
  <2>1. CASE t
    <3>1. Cardinality(TestMods(open) \cup {l}) = Cardinality(TestMods(open)) + 1
      <4>1. IsFiniteSet(TestMods(open)) /\ l \notin TestMods(open)
        BY <1>2, Counted
      <4> HIDE DEF l
      <4> QED BY <4>1, FS_AddElement
    <3>2. Cardinality(TestMods(open)) \in Nat
      BY <1>2, Counted
    <3>3. test_depth' = test_depth + 1
      BY <1>1, <2>1, TestDepthSmall, Modular
    <3> QED BY <1>1, <1>2, <2>1, <3>1, <3>2, <3>3 DEF TestInv
  <2>2. CASE ~t
    BY <1>1, <1>2, <2>2 DEF TestInv
  <2> QED BY <2>1, <2>2
<1>4. impl_ctx'.is_test <=> TestImplBelow(open', l + 1)
  BY <1>1, <1>2 DEF TestInv
<1>5. ASSUME NEW i \in 1..l, open'[i].kind = "impl"
      PROVE  open'[i].previous.is_test <=> TestImplBelow(open', i)
  <2>1. i # l
    BY <1>2, <1>5, <1>a
  <2>2. i \in 1..Len(open) /\ open'[i] = open[i]
    BY <1>2, <2>1
  <2> QED BY <1>2, <1>5, <2>2 DEF TestInv
<1> QED BY <1>2, <1>3, <1>4, <1>5 DEF TestInv

LEMMA TestOpenImpl ==
  ASSUME ContextInv, TestInv, NEW f \in vocabulary.impls, OpenImpl(f)
  PROVE  TestInv'
<1> DEFINE n == NodeOf("impl", NoName, f.contract, f.is_test, 0, {})
           l == Len(open) + 1
<1>a. n.kind = "impl" /\ n.test = f.is_test /\ n.previous = impl_ctx
  BY DEF NodeOf
<1>b. IsNode(n)
  BY DEF NodeOf, IsNode
<1>1. /\ open' = Append(open, n) /\ test_depth' = test_depth /\ test_file' = test_file
      /\ impl_ctx' = [f EXCEPT !.is_test = @ \/ impl_ctx.is_test]
  BY DEF OpenImpl, Push, Kept
<1> HIDE DEF n
<1>c. impl_ctx'.is_test <=> f.is_test \/ impl_ctx.is_test
  <2>1. f \in ImplCtx
    BY VocabulariesAssumption DEF ContextInv
  <2> QED BY <1>1, <2>1 DEF ImplCtx
<1>2. /\ Len(open') = l /\ l \in Nat \ {0} /\ open'[l] = n /\ Len(open) \in Nat
      /\ \A i \in 1..Len(open) : open'[i] = open[i]
      /\ TestMods(open') = TestMods(open)
      /\ \A i \in 1..l : TestImplBelow(open', i) <=> TestImplBelow(open, i)
      /\ TestImplBelow(open', l + 1) <=> TestImplBelow(open, l) \/ n.test
  BY <1>a, <1>b, <1>1, MarksPushed DEF ContextInv
<1>3. test_depth' = Cardinality(TestMods(open')) + (IF test_file' THEN 1 ELSE 0)
  BY <1>1, <1>2 DEF TestInv
<1>4. impl_ctx'.is_test <=> TestImplBelow(open', l + 1)
  BY <1>a, <1>c, <1>2 DEF TestInv
<1>5. ASSUME NEW i \in 1..l, open'[i].kind = "impl"
      PROVE  open'[i].previous.is_test <=> TestImplBelow(open', i)
  <2>1. CASE i = l
    BY <1>2, <1>a, <2>1 DEF TestInv
  <2>2. CASE i # l
    <3>1. i \in 1..Len(open) /\ open'[i] = open[i]
      BY <1>2, <2>2
    <3> QED BY <1>2, <1>5, <3>1 DEF TestInv
  <2> QED BY <2>1, <2>2
<1> QED BY <1>2, <1>3, <1>4, <1>5 DEF TestInv

LEMMA TestClosed ==
  ASSUME ContextInv, DepthInv, TestInv, CloseMod \/ CloseImpl
  PROVE  TestInv'
<1> DEFINE l == Len(open)
<1>1. /\ open # << >> /\ open' = Below /\ test_file' = test_file
      /\ \/ /\ open[l].kind = "mod" /\ impl_ctx' = impl_ctx
            /\ test_depth' = IF open[l].test THEN Down(test_depth) ELSE test_depth
         \/ /\ open[l].kind = "impl" /\ impl_ctx' = open[l].previous
            /\ test_depth' = test_depth
  BY DEF CloseMod, CloseImpl, IsOpen, Kept, Top
<1>2. /\ Len(open') = l - 1 /\ l \in Nat \ {0}
      /\ TestMods(open) \in SUBSET (1..l)
      /\ \A i \in 1..(l - 1) : open'[i] = open[i]
      /\ TestMods(open') = TestMods(open) \ {l}
      /\ l \in TestMods(open) <=> open[l].kind = "mod" /\ open[l].test
      /\ \A i \in 1..l : TestImplBelow(open', i) <=> TestImplBelow(open, i)
      /\ open[l].kind # "impl" => (TestImplBelow(open, l + 1) <=> TestImplBelow(open, l))
  BY <1>1, MarksPopped DEF ContextInv, Below
<1> HIDE DEF l
<1>t. /\ test_depth = Cardinality(TestMods(open)) + (IF test_file THEN 1 ELSE 0)
      /\ impl_ctx.is_test <=> TestImplBelow(open, l + 1)
      /\ \A i \in 1..l : open[i].kind = "impl" =>
           (open[i].previous.is_test <=> TestImplBelow(open, i))
  BY DEF TestInv, l
<1>3. test_depth' = Cardinality(TestMods(open')) + (IF test_file' THEN 1 ELSE 0)
  <2>1. CASE l \in TestMods(open)
    <3>1. Cardinality(TestMods(open) \ {l}) = Cardinality(TestMods(open)) - 1
      BY <1>2, <2>1, Counted
    <3>2. Cardinality(TestMods(open)) \in Nat /\ Cardinality(TestMods(open)) # 0
      BY <1>2, <2>1, Counted
    <3>3. test_depth' = test_depth - 1
      BY <1>1, <1>2, <1>t, <2>1, <3>2, TestDepthSmall, Modular
    <3> QED BY <1>1, <1>2, <1>t, <3>1, <3>2, <3>3
  <2>2. CASE l \notin TestMods(open)
    <3>1. TestMods(open') = TestMods(open) /\ test_depth' = test_depth
      BY <1>1, <1>2, <2>2
    <3> QED BY <1>1, <1>t, <3>1
  <2> QED BY <2>1, <2>2
<1>4. impl_ctx'.is_test <=> TestImplBelow(open', l)
  <2>1. l \in 1..l
    BY <1>2
  <2> QED BY <1>1, <1>2, <1>t, <2>1
<1>5. ASSUME NEW i \in 1..(l - 1), open'[i].kind = "impl"
      PROVE  open'[i].previous.is_test <=> TestImplBelow(open', i)
  BY <1>2, <1>5, <1>t
<1>6. Len(open') + 1 = l
  BY <1>2
<1> QED BY <1>2, <1>3, <1>4, <1>5, <1>6 DEF TestInv

LEMMA TestOpened ==
  ASSUME ContextInv, TestInv,
         \/ \E k \in {"block", "trait_fn"} : OpenBlock(k)
         \/ OpenGuard("cond", FALSE) \/ \E w \in BOOLEAN : OpenGuard("guard", w)
  PROVE  TestInv'
<1>1. UNCHANGED <<test_depth, test_file, impl_ctx>>
  BY DEF OpenBlock, OpenGuard, Kept, fields
<1>2. PICK k \in {"block", "trait_fn", "cond", "guard"} : open' = Append(open, Node(k))
  BY DEF OpenBlock, OpenGuard, Push
<1>3. IsNode(Node(k)) /\ Node(k).kind \notin Marks
  BY NodesAreNodes DEF Marks
<1> QED BY <1>1, <1>2, <1>3, TestPush

LEMMA TestOpenLoop ==
  ASSUME ContextInv, TestInv, NEW k \in {"for", "while", "loop"}, NEW b, OpenLoop(k, b)
  PROVE  TestInv'
<1>1. UNCHANGED <<test_depth, test_file, impl_ctx>>
  BY DEF OpenLoop, Kept
<1>2. \A j \in {"iter", "loop"} : IsNode(LoopNode(j)) /\ LoopNode(j).kind \notin Marks
  BY LoopNodes DEF Marks
<1>3. CASE k # "while"
  <2>1. \E j \in {"iter", "loop"} : open' = Append(open, LoopNode(j))
    BY <1>3 DEF OpenLoop
  <2> QED BY <1>1, <1>2, <2>1, TestPush
<1>4. CASE k = "while"
  <2> DEFINE n == LoopNode("loop")
             m == Node("guard")
             o == Append(open, n)
  <2>1. open' = Append(o, m)
    BY <1>4 DEF OpenLoop
  <2>2. IsNode(n) /\ n.kind \notin Marks /\ IsNode(m) /\ m.kind \notin Marks
    BY <1>2, NodesAreNodes DEF Marks
  <2> HIDE DEF n, m
  <2>3. IsStack(o) /\ Agree(open, o, Marks)
    BY <2>2, PushAgrees DEF ContextInv
  <2> HIDE DEF o
  <2>4. IsStack(open') /\ Agree(o, open', Marks)
    BY <2>1, <2>2, <2>3, PushAgrees
  <2>5. MarkedAlike(open, o) /\ MarkedAlike(o, open')
    BY <2>3, <2>4, AgreeMarked
  <2>6. MarkedAlike(open, open')
    BY <2>5 DEF MarkedAlike
  <2> QED BY <1>1, <2>4, <2>6, MarkedStep DEF ContextInv
<1> QED BY <1>3, <1>4

LEMMA TestLeft ==
  ASSUME ContextInv, TestInv, CloseBlock \/ CloseLoop \/ CloseGuard \/ StartBody
  PROVE  TestInv'
<1>1. open # << >> /\ Top.kind \notin Marks /\ UNCHANGED <<test_depth, test_file, impl_ctx>>
  BY DEF CloseBlock, CloseLoop, CloseGuard, StartBody, IsOpen, Kept, Marks, Guarding
<1>2. \/ open' = Below
      \/ \E k \in {"block", "loop"} : open' = [open EXCEPT ![Len(open)].kind = k]
  BY DEF CloseBlock, CloseLoop, CloseGuard, StartBody
<1>3. ASSUME NEW k \in {"block", "loop"}, open' = [open EXCEPT ![Len(open)].kind = k]
      PROVE  TestInv'
  <2> DEFINE n == [Top EXCEPT !.kind = k]
  <2>1. open' = [open EXCEPT ![Len(open)] = n]
    BY <1>3 DEF Top
  <2>2. IsNode(n) /\ n.kind = k
    BY <1>1, TopIsNode, NodeOfKind
  <2> HIDE DEF n
  <2>3. n.kind \notin Marks
    BY <2>2 DEF Marks
  <2> QED BY <1>1, <2>1, <2>2, <2>3, TestTop
<1> QED BY <1>1, <1>2, <1>3, TestPop

LEMMA TestRebinds ==
  ASSUME ContextInv, TestInv, Rebinds
  PROVE  TestInv'
<1>1. PICK w : open' = [open EXCEPT ![Len(open)] = [Top EXCEPT !.names = w]]
  BY Rebound
<1> DEFINE n == [Top EXCEPT !.names = w]
<1>2. open # << >> /\ UNCHANGED <<test_depth, test_file, impl_ctx>>
  BY DEF Rebinds, IsOpen
<1>3. open' = [open EXCEPT ![Len(open)] = n]
  BY <1>1
<1>4. /\ IsNode(n) /\ n.kind = Top.kind /\ n.name = Top.name /\ n.contract = Top.contract
      /\ n.cut = Top.cut /\ n.previous = Top.previous /\ n.test = Top.test
  <2>1. IsNode(Top)
    BY <1>2, TopIsNode
  <2> QED BY <2>1, NodeWithNames
<1> HIDE DEF n
<1> QED BY <1>2, <1>3, <1>4, TestTop

LEMMA TestNext == ContextInv /\ DepthInv /\ TestInv /\ [Next]_vars => TestInv'
<1> SUFFICES ASSUME ContextInv, DepthInv, TestInv, [Next]_vars PROVE TestInv'
  OBVIOUS
<1>1. CASE \E t \in BOOLEAN : BeginFile(t) \/ OpenMod(t)
  BY <1>1, TestBeginFile, TestOpenMod
<1>2. CASE \E i \in vocabulary.impls : OpenImpl(i)
  BY <1>2, TestOpenImpl
<1>3. CASE \E n \in vocabulary.names, t, a \in BOOLEAN : OpenFn(n, t, a)
  BY <1>3, TestEnterBody DEF OpenFn, Kept
<1>4. CASE \E n \in vocabulary.names, p, r, t, a \in BOOLEAN : OpenMethod(n, p, r, t, a)
  BY <1>4, TestEnterBody DEF OpenMethod, Kept
<1>5. CASE CloseMod \/ CloseImpl
  BY <1>5, TestClosed
<1>6. CASE CloseFn
  BY <1>6, TestCloseFn
<1>7. CASE \/ \E k \in {"block", "trait_fn"} : OpenBlock(k)
           \/ OpenGuard("cond", FALSE) \/ \E w \in BOOLEAN : OpenGuard("guard", w)
  BY <1>7, TestOpened
<1>8. CASE (\E k \in Ident, v \in Bound : Let(k, v)) \/ \E k \in Ident : BindPattern(k)
  BY <1>8, BindingStep, TestRebinds
<1>9. CASE \E k \in {"for", "while", "loop"}, b \in BOOLEAN : OpenLoop(k, b)
  BY <1>9, TestOpenLoop
<1>10. CASE CloseBlock \/ CloseLoop \/ CloseGuard \/ StartBody
  BY <1>10, TestLeft
<1>11. CASE \/ \E c \in ContractName : DeclareContract(c)
            \/ \E c \in vocabulary.chains, k \in KeyExpr : VisitChain(c, k)
            \/ \E e \in vocabulary.operations : VisitExpr(e)
            \/ \E n \in vocabulary.names, m \in BOOLEAN : VisitCall(n, m)
            \/ Finish
            \/ UNCHANGED vars
  <2>1. UNCHANGED <<open, test_depth, test_file, impl_ctx>>
    BY <1>11 DEF DeclareContract, VisitChain, VisitExpr, VisitCall, Finish, vars, fields, Kept
  <2> QED BY <2>1, TestStill
<1> QED BY <1>1, <1>2, <1>3, <1>4, <1>5, <1>6, <1>7, <1>8, <1>9, <1>10, <1>11
     DEF Next, Items, Statements

(* What is skipped is what stands in test code.                             *)
LEMMA SkipIs ==
  ASSUME ContextInv, TestInv
  PROVE  Skip <=> ~include_tests /\ Place(open).test_scope
<1>1. Len(open) \in Nat /\ DOMAIN open = 1..Len(open)
  BY StackType DEF ContextInv, IsStack, IsList
<1>2. TestMods(open) \in SUBSET (1..Len(open))
  BY DEF TestMods
<1>3. /\ Cardinality(TestMods(open)) \in Nat
      /\ Cardinality(TestMods(open)) = 0 <=> TestMods(open) = {}
  BY <1>1, <1>2, Counted
<1>4. test_depth > 0 <=> test_file \/ TestMods(open) # {}
  BY <1>3 DEF TestInv
<1>5. impl_ctx.is_test <=> \E j \in 1..Len(open) : open[j].kind = "impl" /\ open[j].test
  <2>1. (Len(open) + 1) - 1 = Len(open)
    BY <1>1
  <2> QED BY <2>1 DEF TestInv, TestImplBelow
<1>6. Place(open).test_scope <=>
        test_file \/ \E i \in 1..Len(open) : open[i].kind \in {"mod", "impl"} /\ open[i].test
  BY <1>1 DEF Place
<1> QED BY <1>4, <1>5, <1>6 DEF Skip, TestMods

--------------------------------------------------------------------------
(* What the sites say of their surroundings.                                *)
Lexical(s) == s.function # NoName => s.in_loop = s.at.loop /\ s.guarded = s.at.guard

LexicalLoop(l) ==
  {"function", "in_loop", "at"} \subseteq DOMAIN l /\ (l.function # NoName => l.in_loop = l.at.loop)
LexicalLoopsInv == \A i \in 1..Len(loops) : LexicalLoop(loops[i])

(* In a function the depths say what is open in it.                         *)
LEMMA PlaceDepth ==
  ASSUME ContextInv, DepthInv, function.name # NoName
  PROVE  /\ (loop_depth > 0) = Place(open).loop
         /\ (guarded_depth > 0) = Place(open).guard
<1>1. Inside(open)
  <2>1. Context(open).name # NoName
    BY DEF ContextInv
  <2> QED BY <2>1 DEF Context, NoFunction, Inside
<1>2. loop_depth = Depth(open, {"loop"}) /\ guarded_depth = Depth(open, Guarding)
  BY <1>1 DEF DepthInv, Counts
<1>3. \A K : Depth(open, K) > 0 <=> Above(open, K) # {}
  BY AboveCounted DEF ContextInv
<1>4. \A K : Above(open, K) # {} <=> Within(open, K)
  BY DEF Above, Within
<1>5. Place(open).loop = Within(open, {"loop"}) /\ Place(open).guard = Within(open, Guarding)
  BY DEF Place
<1>6. (loop_depth > 0) <=> Within(open, {"loop"})
  BY <1>2, <1>3, <1>4
<1>7. (guarded_depth > 0) <=> Within(open, Guarding)
  BY <1>2, <1>3, <1>4
<1>8. \A K : Within(open, K) \in BOOLEAN
  BY DEF Within
<1>9. (loop_depth > 0) = Within(open, {"loop"})
  BY <1>6, <1>8
<1>10. (guarded_depth > 0) = Within(open, Guarding)
  BY <1>7, <1>8
<1> QED BY <1>5, <1>9, <1>10

LEMMA SiteOfLexical ==
  ASSUME ContextInv, DepthInv, NEW v, NEW p, NEW w, NEW k, NEW m
  PROVE  Lexical(SiteOf(v, p, w, guarded_depth > 0, k, m))
<1> DEFINE s == SiteOf(v, p, w, guarded_depth > 0, k, m)
<1>1. /\ s.function = function.name /\ s.at = Place(open)
      /\ s.in_loop = (loop_depth > 0)
  BY DEF SiteOf
<1>2. s.guarded = (guarded_depth > 0)
  BY DEF SiteOf
<1> HIDE DEF s
<1>3. Lexical(s)
  BY <1>1, <1>2, PlaceDepth DEF Lexical
<1> QED BY <1>3 DEF s

LEMMA ChainSiteLexical ==
  ASSUME ContextInv, DepthInv, NEW c, NEW key, NEW i, NEW v
  PROVE  /\ Lexical(ChainSite(c, key, i, v))
         /\ ChainSite(c, key, i, v).at.test_scope = Place(open).test_scope
<1> DEFINE s == ChainSite(c, key, i, v)
           g == GuardedInside(c, i)
<1>1. PICK w, k, m :
        s = [SiteOf(v, i, w, guarded_depth > 0 \/ g, k, m) EXCEPT !.at.guard = @ \/ g]
  BY DEF ChainSite
<1> DEFINE t == SiteOf(v, i, w, guarded_depth > 0 \/ g, k, m)
<1>2. /\ t.function = function.name /\ t.at = Place(open)
      /\ {"function", "in_loop", "guarded", "at"} \subseteq DOMAIN t
  BY DEF SiteOf
<1>a. t.in_loop = (loop_depth > 0)
  BY DEF SiteOf
<1>b. t.guarded = (guarded_depth > 0 \/ g)
  BY DEF SiteOf
<1>c. {"loop", "guard", "test_scope"} \subseteq DOMAIN Place(open)
  BY DEF Place
<1> HIDE DEF s, t, g
<1>3. s = [t EXCEPT !.at.guard = @ \/ g]
  BY <1>1 DEF t
<1>4. s.function = t.function /\ s.in_loop = t.in_loop /\ s.guarded = t.guarded
  BY <1>2, <1>3
<1>5. s.at = [Place(open) EXCEPT !.guard = @ \/ g]
  BY <1>2, <1>3
<1>6. /\ s.at.loop = Place(open).loop
      /\ s.at.test_scope = Place(open).test_scope
  BY <1>c, <1>5
<1>7. s.at.guard = (Place(open).guard \/ g)
  BY <1>c, <1>5
<1>8. ASSUME s.function # NoName PROVE s.in_loop = s.at.loop /\ s.guarded = s.at.guard
  <2>1. (loop_depth > 0) = Place(open).loop /\ (guarded_depth > 0) = Place(open).guard
    BY <1>2, <1>4, <1>8, PlaceDepth
  <2>2. s.in_loop = s.at.loop
    BY <1>a, <1>4, <1>6, <2>1
  <2>3. s.guarded = s.at.guard
    BY <1>b, <1>4, <1>7, <2>1
  <2> QED BY <2>2, <2>3
<1> QED BY <1>6, <1>8 DEF s, Lexical

LEMMA FrameOpened ==
  ASSUME ContextInv, NEW n, NEW t
  PROVE  LET p == Place(Append(open, FnFrame(n, t)))
         IN /\ p.loop = FALSE /\ p.guard = FALSE
            /\ p.test_scope <=> Place(open).test_scope
<1> DEFINE f == FnFrame(n, t)
           l == Len(open) + 1
           o == Append(open, f)
<1>a. f.kind = "fn"
  BY DEF FnFrame, NodeOf
<1>b. IsNode(f)
  BY DEF FnFrame, NodeOf, IsNode
<1> HIDE DEF f
<1>1. /\ IsStack(o) /\ Len(o) = l /\ l \in Nat \ {0} /\ o[l] = f
      /\ Len(open) \in Nat /\ \A i \in 1..Len(open) : o[i] = open[i]
  BY <1>b, Pushed DEF ContextInv, IsStack, IsList
<1>2. DOMAIN o = 1..l /\ DOMAIN open = 1..Len(open)
  BY <1>1, StackType DEF ContextInv
<1> HIDE DEF o
<1>3. FnNode(o) = l
  BY <1>a, <1>1, FnNodeIs
<1>4. \A K : Within(o, K) = FALSE
  BY <1>1, <1>3 DEF Within
<1>5. Place(o).loop = Within(o, {"loop"}) /\ Place(o).guard = Within(o, Guarding)
  BY DEF Place
<1>6. Place(o).test_scope <=>
        test_file \/ \E i \in 1..l : o[i].kind \in {"mod", "impl"} /\ o[i].test
  BY <1>2 DEF Place
<1>7. Place(open).test_scope <=>
        test_file \/ \E i \in 1..Len(open) : open[i].kind \in {"mod", "impl"} /\ open[i].test
  BY <1>2 DEF Place
<1>8. \A i \in 1..l : i = l \/ i \in 1..Len(open)
  BY <1>1
<1>9. \A i \in 1..Len(open) : i \in 1..l
  BY <1>1
<1>10. Place(o).test_scope <=> Place(open).test_scope
  BY <1>a, <1>1, <1>6, <1>7, <1>8, <1>9
<1> QED BY <1>4, <1>5, <1>10 DEF o, f

LEMMA AttributeSiteLexical ==
  ASSUME ContextInv, NEW f, NEW n, NEW t
  PROVE  /\ Lexical(AttributeSite(f, FnFrame(n, t)))
         /\ AttributeSite(f, FnFrame(n, t)).at.test_scope <=> Place(open).test_scope
<1> DEFINE s == AttributeSite(f, FnFrame(n, t))
           p == Place(Append(open, FnFrame(n, t)))
<1>1. s.in_loop = FALSE /\ s.guarded = FALSE /\ s.at = p
  BY DEF AttributeSite
<1>2. p.loop = FALSE /\ p.guard = FALSE /\ (p.test_scope <=> Place(open).test_scope)
  BY FrameOpened
<1> HIDE DEF s, p
<1>3. Lexical(s) /\ (s.at.test_scope <=> Place(open).test_scope)
  BY <1>1, <1>2 DEF Lexical
<1> QED BY <1>3 DEF s

LEMMA OptionKept == [Next]_vars => include_tests' = include_tests
<1> SUFFICES ASSUME [Next]_vars PROVE include_tests' = include_tests
  OBVIOUS
<1>1. CASE Items
  BY <1>1 DEF Items, BeginFile, OpenMod, DeclareContract, OpenImpl, CloseMod, CloseImpl,
       CloseFn, OpenFn, OpenMethod, Kept
<1>2. CASE Statements
  BY <1>2 DEF Statements, OpenBlock, Let, BindPattern, VisitChain, VisitExpr, VisitCall, OpenGuard,
       OpenLoop, CloseBlock, CloseGuard, StartBody, CloseLoop, Kept
<1>3. CASE Finish \/ UNCHANGED vars
  BY <1>3 DEF Finish, vars
<1> QED BY <1>1, <1>2, <1>3 DEF Next

Silent(s) == include_tests \/ ~s.at.test_scope
SoundInv == \A s \in sites : Lexical(s) /\ Silent(s)
EntriesInv == \A e \in entrypoints : Silent(e)
EdgesInv ==
  \A e \in call_graph : \E u \in uttered :
    e = <<u.at.fn, u.callee>> /\ Silent(u) /\ ~u.at.cut

LEMMA SilentHere ==
  ASSUME ContextInv, TestInv, ~Skip, NEW s, s.at.test_scope <=> Place(open).test_scope
  PROVE  Silent(s)
BY SkipIs DEF Silent

LEMMA SoundAdded ==
  ASSUME SoundInv, include_tests' = include_tests, NEW New, sites' \subseteq sites \cup New,
         \A s \in New : Lexical(s) /\ Silent(s)
  PROVE  SoundInv'
BY DEF SoundInv, Lexical, Silent

LEMMA SoundKept ==
  ASSUME SoundInv, include_tests' = include_tests, sites' \subseteq sites
  PROVE  SoundInv'
BY DEF SoundInv, Lexical, Silent

LEMMA SoundOne ==
  ASSUME SoundInv, include_tests' = include_tests, NEW s, sites' \subseteq sites \cup {s},
         Lexical(s), Silent(s)
  PROVE  SoundInv'
BY DEF SoundInv, Lexical, Silent

LEMMA SoundEnterBody ==
  ASSUME ContextInv, TestInv, SoundInv, include_tests' = include_tests,
         NEW n, NEW t, NEW a \in BOOLEAN, EnterBody(n, t, a)
  PROVE  SoundInv'
<1> DEFINE new == AttributeSite(function', FnFrame(n, t))
<1>1. CASE Skip
  <2>1. sites' = sites
    BY <1>1 DEF EnterBody
  <2> QED BY <2>1, SoundKept
<1>2. CASE ~Skip
  <2>1. sites' \subseteq sites \cup {new}
    BY <1>2 DEF EnterBody
  <2>2. Lexical(new) /\ (new.at.test_scope <=> Place(open).test_scope)
    BY AttributeSiteLexical
  <2> HIDE DEF new
  <2>3. Silent(new)
    BY <1>2, <2>2, SilentHere
  <2> QED BY <2>1, <2>2, <2>3, SoundOne
<1> QED BY <1>1, <1>2

LEMMA SoundHere ==
  ASSUME ContextInv, DepthInv, TestInv, ~Skip, NEW v, NEW p, NEW w, NEW k, NEW m
  PROVE  LET s == SiteOf(v, p, w, guarded_depth > 0, k, m) IN Lexical(s) /\ Silent(s)
<1> DEFINE s == SiteOf(v, p, w, guarded_depth > 0, k, m)
<1>1. s.at = Place(open)
  BY DEF SiteOf
<1>2. Lexical(s)
  BY SiteOfLexical
<1> HIDE DEF s
<1>3. Silent(s)
  BY <1>1, SilentHere
<1> QED BY <1>2, <1>3 DEF s

LEMMA SoundNext ==
  ContextInv /\ DepthInv /\ TestInv /\ SoundInv /\ [Next]_vars => SoundInv'
<1> SUFFICES ASSUME ContextInv, DepthInv, TestInv, SoundInv, [Next]_vars PROVE SoundInv'
  OBVIOUS
<1>0. include_tests' = include_tests
  BY OptionKept
<1>1. CASE \E n \in vocabulary.names, t, a \in BOOLEAN : OpenFn(n, t, a)
  BY <1>0, <1>1, SoundEnterBody DEF OpenFn
<1>2. CASE \E n \in vocabulary.names, p, r, t, a \in BOOLEAN : OpenMethod(n, p, r, t, a)
  BY <1>0, <1>2, SoundEnterBody DEF OpenMethod
<1>3. CASE \E c \in vocabulary.chains, k \in KeyExpr : VisitChain(c, k)
  <2>1. PICK c \in vocabulary.chains, k \in KeyExpr : VisitChain(c, k)
    BY <1>3
  <2> DEFINE New == IF Skip THEN {} ELSE ChainSites(c, k)
  <2>2. \A s \in New : Lexical(s) /\ Silent(s)
    <3>1. CASE Skip
      BY <3>1
    <3>2. ASSUME ~Skip, NEW i, NEW vec
          PROVE  Lexical(ChainSite(c, k, i, vec)) /\ Silent(ChainSite(c, k, i, vec))
      <4> DEFINE s == ChainSite(c, k, i, vec)
      <4>1. Lexical(s) /\ s.at.test_scope = Place(open).test_scope
        BY ChainSiteLexical
      <4> HIDE DEF s
      <4>2. Silent(s)
        BY <3>2, <4>1, SilentHere
      <4> QED BY <4>1, <4>2 DEF s
    <3> QED BY <3>1, <3>2 DEF ChainSites
  <2>3. sites' \subseteq sites \cup New
    BY <2>1 DEF VisitChain
  <2> HIDE DEF New
  <2> QED BY <1>0, <2>2, <2>3, SoundAdded
<1>4. CASE \E e \in vocabulary.operations : VisitExpr(e)
  <2>1. PICK e \in vocabulary.operations : VisitExpr(e)
    BY <1>4
  <2> DEFINE New == IF Skip THEN {}
                    ELSE {SiteOf(vec, 0, WhatExpr(e), guarded_depth > 0, NoKey, Meaning(NoKey)) :
                            vec \in RecordedExpr(e)}
  <2>2. \A s \in New : Lexical(s) /\ Silent(s)
    BY SoundHere
  <2>3. sites' \subseteq sites \cup New
    BY <2>1 DEF VisitExpr
  <2> HIDE DEF New
  <2> QED BY <1>0, <2>2, <2>3, SoundAdded
<1>5. CASE OpenGuard("cond", FALSE) \/ \E w \in BOOLEAN : OpenGuard("guard", w)
  <2> DEFINE s == SiteOf("arithmetic", 0, WrappingCall, guarded_depth > 0, NoKey, Meaning(NoKey))
  <2>1. ~Skip => Lexical(s) /\ Silent(s)
    BY SoundHere
  <2>2. \/ sites' \subseteq sites
        \/ ~Skip /\ sites' \subseteq sites \cup {s}
    BY <1>5 DEF OpenGuard
  <2> HIDE DEF s
  <2> QED BY <1>0, <2>1, <2>2, SoundKept, SoundOne
<1>6. CASE sites' = sites
  BY <1>0, <1>6, SoundKept
<1> QED
  <2>1. ASSUME ~(sites' = sites)
        PROVE  \/ \E n \in vocabulary.names, t, a \in BOOLEAN : OpenFn(n, t, a)
               \/ \E n \in vocabulary.names, p, r, t, a \in BOOLEAN : OpenMethod(n, p, r, t, a)
               \/ \E c \in vocabulary.chains, k \in KeyExpr : VisitChain(c, k)
               \/ \E e \in vocabulary.operations : VisitExpr(e)
               \/ OpenGuard("cond", FALSE) \/ \E w \in BOOLEAN : OpenGuard("guard", w)
    BY <2>1, SitesChange
  <2> QED BY <1>1, <1>2, <1>3, <1>4, <1>5, <1>6, <2>1

LEMMA LexicalLoopsNext ==
  ContextInv /\ DepthInv /\ LoopsInv /\ LexicalLoopsInv /\ [Next]_vars => LexicalLoopsInv'
<1> SUFFICES ASSUME ContextInv, DepthInv, LoopsInv, LexicalLoopsInv, [Next]_vars
             PROVE  LexicalLoopsInv'
  OBVIOUS
<1>1. ASSUME NEW b, loops' = Append(loops, LoopHere(b)) PROVE LexicalLoopsInv'
  <2> DEFINE l == LoopHere(b)
  <2>1. /\ l.function = function.name /\ l.at = Place(open)
        /\ {"function", "in_loop", "at"} \subseteq DOMAIN l
    BY DEF LoopHere
  <2>a. l.in_loop = (loop_depth > 0)
    BY DEF LoopHere
  <2>2. loops' = Append(loops, l)
    BY <1>1
  <2> HIDE DEF l
  <2>3. LexicalLoop(l)
    BY <2>1, <2>a, PlaceDepth DEF LexicalLoop
  <2>4. /\ Len(loops') = Len(loops) + 1 /\ Len(loops) \in Nat
        /\ \A i \in 1..Len(loops) : loops'[i] = loops[i]
        /\ loops'[Len(loops) + 1] = l
    BY <2>2, Appended DEF LoopsInv, IsList
  <2>5. ASSUME NEW i \in 1..(Len(loops) + 1) PROVE LexicalLoop(loops'[i])
    <3>1. CASE i \in 1..Len(loops)
      BY <2>4, <3>1 DEF LexicalLoopsInv
    <3>2. CASE i = Len(loops) + 1
      BY <2>3, <2>4, <3>2
    <3> QED BY <2>4, <3>1, <3>2
  <2> QED BY <2>4, <2>5 DEF LexicalLoopsInv
<1>2. CASE CloseLoop
  <2> DEFINE k == Top.index
             ops == Since("storage_ops")
             calls == Since("calls")
             n == [loops[k] EXCEPT !.storage_ops = ops, !.contract_calls = calls, !.closed = TRUE]
  <2>1. loops' = [loops EXCEPT ![k] = n]
    BY <1>2 DEF CloseLoop
  <2>2. /\ Len(loops) \in Nat /\ DOMAIN loops = 1..Len(loops)
        /\ DOMAIN loops' = 1..Len(loops')
    <3>1. IsList(loops) /\ IsList(loops')
      BY <1>2, LoopsClosed DEF LoopsInv
    <3> QED BY <3>1, ListType DEF IsList
  <2>3. ASSUME LexicalLoop(loops[k]) PROVE LexicalLoop(n)
    <3> DEFINE l == loops[k]
    <3> HIDE DEF ops, calls, k
    <3>1. /\ {"function", "in_loop", "at"} \subseteq DOMAIN n
          /\ n.function = l.function /\ n.in_loop = l.in_loop /\ n.at = l.at
      BY <2>3 DEF LexicalLoop
    <3> HIDE DEF n, l
    <3> QED BY <2>3, <3>1 DEF LexicalLoop, l
  <2> HIDE DEF n, k
  <2>4. \A i \in 1..Len(loops) : loops'[i] = IF i = k THEN n ELSE loops[i]
    BY <2>1, <2>2
  <2>5. DOMAIN loops' = 1..Len(loops)
    BY <2>1, <2>2
  <2>6. ASSUME NEW i \in 1..Len(loops') PROVE LexicalLoop(loops'[i])
    <3>1. i \in 1..Len(loops)
      BY <2>2, <2>5
    <3> QED BY <2>3, <2>4, <3>1 DEF LexicalLoopsInv
  <2> QED BY <2>6 DEF LexicalLoopsInv
<1>3. CASE loops' = loops
  BY <1>3 DEF LexicalLoopsInv
<1>4. ASSUME ~(loops' = loops)
      PROVE  CloseLoop \/ \E k \in {"for", "while", "loop"}, b \in BOOLEAN : OpenLoop(k, b)
  BY <1>4, LoopsChange
<1> QED BY <1>1, <1>2, <1>3, <1>4 DEF OpenLoop

LEMMA EntriesNext ==
  ContextInv /\ TestInv /\ EntriesInv /\ [Next]_vars => EntriesInv'
<1> SUFFICES ASSUME ContextInv, TestInv, EntriesInv, [Next]_vars PROVE EntriesInv'
  OBVIOUS
<1>0. include_tests' = include_tests
  BY OptionKept
<1>1. CASE \E n \in vocabulary.names, p, r, t, a \in BOOLEAN : OpenMethod(n, p, r, t, a)
  <2>1. PICK n \in vocabulary.names, p \in BOOLEAN, r \in BOOLEAN, t \in BOOLEAN,
             a \in BOOLEAN : OpenMethod(n, p, r, t, a)
    BY <1>1
  <2> DEFINE pl == Place(Append(open, FnFrame(n, t)))
             e == [name |-> n, contract |-> impl_ctx.contract, id |-> <<clock, 0>>, at |-> pl]
  <2>2. \/ entrypoints' = entrypoints
        \/ ~Skip /\ entrypoints' = entrypoints \cup {e}
    BY <2>1 DEF OpenMethod
  <2>3. e.at = pl /\ (pl.test_scope <=> Place(open).test_scope)
    BY FrameOpened
  <2> HIDE DEF e, pl
  <2>4. ~Skip => Silent(e)
    BY <2>3, SilentHere
  <2> QED BY <1>0, <2>2, <2>4 DEF EntriesInv, Silent
<1>2. CASE entrypoints' = entrypoints
  BY <1>0, <1>2 DEF EntriesInv, Silent
<1>3. ASSUME ~(entrypoints' = entrypoints)
      PROVE  \E n \in vocabulary.names, p, r, t, a \in BOOLEAN : OpenMethod(n, p, r, t, a)
  <2>1. CASE Items
    BY <1>3, <2>1 DEF Items, BeginFile, OpenMod, DeclareContract, OpenImpl, CloseMod,
         CloseImpl, CloseFn, OpenFn, vectors
  <2>2. CASE Statements
    BY <1>3, <2>2 DEF Statements, OpenBlock, Let, BindPattern, VisitChain, VisitExpr, VisitCall, OpenGuard,
         OpenLoop, CloseBlock, CloseGuard, StartBody, CloseLoop, vectors
  <2>3. CASE Finish \/ UNCHANGED vars
    BY <1>3, <2>3 DEF Finish, vars, vectors
  <2> QED BY <1>3, <2>1, <2>2, <2>3 DEF Next
<1> QED BY <1>1, <1>2, <1>3

LEMMA EdgesNext ==
  ContextInv /\ TestInv /\ EdgesInv /\ [Next]_vars => EdgesInv'
<1> SUFFICES ASSUME ContextInv, TestInv, EdgesInv, [Next]_vars PROVE EdgesInv'
  OBVIOUS
<1>0. include_tests' = include_tests
  BY OptionKept
<1>1. CASE \E n \in vocabulary.names, m \in BOOLEAN : VisitCall(n, m)
  <2>1. PICK n \in vocabulary.names, m \in BOOLEAN : VisitCall(n, m)
    BY <1>1
  <2> DEFINE u == [callee |-> n, in_module |-> m, at |-> Place(open)]
             e == <<function.name, n>>
  <2>2. /\ uttered' = uttered \cup {u} /\ u.callee = n /\ u.at = Place(open)
        /\ \/ call_graph' = call_graph
           \/ ~Skip /\ function.name # NoName /\ call_graph' = call_graph \cup {e}
    BY <2>1 DEF VisitCall, Edge
  <2> HIDE DEF u
  <2>3. ASSUME ~Skip, function.name # NoName PROVE e = <<u.at.fn, u.callee>> /\ Silent(u) /\ ~u.at.cut
    <3>1. Context(open).name # NoName
      BY <2>3 DEF ContextInv
    <3>2. ~Place(open).cut
      BY <3>1, PlaceOf DEF ContextInv, Context, NoFunction
    <3>3. Place(open).fn = function.name
      BY <3>2, PlaceOf DEF ContextInv
    <3> QED BY <2>2, <2>3, <3>2, <3>3, SilentHere
  <2> HIDE DEF e
  <2>4. ASSUME NEW x \in call_graph'
        PROVE  \E y \in uttered' : x = <<y.at.fn, y.callee>> /\ Silent(y) /\ ~y.at.cut
    <3>1. CASE x \in call_graph
      BY <2>2, <3>1 DEF EdgesInv
    <3>2. CASE x \notin call_graph
      <4>1. x = e /\ ~Skip /\ function.name # NoName
        BY <2>2, <2>4, <3>2
      <4>2. u \in uttered'
        BY <2>2
      <4> QED BY <2>3, <4>1, <4>2
    <3> QED BY <3>1, <3>2
  <2> QED BY <1>0, <2>4 DEF EdgesInv, Silent
<1>2. CASE call_graph' = call_graph /\ uttered' = uttered
  BY <1>0, <1>2 DEF EdgesInv, Silent
<1>3. ASSUME ~(call_graph' = call_graph /\ uttered' = uttered)
      PROVE  \E n \in vocabulary.names, m \in BOOLEAN : VisitCall(n, m)
  <2>1. CASE Items
    BY <1>3, <2>1 DEF Items, BeginFile, OpenMod, DeclareContract, OpenImpl, CloseMod,
         CloseImpl, CloseFn, OpenFn, OpenMethod, vectors
  <2>2. CASE Statements
    BY <1>3, <2>2 DEF Statements, OpenBlock, Let, BindPattern, VisitChain, VisitExpr, OpenGuard,
         OpenLoop, CloseBlock, CloseGuard, StartBody, CloseLoop, vectors
  <2>3. CASE Finish \/ UNCHANGED vars
    BY <1>3, <2>3 DEF Finish, vars, vectors
  <2> QED BY <1>3, <2>1, <2>2, <2>3 DEF Next
<1> QED BY <1>1, <1>2, <1>3

--------------------------------------------------------------------------
(* What the detectors read off a site of a function is lexical: in_loop     *)
(* says whether a loop of that function is open around it and guarded       *)
(* whether a condition or a checked operation of that function is, for      *)
(* trees of any shape within the range of a counter.                        *)
THEOREM SiteContextIsLexical == Spec => []SiteContextLexical
<1> DEFINE Inv == /\ ContextInv /\ DepthInv /\ TestInv /\ SoundInv
                  /\ LoopsInv /\ LexicalLoopsInv
<1>1. Init => Inv
  <2>1. Init => SoundInv /\ LexicalLoopsInv
    <3>1. Init => sites = {} /\ loops = << >> /\ Len(loops) = 0
      BY DEF Init
    <3> QED BY <3>1 DEF SoundInv, LexicalLoopsInv
  <2> QED BY <2>1, ContextInit, DepthInit, TestInit, RecordedInit
<1>2. Inv /\ [Next]_vars => Inv'
  BY ContextNext, DepthNext, TestNext, SoundNext, LoopsNext, LexicalLoopsNext
<1>3. Inv => SiteContextLexical
  <2> SUFFICES ASSUME Inv PROVE SiteContextLexical
    OBVIOUS
  <2>1. \A s \in sites : s.function # NoName => s.in_loop = s.at.loop /\ s.guarded = s.at.guard
    BY DEF SoundInv, Lexical
  <2>2. \A s \in {loops[i] : i \in DOMAIN loops} : s.function # NoName => s.in_loop = s.at.loop
    <3>1. DOMAIN loops = 1..Len(loops)
      BY ListType DEF LoopsInv
    <3> QED BY <3>1 DEF LexicalLoopsInv, LexicalLoop
  <2> QED BY <2>1, <2>2 DEF SiteContextLexical, Recordings
<1> QED BY <1>1, <1>2, <1>3, PTL DEF Spec

(* Without include_tests nothing of a test-only file, module or impl block  *)
(* reaches the vectors, the entrypoints or the graph, whatever is nested in *)
(* whatever: the counter and the flag are back where they were when a       *)
(* module or an impl block of tests is left, and not before.                *)
THEOREM TestCodeIsSilent == Spec => []TestCodeSilent
<1> DEFINE Inv == /\ ContextInv /\ DepthInv /\ TestInv /\ SoundInv
                  /\ EntriesInv /\ EdgesInv
<1>1. Init => Inv
  <2>1. Init => SoundInv /\ EntriesInv /\ EdgesInv
    BY DEF Init, SoundInv, EntriesInv, EdgesInv
  <2> QED BY <2>1, ContextInit, DepthInit, TestInit
<1>2. Inv /\ [Next]_vars => Inv'
  BY ContextNext, DepthNext, TestNext, SoundNext, EntriesNext, EdgesNext
<1>3. Inv => TestCodeSilent
  BY DEF SoundInv, EntriesInv, EdgesInv, Silent, TestCodeSilent
<1> QED BY <1>1, <1>2, <1>3, PTL DEF Spec

--------------------------------------------------------------------------
(* What the builder shows for a name is what the name stands for, at every  *)
(* place that is open: a node holds how many bindings were there when it    *)
(* was entered, and what its names stood for with those that came since.    *)
Shown(K, m, k) ==
  LET hit == LatestOr0({p \in 1..m : K[p].name = k})
  IN IF hit = 0 \/ K[hit].bound = NoKey THEN k ELSE K[hit].bound

(* A value that is no name is the key expression it is and nothing else.    *)
Plain(v) ==
  v.text \notin Ident =>
    v = [text |-> v.text, of |-> 0, hidden |-> FALSE]

Knows(K, m, names) ==
  \A k \in Ident : Plain(names[k]) /\ (~names[k].hidden => Shown(K, m, k) = names[k].text)

Binds(n) == /\ {"kind", "cut", "scope", "names"} \subseteq DOMAIN n
            /\ n.scope \in Nat /\ n.names = [k \in Ident |-> n.names[k]]

(* The bindings there are for the statements that stand in o[i].            *)
Reach(o, K, i) == IF i < Len(o) THEN o[i + 1].scope ELSE Len(K)

Keys(o, K) ==
  /\ IsList(o) /\ IsList(K)
  /\ \A p \in 1..Len(K) : K[p].name \in Ident
  /\ o = << >> => Len(K) = 0
  /\ o # << >> => o[1].scope = 0
  /\ \A i \in 1..Len(o) :
       /\ Binds(o[i]) /\ o[i].scope <= Len(K)
       /\ o[i].kind \notin Body => Reach(o, K, i) = o[i].scope
       /\ Knows(K, Reach(o, K, i), o[i].names)
  /\ \A i, j \in 1..Len(o) : i <= j => o[i].scope <= o[j].scope

KeysInv == Keys(open, key_bindings)

LEMMA Prefix ==
  ASSUME NEW o, IsList(o), NEW m \in 0..Len(o)
  PROVE  /\ IsList(SubSeq(o, 1, m)) /\ Len(SubSeq(o, 1, m)) = m
         /\ \A i \in 1..m : SubSeq(o, 1, m)[i] = o[i]
<1> DEFINE S == {o[i] : i \in 1..Len(o)}
           p == SubSeq(o, 1, m)
<1>1. o \in Seq(S) /\ Len(o) \in Nat
  BY ListType DEF IsList
<1>2. p \in Seq(S) /\ Len(p) = m /\ \A i \in 1..m : p[i] = o[i]
  <2>1. 1 \in Int /\ m \in Int /\ \A i \in 1..m : o[i] \in S
    BY <1>1
  <2> HIDE DEF S
  <2>2. /\ p \in Seq(S)
        /\ Len(p) = IF 1 <= m THEN m - 1 + 1 ELSE 0
        /\ \A i \in 1..(m - 1 + 1) : p[i] = o[1 + i - 1]
    BY <2>1, SubSeqProperties
  <2> DEFINE n == Len(p)
  <2>a. n = IF 1 <= m THEN m - 1 + 1 ELSE 0
    BY <2>2
  <2>b. m \in Nat
    BY <1>1
  <2> HIDE DEF n
  <2>3. n = m
    BY <2>a, <2>b
  <2>4. ASSUME NEW i \in 1..m PROVE p[i] = o[i]
    <3>1. i \in 1..(m - 1 + 1) /\ 1 + i - 1 = i
      BY <2>b
    <3> QED BY <2>2, <3>1
  <2> QED BY <2>2, <2>3, <2>4 DEF n
<1>3. p = [i \in 1..Len(p) |-> p[i]]
  BY <1>2, LenProperties
<1>4. Len(p) \in Nat
  BY <1>1, <1>2
<1> HIDE DEF p
<1> QED BY <1>2, <1>3, <1>4 DEF IsList, p

LEMMA EmptyList == IsList(<< >>) /\ Len(<< >>) = 0
BY DEF IsList

(* What is shown depends on the bindings that are looked at only, and an    *)
(* added one is shown for its own name.                                     *)
LEMMA HitWithin ==
  ASSUME NEW m \in Nat, NEW K, NEW k
  PROVE  LET hit == LatestOr0({p \in 1..m : K[p].name = k}) IN hit = 0 \/ hit \in 1..m
<1> DEFINE H == {p \in 1..m : K[p].name = k}
<1>1. H \in SUBSET (1..m)
  OBVIOUS
<1> HIDE DEF H
<1>2. LatestOr0(H) = 0 \/ LatestOr0(H) \in 1..m
  BY <1>1, LastIs
<1> QED BY <1>2 DEF H

LEMMA ShownAlike ==
  ASSUME NEW m \in Nat, NEW K, NEW L, \A p \in 1..m : L[p] = K[p], NEW k
  PROVE  Shown(L, m, k) = Shown(K, m, k)
<1> DEFINE H == {p \in 1..m : K[p].name = k}
           G == {p \in 1..m : L[p].name = k}
<1>1. G = H
  OBVIOUS
<1>2. LatestOr0(H) = 0 \/ LatestOr0(H) \in 1..m
  BY HitWithin
<1>3. /\ Shown(K, m, k) = IF LatestOr0(H) = 0 \/ K[LatestOr0(H)].bound = NoKey THEN k
                          ELSE K[LatestOr0(H)].bound
      /\ Shown(L, m, k) = IF LatestOr0(G) = 0 \/ L[LatestOr0(G)].bound = NoKey THEN k
                          ELSE L[LatestOr0(G)].bound
  BY DEF Shown
<1> HIDE DEF G, H
<1> QED BY <1>1, <1>2, <1>3

LEMMA KnowsAlike ==
  ASSUME NEW m \in Nat, NEW K, NEW L, \A p \in 1..m : L[p] = K[p], NEW names,
         Knows(K, m, names)
  PROVE  Knows(L, m, names)
<1>1. \A k : Shown(L, m, k) = Shown(K, m, k)
  BY ShownAlike
<1> QED BY <1>1 DEF Knows

LEMMA ShownNothing ==
  ASSUME NEW m \in Nat, NEW K, NEW k, \A p \in 1..m : K[p].name # k
  PROVE  Shown(K, m, k) = k
<1>1. {p \in 1..m : K[p].name = k} = {}
  OBVIOUS
<1> QED BY <1>1 DEF Shown, LatestOr0

LEMMA ShownAdded ==
  ASSUME NEW K, IsList(K), NEW b, NEW k
  PROVE  Shown(Append(K, b), Len(K) + 1, k) =
           IF b.name = k THEN IF b.bound = NoKey THEN k ELSE b.bound
           ELSE Shown(K, Len(K), k)
<1> DEFINE L == Append(K, b)
           m == Len(K)
           n == m + 1
           H == {p \in 1..n : L[p].name = k}
<1>1. m \in Nat /\ n \in Nat /\ n # 0 /\ (\A p \in 1..m : L[p] = K[p]) /\ L[n] = b
  BY Appended DEF IsList
<1>2. Shown(L, n, k) = IF LatestOr0(H) = 0 \/ L[LatestOr0(H)].bound = NoKey THEN k
                       ELSE L[LatestOr0(H)].bound
  BY DEF Shown
<1>3. CASE b.name = k
  <2>1. H \in SUBSET (1..n) /\ n \in H /\ \A j \in H : j <= n
    BY <1>1, <1>3
  <2> HIDE DEF H, n
  <2>2. LatestOr0(H) = n
    BY <1>1, <2>1, LastUnique
  <2>3. Shown(L, n, k) = IF b.bound = NoKey THEN k ELSE b.bound
    BY <1>1, <1>2, <2>2
  <2> QED BY <1>3, <2>3 DEF n
<1>4. CASE b.name # k
  <2>1. H = {p \in 1..m : L[p].name = k}
    BY <1>1, <1>4
  <2>2. Shown(L, n, k) = Shown(L, m, k)
    BY <2>1 DEF Shown
  <2>3. Shown(L, m, k) = Shown(K, m, k)
    <3> HIDE DEF L, m, H
    <3> QED BY <1>1, ShownAlike
  <2> QED BY <1>4, <2>2, <2>3
<1> QED BY <1>3, <1>4

LEMMA KeysPushed ==
  ASSUME NEW o, NEW K, NEW n, Keys(o, K), Binds(n), n.scope = Len(K),
         Knows(K, Len(K), n.names)
  PROVE  Keys(Append(o, n), K)
<1> DEFINE p == Append(o, n)
           l == Len(o)
<1>1. /\ IsList(p) /\ Len(p) = l + 1 /\ l \in Nat /\ Len(K) \in Nat
      /\ \A i \in 1..l : p[i] = o[i]
      /\ p[l + 1] = n
  BY Appended DEF Keys, IsList
<1> HIDE DEF p
<1>2. \A i \in 1..(l + 1) : i \in 1..l \/ i = l + 1
  BY <1>1
<1>3. p # << >> /\ p[1].scope = 0
  <2>1. CASE o = << >>
    <3>1. l = 0 /\ Len(K) = 0
      BY <2>1, EmptyList DEF Keys
    <3> QED BY <1>1, <3>1, EmptyList
  <2>2. CASE o # << >>
    <3>1. l # 0 /\ o[1].scope = 0
      BY <2>2 DEF Keys, IsList
    <3>2. 1 \in 1..l
      BY <1>1, <3>1
    <3> QED BY <1>1, <3>1, <3>2, EmptyList
  <2> QED BY <2>1, <2>2
<1>4. ASSUME NEW i \in 1..l PROVE Reach(p, K, i) = Reach(o, K, i)
  <2>1. CASE i < l
    <3>1. i + 1 \in 1..l
      BY <1>1, <2>1
    <3> QED BY <1>1, <2>1, <3>1 DEF Reach
  <2>2. CASE i = l
    BY <1>1, <2>2 DEF Reach
  <2> QED BY <1>1, <2>1, <2>2
<1>5. ASSUME NEW i \in 1..(l + 1)
      PROVE  /\ Binds(p[i]) /\ p[i].scope <= Len(K)
             /\ p[i].kind \notin Body => Reach(p, K, i) = p[i].scope
             /\ Knows(K, Reach(p, K, i), p[i].names)
  <2>1. CASE i \in 1..l
    BY <1>1, <1>4, <2>1 DEF Keys
  <2>2. CASE i = l + 1
    <3>1. Reach(p, K, i) = Len(K) /\ p[i] = n
      BY <1>1, <2>2 DEF Reach
    <3> QED BY <1>1, <3>1
  <2> QED BY <1>2, <2>1, <2>2
<1>6. ASSUME NEW i \in 1..(l + 1), NEW j \in 1..(l + 1), i <= j
      PROVE  p[i].scope <= p[j].scope
  <2>1. CASE j \in 1..l
    <3>1. i \in 1..l
      BY <1>1, <1>6, <2>1
    <3> QED BY <1>1, <1>6, <2>1, <3>1 DEF Keys
  <2>2. CASE j = l + 1
    BY <1>1, <1>5, <2>2
  <2> QED BY <1>2, <2>1, <2>2
<1>7. IsList(K) /\ \A q \in 1..Len(K) : K[q].name \in Ident
  BY DEF Keys
<1> HIDE DEF l
<1>8. Keys(p, K)
  BY <1>1, <1>3, <1>5, <1>6, <1>7 DEF Keys
<1> QED BY <1>8 DEF p

(* Leaving a node, when what came since it was entered is dropped: for a    *)
(* node without statements there is nothing to drop.                        *)
LEMMA KeysDropped ==
  ASSUME NEW o, NEW K, Keys(o, K), o # << >>
  PROVE  Keys(SubSeq(o, 1, Len(o) - 1), SubSeq(K, 1, o[Len(o)].scope))
<1> DEFINE p == SubSeq(o, 1, Len(o) - 1)
           l == Len(o)
           s == o[l].scope
           L == SubSeq(K, 1, s)
<1>0. l \in Nat /\ l # 0 /\ l \in 1..l /\ 1 \in 1..l
  BY DEF Keys, IsList
<1>1. IsList(p) /\ Len(p) = l - 1 /\ \A i \in 1..(l - 1) : p[i] = o[i]
  <2>1. l - 1 \in 0..Len(o) /\ IsList(o)
    BY <1>0 DEF Keys
  <2> QED BY <2>1, Prefix
<1>2. s \in Nat /\ Len(K) \in Nat /\ s <= Len(K)
  BY <1>0 DEF Keys, Binds, IsList
<1>3. IsList(L) /\ Len(L) = s /\ \A i \in 1..s : L[i] = K[i]
  <2>1. s \in 0..Len(K)
    BY <1>2
  <2> HIDE DEF s
  <2> QED BY <2>1, Prefix DEF Keys
<1> HIDE DEF p, L
<1>4. \A i \in 1..(l - 1) : i \in 1..l /\ i + 1 \in 1..l /\ i < l
  BY <1>0
<1>5. ASSUME NEW i \in 1..l PROVE o[i].scope \in Nat /\ o[i].scope <= s
  <2>1. i <= l
    BY <1>0
  <2> QED BY <1>0, <2>1 DEF Keys, Binds
<1>6. ASSUME NEW i \in 1..(l - 1)
      PROVE  /\ Reach(p, L, i) = Reach(o, K, i)
             /\ Reach(o, K, i) \in Nat /\ Reach(o, K, i) <= s
  <2>1. Reach(o, K, i) = o[i + 1].scope
    BY <1>4 DEF Reach
  <2>2. Reach(p, L, i) = o[i + 1].scope
    <3>1. CASE i < l - 1
      <4>1. i + 1 \in 1..(l - 1)
        BY <1>0, <3>1
      <4> QED BY <1>1, <3>1, <4>1 DEF Reach
    <3>2. CASE i = l - 1
      <4>1. i + 1 = l
        BY <1>0, <3>2
      <4> QED BY <1>1, <1>3, <3>2, <4>1 DEF Reach
    <3> QED BY <1>0, <3>1, <3>2
  <2> QED BY <1>4, <1>5, <2>1, <2>2
<1>7. ASSUME NEW i \in 1..(l - 1)
      PROVE  /\ Binds(p[i]) /\ p[i].scope <= Len(L)
             /\ p[i].kind \notin Body => Reach(p, L, i) = p[i].scope
             /\ Knows(L, Reach(p, L, i), p[i].names)
  <2> DEFINE r == Reach(o, K, i)
  <2>1. p[i] = o[i] /\ i \in 1..l
    BY <1>1, <1>4
  <2>2. /\ Binds(o[i]) /\ (o[i].kind \notin Body => r = o[i].scope)
        /\ Knows(K, r, o[i].names)
    BY <2>1 DEF Keys
  <2>3. r \in Nat /\ r <= s /\ Reach(p, L, i) = r
    BY <1>6
  <2> HIDE DEF r, s
  <2>4. \A q \in 1..r : L[q] = K[q]
    BY <1>2, <1>3, <2>3
  <2>5. Knows(L, r, o[i].names)
    BY <2>2, <2>3, <2>4, KnowsAlike
  <2> QED BY <1>3, <1>5, <2>1, <2>2, <2>3, <2>5 DEF s
<1>8. ASSUME NEW i \in 1..(l - 1), NEW j \in 1..(l - 1), i <= j
      PROVE  p[i].scope <= p[j].scope
  BY <1>1, <1>4, <1>8 DEF Keys
<1>9. p = << >> => Len(L) = 0
  <2>1. ASSUME p = << >> PROVE s = 0
    <3>1. l = 1
      BY <1>0, <1>1, <2>1, EmptyList
    <3> QED BY <3>1 DEF Keys
  <2> QED BY <1>3, <2>1
<1>10. p # << >> => p[1].scope = 0
  <2> SUFFICES ASSUME p # << >> PROVE p[1].scope = 0
    OBVIOUS
  <2>1. l - 1 # 0
    BY <1>1 DEF IsList
  <2>2. 1 \in 1..(l - 1)
    <3> HIDE DEF l
    <3> QED BY <1>0, <2>1
  <2> QED BY <1>1, <2>2 DEF Keys
<1>11. \A q \in 1..Len(L) : L[q].name \in Ident
  <2>1. \A q \in 1..s : q \in 1..Len(K)
    BY <1>2
  <2> QED BY <1>3, <2>1 DEF Keys
<1> HIDE DEF l, s
<1>12. Keys(p, L)
  BY <1>1, <1>3, <1>7, <1>8, <1>9, <1>10, <1>11 DEF Keys
<1> QED BY <1>12 DEF p, L, l, s

LEMMA KeysPopped ==
  ASSUME NEW o, NEW K, Keys(o, K), o # << >>, o[Len(o)].kind \notin Body
  PROVE  Keys(SubSeq(o, 1, Len(o) - 1), K)
<1> DEFINE s == o[Len(o)].scope
<1>1. Len(o) \in 1..Len(o) /\ IsList(K)
  BY DEF Keys, IsList
<1>2. s = Len(K)
  <2>1. Reach(o, K, Len(o)) = s
    BY <1>1 DEF Keys
  <2> QED BY <1>1, <2>1 DEF Reach
<1>3. SubSeq(K, 1, s) = K
  <2> DEFINE n == Len(K)
             L == SubSeq(K, 1, n)
  <2>1. n \in 0..n /\ n \in Nat
    BY <1>1 DEF IsList
  <2>2. IsList(L) /\ Len(L) = n /\ \A i \in 1..n : L[i] = K[i]
    BY <1>1, <2>1, Prefix
  <2> HIDE DEF L
  <2>3. L = [i \in 1..n |-> L[i]] /\ K = [i \in 1..n |-> K[i]]
    BY <1>1, <2>2 DEF IsList
  <2>4. L = K
    BY <2>2, <2>3
  <2> QED BY <1>2, <2>4 DEF L
<1> HIDE DEF s
<1>4. Keys(SubSeq(o, 1, Len(o) - 1), SubSeq(K, 1, s))
  BY KeysDropped DEF s
<1> QED BY <1>3, <1>4

(* Nodes that change in other respects.                                     *)
LEMMA KeysSame ==
  ASSUME NEW o, NEW K, NEW p, Keys(o, K), IsList(p), Len(p) = Len(o),
         \A i \in 1..Len(o) : /\ Binds(p[i])
                              /\ p[i].scope = o[i].scope /\ p[i].names = o[i].names
                              /\ p[i].kind \notin Body => o[i].kind \notin Body
  PROVE  Keys(p, K)
<1> DEFINE l == Len(o)
<1>1. l \in Nat
  BY DEF Keys, IsList
<1>2. ASSUME NEW i \in 1..l PROVE Reach(p, K, i) = Reach(o, K, i)
  <2>1. CASE i < l
    <3>1. i + 1 \in 1..l
      BY <1>1, <2>1
    <3> QED BY <2>1, <3>1 DEF Reach
  <2>2. CASE i = l
    BY <2>2 DEF Reach
  <2> QED BY <1>1, <2>1, <2>2
<1>3. ASSUME NEW i \in 1..l
      PROVE  /\ Binds(p[i]) /\ p[i].scope <= Len(K)
             /\ p[i].kind \notin Body => Reach(p, K, i) = p[i].scope
             /\ Knows(K, Reach(p, K, i), p[i].names)
  BY <1>2 DEF Keys
<1>4. ASSUME NEW i \in 1..l, NEW j \in 1..l, i <= j PROVE p[i].scope <= p[j].scope
  BY <1>4 DEF Keys
<1>5. /\ IsList(K) /\ \A q \in 1..Len(K) : K[q].name \in Ident
      /\ p = << >> => Len(K) = 0
      /\ p # << >> => p[1].scope = 0
  <2>1. p = << >> <=> l = 0
    BY EmptyList DEF IsList
  <2>2. o = << >> <=> l = 0
    BY EmptyList DEF IsList, Keys
  <2>3. l # 0 => 1 \in 1..l
    BY <1>1
  <2> QED BY <2>1, <2>2, <2>3 DEF Keys
<1> QED BY <1>3, <1>4, <1>5 DEF Keys

(* A statement binds a name in the innermost open node.                     *)
LEMMA KeysRebound ==
  ASSUME NEW o, NEW K, NEW p, NEW L, Keys(o, K), o # << >>, o[Len(o)].kind \in Body,
         IsList(L), Len(K) <= Len(L), \A q \in 1..Len(K) : L[q] = K[q],
         \A q \in 1..Len(L) : L[q].name \in Ident,
         IsList(p), Len(p) = Len(o), \A i \in 1..(Len(o) - 1) : p[i] = o[i],
         Binds(p[Len(o)]), p[Len(o)].scope = o[Len(o)].scope,
         p[Len(o)].kind = o[Len(o)].kind, Knows(L, Len(L), p[Len(o)].names)
  PROVE  Keys(p, L)
<1> DEFINE l == Len(o)
<1>1. /\ l \in Nat /\ l # 0 /\ l \in 1..l /\ 1 \in 1..l
      /\ Len(K) \in Nat /\ Len(L) \in Nat
  BY DEF Keys, IsList
<1>2. \A i \in 1..l : i = l \/ (i \in 1..(l - 1) /\ p[i] = o[i])
  BY <1>1
<1>3. ASSUME NEW i \in 1..l
      PROVE  /\ p[i].scope = o[i].scope /\ o[i].scope \in Nat
             /\ o[i].scope <= Len(K) /\ o[i].scope <= Len(L)
  <2>1. p[i].scope = o[i].scope
    BY <1>2
  <2>2. o[i].scope \in Nat /\ o[i].scope <= Len(K)
    BY DEF Keys, Binds
  <2> QED BY <1>1, <2>1, <2>2
<1>4. ASSUME NEW i \in 1..l
      PROVE  /\ Binds(p[i]) /\ p[i].scope <= Len(L)
             /\ p[i].kind \notin Body => Reach(p, L, i) = p[i].scope
             /\ Knows(L, Reach(p, L, i), p[i].names)
  <2>1. CASE i = l
    <3>1. Reach(p, L, l) = Len(L)
      BY <1>1 DEF Reach
    <3> QED BY <1>3, <2>1, <3>1
  <2>2. CASE i # l
    <3> DEFINE r == o[i + 1].scope
    <3>1. i < l /\ i + 1 \in 1..l /\ p[i] = o[i]
      BY <1>1, <1>2, <2>2
    <3>2. Reach(p, L, i) = r /\ Reach(o, K, i) = r
      BY <1>3, <3>1 DEF Reach
    <3>3. Binds(o[i]) /\ (o[i].kind \notin Body => r = o[i].scope) /\ Knows(K, r, o[i].names)
      BY <3>2 DEF Keys
    <3>4. r \in Nat /\ r <= Len(K)
      BY <1>3, <3>1
    <3> HIDE DEF r
    <3>5. \A q \in 1..r : L[q] = K[q]
      BY <1>1, <3>4
    <3>6. Knows(L, r, o[i].names)
      BY <3>3, <3>4, <3>5, KnowsAlike
    <3> QED BY <1>3, <3>1, <3>2, <3>3, <3>6
  <2> QED BY <2>1, <2>2
<1>5. ASSUME NEW i \in 1..l, NEW j \in 1..l, i <= j PROVE p[i].scope <= p[j].scope
  BY <1>3, <1>5 DEF Keys
<1>6. p # << >> /\ p[1].scope = 0
  <2>1. o[1].scope = 0
    BY DEF Keys
  <2> QED BY <1>1, <1>3, <2>1, EmptyList
<1> QED BY <1>4, <1>5, <1>6 DEF Keys

(* The builder resolves a name to what it stands for where it is used.      *)
LEMMA ResolveIsShown ==
  ASSUME KeysInv, NEW text
  PROVE  Resolve(text) = Shown(key_bindings, Len(key_bindings), text)
<1>1. DOMAIN key_bindings = 1..Len(key_bindings)
  BY ListType DEF KeysInv, Keys
<1> QED BY <1>1 DEF Resolve, Shown

LEMMA ResolveIsMeaning ==
  ASSUME KeysInv, NEW text
  PROVE  Plain(Meaning(text)) /\ (~Meaning(text).hidden => Resolve(text) = Meaning(text).text)
<1> DEFINE K == key_bindings
           n == Len(K)
<1>1. n \in Nat /\ Resolve(text) = Shown(K, n, text)
  BY ResolveIsShown DEF KeysInv, Keys, IsList
<1>2. CASE text \in Ident /\ open # << >>
  <2>1. Meaning(text) = open[Len(open)].names[text]
    BY <1>2 DEF Meaning, Here
  <2>2. Len(open) \in 1..Len(open)
    BY <1>2 DEF KeysInv, Keys, IsList
  <2>3. Reach(open, K, Len(open)) = n
    BY <2>2 DEF Reach
  <2>4. Knows(K, n, open[Len(open)].names)
    BY <2>2, <2>3 DEF KeysInv, Keys
  <2> QED BY <1>1, <1>2, <2>1, <2>4 DEF Knows
<1>3. CASE text \notin Ident \/ open = << >>
  <2>1. Meaning(text).text = text /\ Plain(Meaning(text))
    BY <1>3 DEF Meaning, Plain
  <2>2. \A p \in 1..n : K[p].name # text
    BY <1>1, <1>3 DEF KeysInv, Keys
  <2> QED BY <1>1, <2>1, <2>2, ShownNothing
<1> QED BY <1>2, <1>3

(* A binding that is not noted, unless it says so.                          *)
LEMMA UnnotedShown ==
  ASSUME KeysInv, NEW k \in Ident
  PROVE  /\ Plain(Unnoted(k))
         /\ ~Unnoted(k).hidden =>
              Shown(key_bindings, Len(key_bindings), k) = Unnoted(k).text
<1>1. Unnoted(k).text = k
  BY DEF Unnoted, Own
<1>2. ASSUME ~Unnoted(k).hidden PROVE ~Meaning(k).hidden /\ Meaning(k).text = k
  BY <1>2 DEF Unnoted, Own
<1>3. Plain(Unnoted(k))
  BY <1>1 DEF Plain
<1> QED BY <1>1, <1>2, <1>3, ResolveIsMeaning, ResolveIsShown

--------------------------------------------------------------------------
(* Every step keeps the bindings and the names together.                    *)
LEMMA KeysInit == Init => KeysInv
<1> SUFFICES ASSUME Init PROVE KeysInv
  OBVIOUS
<1>1. open = << >> /\ key_bindings = << >> /\ Len(open) = 0 /\ Len(key_bindings) = 0
  BY DEF Init
<1>2. IsList(open) /\ IsList(key_bindings)
  BY <1>1, EmptyList
<1> QED BY <1>1, <1>2 DEF KeysInv, Keys

LEMMA KeysStill ==
  ASSUME KeysInv, open' = open, key_bindings' = key_bindings
  PROVE  KeysInv'
BY DEF KeysInv

LEMMA NamesKnown ==
  ASSUME KeysInv, NEW kind
  PROVE  /\ NamesIn(kind) = [k \in Ident |-> NamesIn(kind)[k]]
         /\ Knows(key_bindings, Len(key_bindings), NamesIn(kind))
<1> DEFINE K == key_bindings
           w == NamesIn(kind)
<1>1. w = [k \in Ident |-> w[k]]
  BY DEF NamesIn
<1>2. ASSUME NEW k \in Ident
      PROVE  Plain(w[k]) /\ (~w[k].hidden => Shown(K, Len(K), k) = w[k].text)
  <2>1. CASE kind \in {"fn", "trait_fn"}
    <3>1. w[k] = Unnoted(k)
      BY <2>1 DEF NamesIn
    <3> QED BY <3>1, UnnotedShown
  <2>2. CASE kind \notin {"fn", "trait_fn"}
    <3>1. w[k] = Meaning(k)
      BY <2>2 DEF NamesIn
    <3> QED BY <3>1, ResolveIsMeaning, ResolveIsShown
  <2> QED BY <2>1, <2>2
<1> HIDE DEF w
<1>3. Knows(K, Len(K), w)
  BY <1>2 DEF Knows
<1> QED BY <1>1, <1>3 DEF w

LEMMA NodeKeyed ==
  ASSUME KeysInv, NEW k, NEW n, NEW c, NEW t, NEW i, NEW b
  PROVE  LET m == NodeOf(k, n, c, t, i, b)
         IN Binds(m) /\ m.scope = Len(key_bindings)
            /\ Knows(key_bindings, Len(key_bindings), m.names)
<1> DEFINE m == NodeOf(k, n, c, t, i, b)
<1>1. m.scope = Len(key_bindings) /\ m.names = NamesIn(k)
  BY DEF NodeOf
<1>2. {"kind", "cut", "scope", "names"} \subseteq DOMAIN m
  BY DEF NodeOf
<1> HIDE DEF m
<1>3. Len(key_bindings) \in Nat
  BY DEF KeysInv, Keys, IsList
<1>4. /\ m.names = [x \in Ident |-> m.names[x]]
      /\ Knows(key_bindings, Len(key_bindings), m.names)
  BY <1>1, NamesKnown
<1>5. Binds(m)
  BY <1>1, <1>2, <1>3, <1>4 DEF Binds
<1> QED BY <1>1, <1>4, <1>5 DEF m

LEMMA KeysPush ==
  ASSUME KeysInv, NEW n, open' = Append(open, n), key_bindings' = key_bindings,
         Binds(n), n.scope = Len(key_bindings),
         Knows(key_bindings, Len(key_bindings), n.names)
  PROVE  KeysInv'
<1>1. Keys(Append(open, n), key_bindings)
  BY KeysPushed DEF KeysInv
<1> QED BY <1>1 DEF KeysInv

LEMMA KeysEnter ==
  ASSUME KeysInv, NEW k, NEW n, NEW c, NEW t, NEW i, NEW b,
         open' = Append(open, NodeOf(k, n, c, t, i, b)), key_bindings' = key_bindings
  PROVE  KeysInv'
<1> DEFINE m == NodeOf(k, n, c, t, i, b)
<1>1. /\ Binds(m) /\ m.scope = Len(key_bindings)
      /\ Knows(key_bindings, Len(key_bindings), m.names)
  BY NodeKeyed
<1> HIDE DEF m
<1>2. open' = Append(open, m)
  BY DEF m
<1> QED BY <1>1, <1>2, KeysPush

LEMMA KeysTop ==
  ASSUME KeysInv, open # << >>
  PROVE  Binds(Top) /\ IsList(open) /\ Len(open) \in 1..Len(open) /\ Len(open) \in Nat \ {0}
<1>1. IsList(open) /\ \A i \in 1..Len(open) : Binds(open[i])
  BY DEF KeysInv, Keys
<1>2. Len(open) \in Nat \ {0}
  BY <1>1 DEF IsList
<1> QED BY <1>1, <1>2 DEF Top

LEMMA KeysLeave ==
  ASSUME KeysInv, open # << >>, Top.kind \notin Body, open' = Below,
         key_bindings' = key_bindings
  PROVE  KeysInv'
<1>1. Keys(Below, key_bindings)
  BY KeysPopped DEF KeysInv, Below, Top
<1> QED BY <1>1 DEF KeysInv

LEMMA KeysTruncate ==
  ASSUME KeysInv, open # << >>, open' = Below, Truncate
  PROVE  KeysInv'
<1>1. Keys(Below, SubSeq(key_bindings, 1, Top.scope))
  BY KeysDropped DEF KeysInv, Below, Top
<1> QED BY <1>1 DEF KeysInv, Truncate

LEMMA KeysCloseFn ==
  ASSUME KeysInv, CloseFn
  PROVE  KeysInv'
<1> DEFINE b == Below
           K == SubSeq(key_bindings, 1, Top.scope)
<1>1. /\ open # << >> /\ open' = [i \in DOMAIN b |-> [b[i] EXCEPT !.cut = TRUE]]
      /\ key_bindings' = K
  BY DEF CloseFn, IsOpen, Truncate
<1>2. Keys(b, K)
  BY <1>1, KeysDropped DEF KeysInv, Below, Top
<1> HIDE DEF b, K
<1>3. IsList(b) /\ DOMAIN b = 1..Len(b) /\ Len(b) \in Nat
  BY <1>2, ListType DEF Keys, IsList
<1>4. \A i \in 1..Len(b) :
        /\ Binds(open'[i]) /\ open'[i].scope = b[i].scope /\ open'[i].names = b[i].names
        /\ open'[i].kind = b[i].kind
  <2> TAKE i \in 1..Len(b)
  <2>1. Binds(b[i])
    BY <1>2 DEF Keys
  <2>2. open'[i] = [b[i] EXCEPT !.cut = TRUE]
    BY <1>1, <1>3
  <2> DEFINE n == b[i]
             m == open'[i]
  <2> HIDE DEF n, m
  <2>3. Binds(n) /\ m = [n EXCEPT !.cut = TRUE]
    BY <2>1, <2>2 DEF n, m
  <2>4. /\ m.scope = n.scope /\ m.names = n.names /\ m.kind = n.kind
        /\ DOMAIN m = DOMAIN n
    BY <2>3 DEF Binds
  <2>5. Binds(m)
    BY <2>3, <2>4 DEF Binds
  <2> QED BY <2>4, <2>5 DEF n, m
<1>5. IsList(open') /\ Len(open') = Len(b)
  <2> DEFINE l == Len(b)
             S == {open'[i] : i \in 1..l}
  <2>1. open' = [i \in 1..l |-> open'[i]]
    BY <1>1, <1>3
  <2>2. open' \in [1..l -> S] /\ l \in Nat
    BY <1>3, <2>1
  <2>3. DOMAIN open' = 1..l
    BY <2>1
  <2> HIDE DEF S, l
  <2>4. open' \in Seq(S)
    BY <2>2
  <2>5. Len(open') = l
    BY <2>2, <2>3, <2>4, LenProperties
  <2> QED BY <2>1, <2>2, <2>5 DEF IsList, l
<1>6. Keys(open', K)
  BY <1>2, <1>4, <1>5, KeysSame
<1> QED BY <1>1, <1>6 DEF KeysInv

(* The top node replaced.                                                   *)
LEMMA KeysReplaced ==
  ASSUME KeysInv, open # << >>, NEW n, open' = [open EXCEPT ![Len(open)] = n]
  PROVE  /\ IsList(open') /\ Len(open') = Len(open) /\ open'[Len(open)] = n
         /\ \A i \in 1..(Len(open) - 1) : open'[i] = open[i]
<1> DEFINE l == Len(open)
           o == open
           p == open'
           S == {o[i] : i \in 1..l} \cup {n}
<1>1. l \in Nat \ {0} /\ l \in 1..l /\ o \in [1..l -> S] /\ n \in S
  <2>1. l \in Nat \ {0} /\ l \in 1..l /\ o = [i \in 1..l |-> o[i]]
    BY KeysTop DEF IsList
  <2> QED BY <2>1
<1>2. p = [o EXCEPT ![l] = n] /\ l = Len(open)
  OBVIOUS
<1> HIDE DEF S, p, o, l
<1>3. p \in [1..l -> S]
  BY <1>1, <1>2
<1>4. p[l] = n /\ \A i \in 1..l : i # l => p[i] = o[i]
  BY <1>1, <1>2
<1>5. Len(p) = l
  <2>1. p \in Seq(S) /\ DOMAIN p = 1..l
    BY <1>1, <1>3
  <2> QED BY <1>1, <2>1, LenProperties
<1>6. IsList(p)
  <2>1. p = [i \in 1..l |-> p[i]]
    BY <1>3
  <2> QED BY <1>1, <1>5, <2>1 DEF IsList
<1>7. \A i \in 1..(l - 1) : p[i] = o[i]
  BY <1>1, <1>4
<1> QED BY <1>2, <1>4, <1>5, <1>6, <1>7 DEF p, o

LEMMA KeysKind ==
  ASSUME KeysInv, open # << >>, NEW k \in Body, key_bindings' = key_bindings,
         open' = [open EXCEPT ![Len(open)].kind = k]
  PROVE  KeysInv'
<1> DEFINE l == Len(open)
           t == Top
           n == [t EXCEPT !.kind = k]
<1>1. Binds(t) /\ l \in Nat \ {0}
  BY KeysTop
<1>2. open' = [open EXCEPT ![Len(open)] = n]
  BY DEF Top
<1> HIDE DEF t
<1>3. n.scope = t.scope /\ n.names = t.names /\ n.kind = k /\ DOMAIN n = DOMAIN t
  BY <1>1 DEF Binds
<1> HIDE DEF n
<1>4. Binds(n)
  BY <1>1, <1>3 DEF Binds
<1>5. /\ IsList(open') /\ Len(open') = l /\ open'[l] = n
      /\ \A i \in 1..(l - 1) : open'[i] = open[i]
  BY <1>2, KeysReplaced
<1>6. ASSUME NEW i \in 1..l
      PROVE  /\ Binds(open'[i])
             /\ open'[i].scope = open[i].scope /\ open'[i].names = open[i].names
             /\ open'[i].kind \notin Body => open[i].kind \notin Body
  <2>1. CASE i = l
    BY <1>3, <1>4, <1>5, <2>1 DEF t, Top
  <2>2. CASE i # l
    <3>1. i \in 1..(l - 1)
      BY <1>1, <2>2
    <3>2. Binds(open[i])
      BY DEF KeysInv, Keys
    <3> QED BY <1>5, <3>1, <3>2
  <2> QED BY <2>1, <2>2
<1>7. Keys(open', key_bindings)
  BY <1>5, <1>6, KeysSame DEF KeysInv
<1> QED BY <1>7 DEF KeysInv

(* A name bound at the top: it is shown as what it stands for, and so are   *)
(* the others.                                                              *)
LEMMA KeysRebind ==
  ASSUME KeysInv, IsOpen(Body), NEW k \in Ident, NEW v, Rebind(k, v), NEW L,
         IsList(L), Len(key_bindings) <= Len(L),
         \A q \in 1..Len(key_bindings) : L[q] = key_bindings[q],
         \A q \in 1..Len(L) : L[q].name \in Ident,
         Plain(v), ~v.hidden => Shown(L, Len(L), k) = v.text,
         \A x \in Ident : x # k => Shown(L, Len(L), x) = Resolve(x)
  PROVE  Keys(open', L)
<1> DEFINE l == Len(open)
           t == Top
           w == [t.names EXCEPT ![k] = v]
           n == [t EXCEPT !.names = w]
<1>1. open # << >> /\ t.kind \in Body
  BY DEF IsOpen
<1>2. Binds(t) /\ l \in Nat \ {0} /\ l \in 1..l
  BY <1>1, KeysTop
<1>3. open' = [open EXCEPT ![Len(open)] = n]
  BY ReboundTop
<1>4. \A x \in Ident : t.names[x] = Meaning(x)
  BY <1>1 DEF Meaning, Here, Top
<1> HIDE DEF t
<1>5. w = [x \in Ident |-> w[x]] /\ w[k] = v /\ \A x \in Ident : x # k => w[x] = t.names[x]
  BY <1>2 DEF Binds
<1>6. Knows(L, Len(L), w)
  <2>1. ASSUME NEW x \in Ident
        PROVE  Plain(w[x]) /\ (~w[x].hidden => Shown(L, Len(L), x) = w[x].text)
    <3>1. CASE x = k
      BY <1>5, <3>1
    <3>2. CASE x # k
      <4>1. w[x] = Meaning(x)
        BY <1>4, <1>5, <3>2
      <4> QED BY <3>2, <4>1, ResolveIsMeaning
    <3> QED BY <3>1, <3>2
  <2> HIDE DEF w
  <2> QED BY <2>1 DEF Knows
<1> HIDE DEF w
<1>7. n.scope = t.scope /\ n.names = w /\ n.kind = t.kind /\ DOMAIN n = DOMAIN t
  BY <1>2 DEF Binds
<1> HIDE DEF n
<1>8. Binds(n)
  BY <1>2, <1>5, <1>7 DEF Binds
<1>9. /\ IsList(open') /\ Len(open') = l /\ open'[l] = n
      /\ \A i \in 1..(l - 1) : open'[i] = open[i]
  BY <1>1, <1>3, KeysReplaced
<1>10. /\ Keys(open, key_bindings) /\ open[l].kind \in Body
       /\ n.scope = open[l].scope /\ n.kind = open[l].kind
  BY <1>1, <1>7 DEF t, Top, KeysInv
<1> QED BY <1>1, <1>6, <1>7, <1>8, <1>9, <1>10, KeysRebound

LEMMA KeysLet ==
  ASSUME KeysInv, NEW k \in Ident, NEW v \in Bound, Let(k, v)
  PROVE  KeysInv'
<1> DEFINE K == key_bindings
           b == [name |-> k, bound |-> IF v = NoKey THEN NoKey ELSE Resolve(v)]
           L == Append(K, b)
           u == IF v = NoKey THEN Own(k, FALSE) ELSE Meaning(v)
<1>1. IsOpen(Body) /\ Rebind(k, u) /\ key_bindings' = L
  BY DEF Let
<1>2. IsList(K) /\ Len(K) \in Nat /\ \A q \in 1..Len(K) : K[q].name \in Ident
  BY DEF KeysInv, Keys, IsList
<1>3. b.name = k /\ b.bound = IF v = NoKey THEN NoKey ELSE Resolve(v)
  OBVIOUS
<1>4. v # NoKey => Resolve(v) # NoKey
  BY DEF Resolve
<1>5. Plain(u) /\ (~u.hidden => (IF b.bound = NoKey THEN k ELSE b.bound) = u.text)
  <2>1. CASE v = NoKey
    BY <2>1 DEF Own, Plain
  <2>2. CASE v # NoKey
    BY <1>3, <1>4, <2>2, ResolveIsMeaning
  <2> QED BY <2>1, <2>2
<1> HIDE DEF b, u
<1>6. IsList(L) /\ Len(L) = Len(K) + 1 /\ (\A q \in 1..Len(K) : L[q] = K[q]) /\ L[Len(K) + 1] = b
  BY <1>2, Appended
<1>7. \A x : Shown(L, Len(L), x) = IF b.name = x THEN IF b.bound = NoKey THEN x ELSE b.bound
                                  ELSE Shown(K, Len(K), x)
  BY <1>2, <1>6, ShownAdded
<1> HIDE DEF L
<1>8. \A q \in 1..Len(L) : L[q].name \in Ident
  <2>1. \A q \in 1..Len(L) : q \in 1..Len(K) \/ q = Len(K) + 1
    BY <1>2, <1>6
  <2> QED BY <1>2, <1>3, <1>6, <2>1
<1>9. \A x \in Ident : x # k => Shown(L, Len(L), x) = Resolve(x)
  BY <1>3, <1>7, ResolveIsShown
<1>10. ~u.hidden => Shown(L, Len(L), k) = u.text
  BY <1>3, <1>5, <1>7
<1>11. Len(K) <= Len(L)
  BY <1>2, <1>6
<1>12. Keys(open', L)
  BY <1>1, <1>5, <1>6, <1>8, <1>9, <1>10, <1>11, KeysRebind
<1> QED BY <1>1, <1>12 DEF KeysInv

LEMMA KeysPattern ==
  ASSUME KeysInv, NEW k \in Ident, BindPattern(k)
  PROVE  KeysInv'
<1> DEFINE K == key_bindings
           u == Unnoted(k)
<1>1. IsOpen(Body) /\ Rebind(k, u) /\ key_bindings' = K
  BY DEF BindPattern, fields
<1>2. IsList(K) /\ Len(K) <= Len(K) /\ \A q \in 1..Len(K) : K[q].name \in Ident
  BY DEF KeysInv, Keys, IsList
<1>3. Plain(u) /\ (~u.hidden => Shown(K, Len(K), k) = u.text)
  BY UnnotedShown
<1> HIDE DEF u
<1>4. \A x \in Ident : x # k => Shown(K, Len(K), x) = Resolve(x)
  BY ResolveIsShown
<1>5. Keys(open', K)
  BY <1>1, <1>2, <1>3, <1>4, KeysRebind
<1> QED BY <1>1, <1>5 DEF KeysInv

LEMMA KeysOpenLoop ==
  ASSUME KeysInv, NEW k \in {"for", "while", "loop"}, NEW b \in BOOLEAN, OpenLoop(k, b)
  PROVE  KeysInv'
<1>0. key_bindings' = key_bindings
  BY DEF OpenLoop
<1>1. CASE k = "for"
  <2>1. open' = Append(open, LoopNode("iter"))
    BY <1>1 DEF OpenLoop
  <2> QED BY <1>0, <2>1, KeysEnter DEF LoopNode
<1>2. CASE k = "loop"
  <2>1. open' = Append(open, LoopNode("loop"))
    BY <1>2 DEF OpenLoop
  <2> QED BY <1>0, <2>1, KeysEnter DEF LoopNode
<1>3. CASE k = "while"
  <2> DEFINE ids == {s.id : s \in sites}
             m == NodeOf("loop", NoName, NoName, FALSE, Len(loops) + 1, ids)
             g == Node("guard")
  <2>1. open' = Append(Append(open, m), g)
    BY <1>3 DEF OpenLoop, LoopNode
  <2> HIDE DEF ids
  <2>2. /\ Binds(m) /\ m.scope = Len(key_bindings)
        /\ Knows(key_bindings, Len(key_bindings), m.names)
    BY NodeKeyed
  <2>3. /\ Binds(g) /\ g.scope = Len(key_bindings)
        /\ Knows(key_bindings, Len(key_bindings), g.names)
    BY NodeKeyed DEF Node
  <2> HIDE DEF m, g
  <2>4. Keys(Append(open, m), key_bindings)
    BY <2>2, KeysPushed DEF KeysInv
  <2>5. Keys(Append(Append(open, m), g), key_bindings)
    BY <2>3, <2>4, KeysPushed
  <2> QED BY <1>0, <2>1, <2>5 DEF KeysInv
<1> QED BY <1>1, <1>2, <1>3

LEMMA KeysItems ==
  ASSUME KeysInv, Items
  PROVE  KeysInv'
<1>1. CASE \E t \in BOOLEAN : BeginFile(t)
  <2>1. open' = open /\ key_bindings' = key_bindings
    BY <1>1 DEF BeginFile, NewFile
  <2> QED BY <2>1, KeysStill
<1>2. CASE \E t \in BOOLEAN : OpenMod(t)
  BY <1>2, KeysEnter DEF OpenMod, Push
<1>3. CASE \E c \in ContractName : DeclareContract(c)
  <2>1. open' = open /\ key_bindings' = key_bindings
    BY <1>3 DEF DeclareContract, fields
  <2> QED BY <2>1, KeysStill
<1>4. CASE \E i \in vocabulary.impls : OpenImpl(i)
  BY <1>4, KeysEnter DEF OpenImpl, Push
<1>5. ASSUME NEW n, NEW t, NEW a, EnterBody(n, t, a), key_bindings' = key_bindings
      PROVE  KeysInv'
  <2>1. CASE open' = open
    BY <1>5, <2>1, KeysStill
  <2>2. CASE open' = Append(open, FnFrame(n, t))
    BY <1>5, <2>2, KeysEnter DEF FnFrame
  <2> QED BY <1>5, <2>1, <2>2 DEF EnterBody, Push
<1>6. CASE \E n \in vocabulary.names, t, a \in BOOLEAN : OpenFn(n, t, a)
  BY <1>5, <1>6 DEF OpenFn
<1>7. CASE \E n \in vocabulary.names, p, r, t, a \in BOOLEAN : OpenMethod(n, p, r, t, a)
  BY <1>5, <1>7 DEF OpenMethod
<1>8. CASE CloseMod \/ CloseImpl
  <2>1. /\ open # << >> /\ Top.kind \notin Body /\ open' = Below
        /\ key_bindings' = key_bindings
    BY <1>8 DEF CloseMod, CloseImpl, IsOpen, Body
  <2> QED BY <2>1, KeysLeave
<1> QED BY <1>1, <1>2, <1>3, <1>4, <1>6, <1>7, <1>8, KeysCloseFn DEF Items

LEMMA KeysStatements ==
  ASSUME KeysInv, Statements
  PROVE  KeysInv'
<1>1. CASE \E k \in {"block", "trait_fn"} : OpenBlock(k)
  <2>1. PICK k \in {"block", "trait_fn"} : OpenBlock(k)
    BY <1>1
  <2>2. open' = Append(open, Node(k)) /\ key_bindings' = key_bindings
    BY <2>1 DEF OpenBlock, Push, fields
  <2> QED BY <2>2, KeysEnter DEF Node
<1>2. CASE (\E k \in Ident, v \in Bound : Let(k, v)) \/ \E k \in Ident : BindPattern(k)
  BY <1>2, KeysLet, KeysPattern
<1>3. CASE \/ \E c \in vocabulary.chains, k \in KeyExpr : VisitChain(c, k)
           \/ \E e \in vocabulary.operations : VisitExpr(e)
           \/ \E n \in vocabulary.names, m \in BOOLEAN : VisitCall(n, m)
  <2>1. open' = open /\ key_bindings' = key_bindings
    BY <1>3 DEF VisitChain, VisitExpr, VisitCall, fields
  <2> QED BY <2>1, KeysStill
<1>4. CASE OpenGuard("cond", FALSE) \/ \E w \in BOOLEAN : OpenGuard("guard", w)
  <2>1. /\ \E k : open' = Append(open, Node(k))
        /\ key_bindings' = key_bindings
    BY <1>4 DEF OpenGuard, Push
  <2> QED BY <2>1, KeysEnter DEF Node
<1>5. CASE \E k \in {"for", "while", "loop"}, b \in BOOLEAN : OpenLoop(k, b)
  BY <1>5, KeysOpenLoop
<1>6. CASE CloseBlock \/ CloseLoop
  <2>1. open # << >> /\ open' = Below /\ Truncate
    BY <1>6 DEF CloseBlock, CloseLoop, IsOpen
  <2> QED BY <2>1, KeysTruncate
<1>7. CASE CloseGuard
  <2>1. /\ open # << >> /\ Top.kind \notin Body /\ key_bindings' = key_bindings
        /\ \/ open' = [open EXCEPT ![Len(open)].kind = "block"]
           \/ open' = Below
    BY <1>7 DEF CloseGuard, IsOpen, Guarding, Body
  <2>2. "block" \in Body
    BY DEF Body
  <2> QED BY <2>1, <2>2, KeysKind, KeysLeave
<1>8. CASE StartBody
  <2>1. /\ open # << >> /\ "loop" \in Body /\ key_bindings' = key_bindings
        /\ open' = [open EXCEPT ![Len(open)].kind = "loop"]
    BY <1>8 DEF StartBody, IsOpen, Body
  <2> QED BY <2>1, KeysKind
<1> QED BY <1>1, <1>2, <1>3, <1>4, <1>5, <1>6, <1>7, <1>8 DEF Statements

LEMMA KeysNext == KeysInv /\ [Next]_vars => KeysInv'
<1> SUFFICES ASSUME KeysInv, [Next]_vars PROVE KeysInv'
  OBVIOUS
<1>1. CASE Finish \/ UNCHANGED vars
  <2>1. open' = open /\ key_bindings' = key_bindings
    BY <1>1 DEF Finish, vars, fields
  <2> QED BY <2>1, KeysStill
<1> QED BY <1>1, KeysItems, KeysStatements DEF Next

(* What a site is recorded under.                                           *)
Scoped(s) == Plain(s.meant) /\ (~s.meant.hidden => s.key = s.meant.text)
ScopedInv == \A s \in sites : Scoped(s)

LEMMA NoKeyMeans == Meaning(NoKey).text = NoKey /\ Plain(Meaning(NoKey))
BY KeysAssumption DEF Meaning, Plain

LEMMA SiteScoped ==
  ASSUME NEW v, NEW p, NEW w, NEW g
  PROVE  Scoped(SiteOf(v, p, w, g, NoKey, Meaning(NoKey)))
BY NoKeyMeans DEF SiteOf, Scoped

LEMMA ChainSiteScoped ==
  ASSUME KeysInv, NEW c, NEW k, NEW i, NEW vec
  PROVE  Scoped(ChainSite(c, k, i, vec))
<1> DEFINE keyed == vec = "storage_ops" /\ HasKey(Upto(c, i))
           x == IF keyed THEN Resolve(k) ELSE NoKey
           y == Meaning(IF keyed THEN k ELSE NoKey)
           s == SiteOf(vec, i, What(Upto(c, i)), guarded_depth > 0 \/ GuardedInside(c, i), x, y)
           q == [s EXCEPT !.at.guard = @ \/ GuardedInside(c, i)]
<1>1. Plain(y) /\ (~y.hidden => x = y.text)
  BY ResolveIsMeaning, NoKeyMeans
<1>2. ChainSite(c, k, i, vec) = q
  BY DEF ChainSite
<1>3. s.key = x /\ s.meant = y /\ {"key", "meant", "at"} \subseteq DOMAIN s
  BY DEF SiteOf
<1> HIDE DEF s, x, y
<1>4. q.key = s.key /\ q.meant = s.meant
  BY <1>3
<1> QED BY <1>1, <1>2, <1>3, <1>4 DEF Scoped

LEMMA ScopedEnterBody ==
  ASSUME ScopedInv, NEW n, NEW t, NEW a \in BOOLEAN, EnterBody(n, t, a)
  PROVE  ScopedInv'
<1> DEFINE new == AttributeSite(function', FnFrame(n, t))
<1>1. sites' \subseteq sites \cup {new}
  BY DEF EnterBody
<1>2. Scoped(new)
  BY NoKeyMeans DEF AttributeSite, Scoped
<1> HIDE DEF new
<1> QED BY <1>1, <1>2 DEF ScopedInv, Scoped

LEMMA ScopedNext == KeysInv /\ ScopedInv /\ [Next]_vars => ScopedInv'
<1> SUFFICES ASSUME KeysInv, ScopedInv, [Next]_vars PROVE ScopedInv'
  OBVIOUS
<1>1. CASE \E n \in vocabulary.names, t, a \in BOOLEAN : OpenFn(n, t, a)
  BY <1>1, ScopedEnterBody DEF OpenFn
<1>2. CASE \E n \in vocabulary.names, p, r, t, a \in BOOLEAN : OpenMethod(n, p, r, t, a)
  BY <1>2, ScopedEnterBody DEF OpenMethod
<1>3. CASE \E c \in vocabulary.chains, k \in KeyExpr : VisitChain(c, k)
  <2>1. PICK c \in vocabulary.chains, k \in KeyExpr : VisitChain(c, k)
    BY <1>3
  <2>2. \A s \in ChainSites(c, k) : Scoped(s)
    BY ChainSiteScoped DEF ChainSites
  <2>3. sites' \subseteq sites \cup ChainSites(c, k)
    BY <2>1 DEF VisitChain
  <2> QED BY <2>2, <2>3 DEF ScopedInv, Scoped
<1>4. CASE \E e \in vocabulary.operations : VisitExpr(e)
  <2>1. PICK e \in vocabulary.operations : VisitExpr(e)
    BY <1>4
  <2> DEFINE New == {SiteOf(vec, 0, WhatExpr(e), guarded_depth > 0, NoKey, Meaning(NoKey)) :
                       vec \in RecordedExpr(e)}
  <2>2. \A s \in New : Scoped(s)
    BY SiteScoped
  <2>3. sites' \subseteq sites \cup New
    BY <2>1 DEF VisitExpr
  <2> HIDE DEF New
  <2> QED BY <2>2, <2>3 DEF ScopedInv, Scoped
<1>5. CASE OpenGuard("cond", FALSE) \/ \E w \in BOOLEAN : OpenGuard("guard", w)
  <2> DEFINE s == SiteOf("arithmetic", 0, WrappingCall, guarded_depth > 0, NoKey, Meaning(NoKey))
  <2>1. Scoped(s)
    BY SiteScoped
  <2>2. sites' \subseteq sites \cup {s}
    BY <1>5 DEF OpenGuard
  <2> HIDE DEF s
  <2> QED BY <2>1, <2>2 DEF ScopedInv, Scoped
<1>6. CASE sites' = sites
  BY <1>6 DEF ScopedInv, Scoped
<1> QED BY <1>1, <1>2, <1>3, <1>4, <1>5, <1>6, SitesChange

(* A storage operation is recorded under what its key stands for, for lets, *)
(* patterns, parameters and trees of any shape, unless its name was bound   *)
(* by a pattern or a parameter while the builder still held an earlier      *)
(* binding of it.                                                           *)
THEOREM KeysAreInScope == Spec => []KeysInScope
<1>1. Init => KeysInv /\ ScopedInv
  BY KeysInit DEF Init, ScopedInv
<1>2. KeysInv /\ ScopedInv /\ [Next]_vars => KeysInv' /\ ScopedInv'
  BY KeysNext, ScopedNext
<1>3. ScopedInv => KeysInScope
  BY DEF ScopedInv, Scoped, KeysInScope
<1> QED BY <1>1, <1>2, <1>3, PTL DEF Spec

--------------------------------------------------------------------------
(* What the open loops have seen.  A loop is entered with the sites that    *)
(* are there already, and whatever is recorded until it is left stands in   *)
(* it.                                                                      *)
LoopKinds == {"iter", "loop"}
Looped(n) == {"kind", "cut", "index", "before"} \subseteq DOMAIN n
LoopStack(o) == IsList(o) /\ \A i \in 1..Len(o) : Looped(o[i])

SitesOf(k, vec, S) == {s.id : s \in {x \in S : x.vec = vec /\ k \in x.at.loops}}

CountsOf(l, k, S) ==
  l.closed => /\ l.storage_ops = SitesOf(k, "storage_ops", S)
              /\ l.contract_calls = SitesOf(k, "calls", S)

Seen(o, L, S, c) ==
  /\ LoopStack(o) /\ IsList(L) /\ c \in Nat
  /\ \A i \in 1..Len(o) : o[i].kind \in LoopKinds =>
       /\ o[i].index \in 1..Len(L) /\ ~L[o[i].index].closed
       /\ \A x \in o[i].before : x[1] \in Nat /\ x[1] < c
       /\ \A s \in S : s.id \in o[i].before <=> o[i].index \notin s.at.loops
  /\ \A i, k \in 1..Len(o) :
       i < k /\ o[i].kind \in LoopKinds /\ o[k].kind \in LoopKinds => o[i].index # o[k].index
  /\ \A s \in S : s.id[1] \in Nat /\ s.id[1] < c /\ s.at.loops \subseteq 1..Len(L)
  /\ \A k \in 1..Len(L) :
       /\ {"closed", "storage_ops", "contract_calls"} \subseteq DOMAIN L[k]
       /\ CountsOf(L[k], k, S)

SeenInv == Seen(open, loops, sites, clock)

(* p has no loop node that o has not.                                       *)
LoopsAgree(o, p) ==
  /\ LoopStack(p)
  /\ \A i \in 1..Len(p) : p[i].kind \in LoopKinds =>
       /\ i \in 1..Len(o) /\ o[i].kind \in LoopKinds
       /\ p[i].index = o[i].index /\ p[i].before = o[i].before

LEMMA LoopsPushed ==
  ASSUME NEW o, LoopStack(o), NEW n, Looped(n), n.kind \notin LoopKinds
  PROVE  LoopsAgree(o, Append(o, n))
<1> DEFINE p == Append(o, n)
           l == Len(o) + 1
<1>1. /\ IsList(p) /\ Len(p) = l /\ Len(o) \in Nat
      /\ \A i \in 1..Len(o) : p[i] = o[i]
      /\ p[l] = n
  BY Appended DEF LoopStack, IsList
<1>2. \A i \in 1..l : i \in 1..Len(o) \/ i = l
  BY <1>1
<1> HIDE DEF p, l
<1>3. \A i \in 1..l : Looped(p[i]) /\ (p[i].kind \in LoopKinds => i \in 1..Len(o) /\ p[i] = o[i])
  BY <1>1, <1>2 DEF LoopStack
<1>4. LoopsAgree(o, p)
  BY <1>1, <1>3 DEF LoopsAgree, LoopStack
<1> QED BY <1>4 DEF p

LEMMA LoopsPopped ==
  ASSUME NEW o, LoopStack(o), o # << >>
  PROVE  LoopsAgree(o, SubSeq(o, 1, Len(o) - 1))
<1> DEFINE p == SubSeq(o, 1, Len(o) - 1)
           l == Len(o) - 1
<1>0. l \in 0..Len(o) /\ IsList(o) /\ Len(o) \in Nat
  BY DEF LoopStack, IsList
<1>1. IsList(p) /\ Len(p) = l /\ \A i \in 1..l : p[i] = o[i]
  BY <1>0, Prefix
<1>2. \A i \in 1..l : i \in 1..Len(o)
  BY <1>0
<1> HIDE DEF p, l
<1>3. LoopsAgree(o, p)
  BY <1>1, <1>2 DEF LoopsAgree, LoopStack
<1> QED BY <1>3 DEF p

(* Another node on top: no loop, or the same one.                           *)
LEMMA LoopsReplaced ==
  ASSUME KeysInv, LoopStack(open), open # << >>, NEW n, Looped(n),
         open' = [open EXCEPT ![Len(open)] = n],
         n.kind \in LoopKinds =>
           Top.kind \in LoopKinds /\ n.index = Top.index /\ n.before = Top.before
  PROVE  LoopsAgree(open, open')
<1> DEFINE l == Len(open)
<1>1. /\ IsList(open') /\ Len(open') = l /\ open'[l] = n
      /\ \A i \in 1..(l - 1) : open'[i] = open[i]
  BY KeysReplaced
<1>2. l \in Nat \ {0} /\ l \in 1..l
  BY KeysTop
<1> HIDE DEF l
<1>a. \A i \in 1..l : i = l \/ i \in 1..(l - 1)
  BY <1>2
<1>3. \A i \in 1..l : i = l \/ open'[i] = open[i]
  BY <1>1, <1>a
<1> USE DEF l
<1>4. ASSUME NEW i \in 1..l
      PROVE  /\ Looped(open'[i])
             /\ open'[i].kind \in LoopKinds =>
                  /\ open[i].kind \in LoopKinds
                  /\ open'[i].index = open[i].index /\ open'[i].before = open[i].before
  <2>1. CASE i = l
    BY <1>1, <2>1 DEF Top
  <2>2. CASE open'[i] = open[i]
    BY <2>2 DEF LoopStack
  <2> QED BY <1>3, <2>1, <2>2
<1> QED BY <1>1, <1>4 DEF LoopsAgree, LoopStack

LEMMA LoopsCut ==
  ASSUME LoopStack(open), CloseFn
  PROVE  LoopsAgree(open, open')
<1> DEFINE b == Below
<1>1. open # << >> /\ open' = [i \in DOMAIN b |-> [b[i] EXCEPT !.cut = TRUE]]
  BY DEF CloseFn, IsOpen
<1>2. LoopsAgree(open, b)
  BY <1>1, LoopsPopped DEF Below
<1> HIDE DEF b
<1>3. IsList(b) /\ DOMAIN b = 1..Len(b) /\ Len(b) \in Nat
  BY <1>2, ListType DEF LoopsAgree, LoopStack, IsList
<1>4. ASSUME NEW i \in 1..Len(b)
      PROVE  /\ Looped(open'[i]) /\ open'[i].kind = b[i].kind
             /\ open'[i].index = b[i].index /\ open'[i].before = b[i].before
  <2>1. Looped(b[i])
    BY <1>2 DEF LoopsAgree, LoopStack
  <2>2. open'[i] = [b[i] EXCEPT !.cut = TRUE]
    BY <1>1, <1>3
  <2> DEFINE n == b[i]
             m == open'[i]
  <2> HIDE DEF n, m
  <2>3. Looped(n) /\ m = [n EXCEPT !.cut = TRUE]
    BY <2>1, <2>2 DEF n, m
  <2>4. /\ m.index = n.index /\ m.before = n.before /\ m.kind = n.kind
        /\ DOMAIN m = DOMAIN n
    BY <2>3 DEF Looped
  <2>5. Looped(m)
    BY <2>3, <2>4 DEF Looped
  <2> QED BY <2>4, <2>5 DEF n, m
<1>5. IsList(open') /\ Len(open') = Len(b)
  <2> DEFINE l == Len(b)
             S == {open'[i] : i \in 1..l}
  <2>1. open' = [i \in 1..l |-> open'[i]]
    BY <1>1, <1>3
  <2>2. open' \in [1..l -> S] /\ l \in Nat
    BY <1>3, <2>1
  <2>3. DOMAIN open' = 1..l
    BY <2>1
  <2> HIDE DEF S, l
  <2>4. open' \in Seq(S)
    BY <2>2
  <2>5. Len(open') = l
    BY <2>2, <2>3, <2>4, LenProperties
  <2> QED BY <2>1, <2>2, <2>5 DEF IsList, l
<1> QED BY <1>2, <1>4, <1>5 DEF LoopsAgree, LoopStack

LEMMA LoopsSame ==
  ASSUME NEW o, LoopStack(o)
  PROVE  LoopsAgree(o, o)
BY DEF LoopsAgree

(* What a step that opens and closes no loop records stands in each of the  *)
(* loops that are open.                                                     *)
Fresh(s) ==
  /\ s.id[1] = clock /\ s.at.loops = Place(open).loops
  /\ s.at.test_scope <=> Place(open).test_scope

LEMMA SeenGrows ==
  ASSUME NEW o, NEW p, NEW L, NEW S, NEW T, NEW c, NEW d, Seen(o, L, S, c),
         LoopsAgree(o, p), d \in Nat, c <= d, S \subseteq T,
         \A s \in T : \/ s \in S
                      \/ d = c + 1 /\ s.id[1] = c /\ s.at.loops = Place(o).loops
  PROVE  Seen(p, L, T, d)
<1>0. c \in Nat /\ Len(L) \in Nat /\ LoopStack(p) /\ IsList(L) /\ LoopStack(o)
  BY DEF Seen, LoopsAgree, IsList
<1>1. \A x : x \in Place(o).loops <=>
               \E i \in 1..Len(o) : o[i].kind \in LoopKinds /\ x = o[i].index
  <2>1. DOMAIN o = 1..Len(o)
    BY <1>0, ListType DEF LoopStack
  <2>2. Place(o).loops = {o[i].index : i \in {j \in DOMAIN o : o[j].kind \in LoopKinds}}
    BY DEF Place, LoopKinds
  <2> QED BY <2>1, <2>2
<1>2. \A x \in Place(o).loops : x \in 1..Len(L) /\ ~L[x].closed
  BY <1>1 DEF Seen
<1>3. \A s \in T : s.id[1] \in Nat /\ s.id[1] < d /\ s.at.loops \subseteq 1..Len(L)
  <2> TAKE s \in T
  <2>1. CASE s \in S
    BY <1>0, <2>1 DEF Seen
  <2>2. CASE d = c + 1 /\ s.id[1] = c /\ s.at.loops = Place(o).loops
    BY <1>0, <1>2, <2>2
  <2> QED BY <2>1, <2>2
<1>4. ASSUME NEW i \in 1..Len(p), p[i].kind \in LoopKinds
      PROVE  /\ p[i].index \in 1..Len(L) /\ ~L[p[i].index].closed
             /\ \A x \in p[i].before : x[1] \in Nat /\ x[1] < d
             /\ \A s \in T : s.id \in p[i].before <=> p[i].index \notin s.at.loops
  <2>1. /\ i \in 1..Len(o) /\ o[i].kind \in LoopKinds
        /\ p[i].index = o[i].index /\ p[i].before = o[i].before
    BY <1>4 DEF LoopsAgree
  <2>2. /\ o[i].index \in 1..Len(L) /\ ~L[o[i].index].closed
        /\ \A x \in o[i].before : x[1] \in Nat /\ x[1] < c
        /\ \A s \in S : s.id \in o[i].before <=> o[i].index \notin s.at.loops
    BY <2>1 DEF Seen
  <2>3. ASSUME NEW s \in T PROVE s.id \in o[i].before <=> o[i].index \notin s.at.loops
    <3>1. CASE s \in S
      BY <2>2, <3>1
    <3>2. CASE s.id[1] = c /\ s.at.loops = Place(o).loops
      <4>1. s.id \notin o[i].before
        BY <1>0, <2>2, <3>2
      <4>2. o[i].index \in s.at.loops
        BY <1>1, <2>1, <3>2
      <4> QED BY <4>1, <4>2
    <3> QED BY <3>1, <3>2
  <2>4. \A x \in o[i].before : x[1] \in Nat /\ x[1] < d
    BY <1>0, <2>2
  <2> QED BY <2>1, <2>2, <2>3, <2>4
<1>5. \A i, k \in 1..Len(p) :
        i < k /\ p[i].kind \in LoopKinds /\ p[k].kind \in LoopKinds => p[i].index # p[k].index
  BY DEF LoopsAgree, Seen
<1>6. ASSUME NEW k \in 1..Len(L)
      PROVE  /\ {"closed", "storage_ops", "contract_calls"} \subseteq DOMAIN L[k]
             /\ CountsOf(L[k], k, T)
  <2>1. /\ {"closed", "storage_ops", "contract_calls"} \subseteq DOMAIN L[k]
        /\ CountsOf(L[k], k, S)
    BY DEF Seen
  <2>2. ASSUME L[k].closed, NEW vec PROVE SitesOf(k, vec, T) = SitesOf(k, vec, S)
    <3>1. \A s \in T : k \in s.at.loops => s \in S
      BY <1>2, <2>2
    <3> QED BY <3>1 DEF SitesOf
  <2> QED BY <2>1, <2>2 DEF CountsOf
<1> QED BY <1>0, <1>3, <1>4, <1>5, <1>6 DEF Seen

(* A loop that is entered has seen nothing yet, and no site stands in it.   *)
LEMMA SeenOpened ==
  ASSUME NEW o, NEW L, NEW S, NEW c, Seen(o, L, S, c), NEW n, NEW r, Looped(n),
         n.index = Len(L) + 1, n.before = {s.id : s \in S},
         {"closed", "storage_ops", "contract_calls"} \subseteq DOMAIN r, ~r.closed
  PROVE  Seen(Append(o, n), Append(L, r), S, c + 1)
<1> DEFINE p == Append(o, n)
           M == Append(L, r)
           l == Len(o) + 1
           m == Len(L) + 1
<1>1. /\ IsList(p) /\ Len(p) = l /\ Len(o) \in Nat
      /\ \A i \in 1..Len(o) : p[i] = o[i]
      /\ p[l] = n
  BY Appended DEF Seen, LoopStack, IsList
<1>2. /\ IsList(M) /\ Len(M) = m /\ Len(L) \in Nat
      /\ \A i \in 1..Len(L) : M[i] = L[i]
      /\ M[m] = r
  BY Appended DEF Seen, IsList
<1>3. /\ \A i \in 1..l : i \in 1..Len(o) \/ i = l
      /\ \A k \in 1..m : k \in 1..Len(L) \/ k = m
      /\ \A k \in 1..Len(L) : k \in 1..m /\ k # m
      /\ m \in 1..m /\ c \in Nat
  <2> DEFINE x == Len(o)
             y == Len(L)
  <2>1. x \in Nat /\ y \in Nat /\ c \in Nat
    BY <1>1, <1>2 DEF Seen
  <2>2. l = x + 1 /\ m = y + 1
    OBVIOUS
  <2> HIDE DEF x, y, l, m
  <2>3. /\ \A i \in 1..l : i \in 1..x \/ i = l
        /\ \A k \in 1..m : k \in 1..y \/ k = m
    BY <2>1, <2>2
  <2>4. \A k \in 1..y : k \in 1..m /\ k # m
    BY <2>1, <2>2
  <2>5. m \in 1..m
    BY <2>1, <2>2
  <2> QED BY <2>1, <2>3, <2>4, <2>5 DEF x, y
<1> HIDE DEF p, M
<1>4. \A s \in S : s.id[1] \in Nat /\ s.id[1] < c + 1 /\ s.at.loops \subseteq 1..m
  <2> TAKE s \in S
  <2>1. s.id[1] \in Nat /\ s.id[1] < c /\ s.at.loops \subseteq 1..Len(L)
    BY DEF Seen
  <2> QED BY <1>3, <2>1
<1>5. ASSUME NEW i \in 1..l, p[i].kind \in LoopKinds
      PROVE  /\ p[i].index \in 1..m /\ ~M[p[i].index].closed
             /\ \A x \in p[i].before : x[1] \in Nat /\ x[1] < c + 1
             /\ \A s \in S : s.id \in p[i].before <=> p[i].index \notin s.at.loops
  <2>1. CASE i \in 1..Len(o)
    <3>1. /\ o[i].index \in 1..Len(L) /\ ~L[o[i].index].closed
          /\ \A x \in o[i].before : x[1] \in Nat /\ x[1] < c
          /\ \A s \in S : s.id \in o[i].before <=> o[i].index \notin s.at.loops
      BY <1>1, <1>5, <2>1 DEF Seen
    <3>2. \A x \in o[i].before : x[1] \in Nat /\ x[1] < c + 1
      BY <1>3, <3>1
    <3> QED BY <1>1, <1>2, <1>3, <2>1, <3>1, <3>2
  <2>2. CASE i = l
    <3>1. p[i].index = m /\ p[i].before = {s.id : s \in S}
      BY <1>1, <2>2
    <3>2. \A s \in S : m \notin s.at.loops
      <4> TAKE s \in S
      <4>1. s.at.loops \subseteq 1..Len(L)
        BY DEF Seen
      <4> QED BY <1>3, <4>1
    <3> QED BY <1>2, <1>3, <1>4, <3>1, <3>2
  <2> QED BY <1>3, <2>1, <2>2
<1>6. ASSUME NEW i \in 1..l, NEW k \in 1..l, i < k,
             p[i].kind \in LoopKinds, p[k].kind \in LoopKinds
      PROVE  p[i].index # p[k].index
  <2>1. i \in 1..Len(o)
    BY <1>1, <1>6
  <2>2. CASE k \in 1..Len(o)
    BY <1>1, <1>6, <2>1, <2>2 DEF Seen
  <2>3. CASE k = l
    <3>1. o[i].index \in 1..Len(L)
      BY <1>1, <1>6, <2>1 DEF Seen
    <3> QED BY <1>1, <1>3, <2>1, <2>3, <3>1
  <2> QED BY <1>3, <2>2, <2>3
<1>7. ASSUME NEW k \in 1..m
      PROVE  /\ {"closed", "storage_ops", "contract_calls"} \subseteq DOMAIN M[k]
             /\ CountsOf(M[k], k, S)
  <2>1. CASE k \in 1..Len(L)
    BY <1>2, <2>1 DEF Seen
  <2>2. CASE k = m
    BY <1>2, <2>2 DEF CountsOf
  <2> QED BY <1>3, <2>1, <2>2
<1>8. LoopStack(p)
  <2>1. \A i \in 1..l : Looped(p[i])
    BY <1>1, <1>3 DEF Seen, LoopStack
  <2> QED BY <1>1, <2>1 DEF LoopStack
<1>9. c + 1 \in Nat
  BY <1>3
<1> HIDE DEF l, m
<1>10. Seen(p, M, S, c + 1)
  BY <1>1, <1>2, <1>4, <1>5, <1>6, <1>7, <1>8, <1>9 DEF Seen
<1> QED BY <1>10 DEF p, M

(* What the loop at the top has not seen is what stands in it.              *)
LEMMA SinceIsInside ==
  ASSUME SeenInv, open # << >>, Top.kind = "loop", NEW vec
  PROVE  Since(vec) = SitesOf(Top.index, vec, sites)
<1>1. Len(open) \in 1..Len(open)
  BY DEF SeenInv, Seen, LoopStack, IsList
<1>2. \A s \in sites : s.id \in Top.before <=> Top.index \notin s.at.loops
  BY <1>1 DEF SeenInv, Seen, Top, LoopKinds
<1> DEFINE A == {s.id : s \in {x \in sites : x.vec = vec}}
           k == Top.index
           b == Top.before
<1> HIDE DEF k, b
<1>a. \A s \in sites : s.id \in b <=> k \notin s.at.loops
  BY <1>2 DEF k, b
<1>3. ASSUME NEW x PROVE x \in A \ b <=> x \in SitesOf(k, vec, sites)
  <2>1. ASSUME x \in A \ b PROVE x \in SitesOf(k, vec, sites)
    <3>1. PICK s \in sites : s.vec = vec /\ x = s.id
      BY <2>1
    <3>2. k \in s.at.loops
      BY <1>a, <2>1, <3>1
    <3> QED BY <3>1, <3>2 DEF SitesOf
  <2>2. ASSUME x \in SitesOf(k, vec, sites) PROVE x \in A \ b
    <3>1. PICK s \in sites : s.vec = vec /\ k \in s.at.loops /\ x = s.id
      BY <2>2 DEF SitesOf
    <3> QED BY <1>a, <3>1
  <2> QED BY <2>1, <2>2
<1>4. Since(vec) = A \ b
  BY DEF Since, b
<1> HIDE DEF A
<1> QED BY <1>3, <1>4 DEF k

LEMMA SeenClosed ==
  ASSUME SeenInv, CloseLoop
  PROVE  SeenInv'
<1> DEFINE o == open
           l == Len(open)
           p == Below
           L == loops
           k == Top.index
           a == Since("storage_ops")
           b == Since("calls")
           r == [L[k] EXCEPT !.storage_ops = a, !.contract_calls = b, !.closed = TRUE]
           m == Len(L)
           M == [i \in 1..m |-> IF i = k THEN r ELSE L[i]]
<1>1. /\ open # << >> /\ Top.kind = "loop" /\ open' = p
      /\ loops' = [L EXCEPT ![k] = r] /\ sites' = sites /\ clock' = clock
  BY DEF CloseLoop, IsOpen
<1>2. l \in Nat \ {0} /\ l \in 1..l /\ LoopStack(o) /\ o[l].kind \in LoopKinds
  BY <1>1 DEF SeenInv, Seen, LoopStack, IsList, Top, LoopKinds
<1>3. /\ IsList(L) /\ m \in Nat /\ DOMAIN L = 1..m /\ k \in 1..m
  <2>1. IsList(L)
    BY DEF SeenInv, Seen
  <2>2. o[l].index \in 1..m
    BY <1>2 DEF SeenInv, Seen
  <2> QED BY <2>1, <2>2, ListType DEF IsList, Top
<1>4. a = SitesOf(k, "storage_ops", sites) /\ b = SitesOf(k, "calls", sites)
  BY <1>1, SinceIsInside
<1>5. \A i \in 1..m : /\ {"closed", "storage_ops", "contract_calls"} \subseteq DOMAIN L[i]
                      /\ CountsOf(L[i], i, sites)
  BY DEF SeenInv, Seen
<1> HIDE DEF a, b, k
<1>6. /\ {"closed", "storage_ops", "contract_calls"} \subseteq DOMAIN r
      /\ CountsOf(r, k, sites)
  <2> DEFINE q == L[k]
             t == [q EXCEPT !.storage_ops = a, !.contract_calls = b, !.closed = TRUE]
  <2>1. {"closed", "storage_ops", "contract_calls"} \subseteq DOMAIN q
    BY <1>3, <1>5
  <2> HIDE DEF q
  <2>2. t.storage_ops = a /\ t.contract_calls = b /\ t.closed /\ DOMAIN t = DOMAIN q
    BY <2>1
  <2> HIDE DEF t
  <2>3. {"closed", "storage_ops", "contract_calls"} \subseteq DOMAIN t /\ CountsOf(t, k, sites)
    BY <1>4, <2>1, <2>2 DEF CountsOf
  <2> QED BY <2>3 DEF t, q
<1> HIDE DEF r
<1>7. loops' = M
  BY <1>1, <1>3
<1>8. IsList(M) /\ Len(M) = m
  <2> DEFINE T == {M[i] : i \in 1..m}
  <2>1. M \in [1..m -> T] /\ DOMAIN M = 1..m /\ M = [i \in 1..m |-> M[i]]
    OBVIOUS
  <2> HIDE DEF T, M, m
  <2>2. M \in Seq(T)
    BY <1>3, <2>1
  <2>3. Len(M) = m
    BY <1>3, <2>1, <2>2, LenProperties
  <2> QED BY <1>3, <2>1, <2>3 DEF IsList
<1>9. \A i \in 1..m : M[i] = IF i = k THEN r ELSE L[i]
  OBVIOUS
<1> HIDE DEF M
<1>10. ASSUME NEW i \in 1..m
       PROVE  /\ {"closed", "storage_ops", "contract_calls"} \subseteq DOMAIN M[i]
              /\ CountsOf(M[i], i, sites)
  BY <1>5, <1>6, <1>9
<1>11. LoopsAgree(o, p) /\ IsList(p) /\ Len(p) = l - 1
  <2>1. LoopsAgree(o, p)
    BY <1>1, <1>2, LoopsPopped DEF Below
  <2>2. l - 1 \in 0..l /\ IsList(o)
    BY <1>2 DEF LoopStack
  <2>3. Len(p) = l - 1
    BY <2>2, Prefix DEF Below
  <2> QED BY <2>1, <2>3 DEF LoopsAgree, LoopStack
<1> HIDE DEF p
<1>12. ASSUME NEW i \in 1..Len(p), p[i].kind \in LoopKinds
       PROVE  /\ p[i].index \in 1..m /\ ~M[p[i].index].closed
              /\ \A x \in p[i].before : x[1] \in Nat /\ x[1] < clock
              /\ \A s \in sites : s.id \in p[i].before <=> p[i].index \notin s.at.loops
  <2>1. /\ i \in 1..l /\ o[i].kind \in LoopKinds
        /\ p[i].index = o[i].index /\ p[i].before = o[i].before
    BY <1>11, <1>12 DEF LoopsAgree
  <2>2. i < l
    BY <1>2, <1>11, <1>12
  <2>3. o[i].index # k
    BY <1>2, <2>1, <2>2 DEF SeenInv, Seen, Top, k
  <2>4. /\ o[i].index \in 1..m /\ ~L[o[i].index].closed
        /\ \A x \in o[i].before : x[1] \in Nat /\ x[1] < clock
        /\ \A s \in sites : s.id \in o[i].before <=> o[i].index \notin s.at.loops
    BY <2>1 DEF SeenInv, Seen
  <2> QED BY <1>9, <2>1, <2>3, <2>4
<1>13. \A i, j \in 1..Len(p) :
         i < j /\ p[i].kind \in LoopKinds /\ p[j].kind \in LoopKinds => p[i].index # p[j].index
  BY <1>11 DEF LoopsAgree, SeenInv, Seen
<1>14. /\ clock \in Nat /\ LoopStack(p)
       /\ \A s \in sites : s.id[1] \in Nat /\ s.id[1] < clock /\ s.at.loops \subseteq 1..m
  BY <1>11 DEF SeenInv, Seen, LoopsAgree
<1> HIDE DEF m
<1>15. Seen(p, M, sites, clock)
  BY <1>8, <1>10, <1>12, <1>13, <1>14 DEF Seen
<1> QED BY <1>1, <1>7, <1>15 DEF SeenInv

LEMMA SeenInit == Init => SeenInv
<1> SUFFICES ASSUME Init PROVE SeenInv
  OBVIOUS
<1>1. open = << >> /\ loops = << >> /\ Len(open) = 0 /\ Len(loops) = 0 /\ sites = {} /\ clock = 0
  BY DEF Init
<1>2. IsList(open) /\ IsList(loops)
  BY <1>1, EmptyList
<1> QED BY <1>1, <1>2 DEF SeenInv, Seen, LoopStack

(* The clock of a step, and what is in the vectors after it.                *)
NewSites ==
  /\ sites \subseteq sites'
  /\ clock' = clock \/ clock' = clock + 1
  /\ \A s \in sites' : s \in sites \/ (clock' = clock + 1 /\ Fresh(s))

LEMMA NothingNew ==
  ASSUME sites' = sites, clock' = clock \/ clock' = clock + 1
  PROVE  NewSites
BY DEF NewSites

LEMMA SiteOfFresh ==
  ASSUME NEW v, NEW p, NEW w, NEW g, NEW k, NEW m
  PROVE  Fresh(SiteOf(v, p, w, g, k, m))
<1> DEFINE s == SiteOf(v, p, w, g, k, m)
<1>1. s.id = <<clock, p>> /\ s.at = Place(open)
  BY DEF SiteOf
<1> HIDE DEF s
<1>2. Fresh(s)
  BY <1>1 DEF Fresh
<1> QED BY <1>2 DEF s

LEMMA ChainSiteFresh ==
  ASSUME NEW c, NEW k, NEW i, NEW vec
  PROVE  Fresh(ChainSite(c, k, i, vec))
<1> DEFINE keyed == vec = "storage_ops" /\ HasKey(Upto(c, i))
           s == SiteOf(vec, i, What(Upto(c, i)), guarded_depth > 0 \/ GuardedInside(c, i),
                       IF keyed THEN Resolve(k) ELSE NoKey, Meaning(IF keyed THEN k ELSE NoKey))
           g == s.at.guard \/ GuardedInside(c, i)
           q == [s EXCEPT !.at.guard = g]
<1>1. ChainSite(c, k, i, vec) = q
  BY DEF ChainSite
<1>2. s.id = <<clock, i>> /\ s.at = Place(open) /\ {"id", "at"} \subseteq DOMAIN s
  BY DEF SiteOf
<1>3. {"loops", "guard", "test_scope"} \subseteq DOMAIN Place(open)
  BY DEF Place
<1> HIDE DEF s, g
<1>4. q.id = s.id /\ q.at = [s.at EXCEPT !.guard = g]
  BY <1>2
<1> HIDE DEF q
<1>5. q.at.loops = Place(open).loops /\ q.at.test_scope = Place(open).test_scope
  BY <1>2, <1>3, <1>4
<1>6. q.id[1] = clock
  BY <1>2, <1>4
<1> QED BY <1>1, <1>5, <1>6 DEF Fresh

LEMMA AttributeSiteFresh ==
  ASSUME ContextInv, LoopStack(open), NEW f, NEW n, NEW t
  PROVE  Fresh(AttributeSite(f, FnFrame(n, t)))
<1> DEFINE e == FnFrame(n, t)
           p == Append(open, e)
           s == AttributeSite(f, e)
           l == Len(open) + 1
<1>1. s.id = <<clock, 0>> /\ s.at = Place(p)
  BY DEF AttributeSite
<1>a. Place(p).test_scope <=> Place(open).test_scope
  BY FrameOpened
<1>2. e.kind = "fn"
  BY DEF FnFrame, NodeOf
<1> HIDE DEF e
<1>3. /\ DOMAIN open = 1..Len(open) /\ DOMAIN p = 1..l /\ Len(open) \in Nat
      /\ \A i \in 1..Len(open) : p[i] = open[i]
      /\ p[l] = e
  <2>1. IsList(open)
    BY DEF LoopStack
  <2>2. /\ IsList(p) /\ Len(p) = l /\ p[l] = e /\ Len(open) \in Nat
        /\ \A i \in 1..Len(open) : p[i] = open[i]
    BY <2>1, Appended DEF IsList
  <2> HIDE DEF p, l
  <2> QED BY <2>1, <2>2, ListType
<1> HIDE DEF p
<1>4. Place(p).loops = {p[i].index : i \in {j \in DOMAIN p : p[j].kind \in LoopKinds}}
  BY DEF Place, LoopKinds
<1>5. Place(open).loops = {open[i].index : i \in {j \in DOMAIN open : open[j].kind \in LoopKinds}}
  BY DEF Place, LoopKinds
<1>6. \A i \in 1..l : i \in 1..Len(open) \/ i = l
  BY <1>3
<1>7. \A i \in 1..Len(open) : i \in 1..l
  BY <1>3
<1>8. p[l].kind \notin LoopKinds
  BY <1>2, <1>3 DEF LoopKinds
<1> HIDE DEF l
<1>9. {j \in DOMAIN p : p[j].kind \in LoopKinds}
        = {j \in DOMAIN open : open[j].kind \in LoopKinds}
  BY <1>3, <1>6, <1>7, <1>8
<1>10. \A j \in {i \in DOMAIN open : open[i].kind \in LoopKinds} : p[j].index = open[j].index
  BY <1>3
<1>11. Place(p).loops = Place(open).loops
  BY <1>4, <1>5, <1>9, <1>10
<1> HIDE DEF s
<1>12. Fresh(s)
  BY <1>1, <1>a, <1>11 DEF Fresh
<1> QED BY <1>12 DEF s, e

LEMMA NewEnterBody ==
  ASSUME ContextInv, LoopStack(open), NEW n, NEW t, NEW a \in BOOLEAN,
         EnterBody(n, t, a), Tick
  PROVE  NewSites
<1> DEFINE new == AttributeSite(function', FnFrame(n, t))
<1>1. sites \subseteq sites' /\ sites' \subseteq sites \cup {new}
  BY DEF EnterBody
<1>2. Fresh(new)
  BY AttributeSiteFresh
<1> HIDE DEF new
<1> QED BY <1>1, <1>2 DEF NewSites, Tick

LEMMA ClockNext == [Next]_vars => clock' = clock \/ clock' = clock + 1
<1> SUFFICES ASSUME [Next]_vars PROVE clock' = clock \/ clock' = clock + 1
  OBVIOUS
<1>1. CASE Items
  BY <1>1 DEF Items, BeginFile, OpenMod, DeclareContract, OpenImpl, CloseMod, CloseImpl,
       CloseFn, OpenFn, OpenMethod, Tick
<1>2. CASE Statements
  BY <1>2 DEF Statements, OpenBlock, Let, BindPattern, VisitChain, VisitExpr, VisitCall, OpenGuard,
       OpenLoop, CloseBlock, CloseGuard, StartBody, CloseLoop, Tick
<1>3. CASE Finish \/ UNCHANGED vars
  BY <1>3 DEF Finish, vars
<1> QED BY <1>1, <1>2, <1>3 DEF Next

LEMMA NewNext == ContextInv /\ LoopStack(open) /\ [Next]_vars => NewSites
<1> SUFFICES ASSUME ContextInv, LoopStack(open), [Next]_vars PROVE NewSites
  OBVIOUS
<1>1. CASE \E n \in vocabulary.names, t, a \in BOOLEAN : OpenFn(n, t, a)
  BY <1>1, NewEnterBody DEF OpenFn
<1>2. CASE \E n \in vocabulary.names, p, r, t, a \in BOOLEAN : OpenMethod(n, p, r, t, a)
  BY <1>2, NewEnterBody DEF OpenMethod
<1>3. CASE \E c \in vocabulary.chains, k \in KeyExpr : VisitChain(c, k)
  <2>1. PICK c \in vocabulary.chains, k \in KeyExpr : VisitChain(c, k)
    BY <1>3
  <2>2. \A s \in ChainSites(c, k) : Fresh(s)
    BY ChainSiteFresh DEF ChainSites
  <2>3. /\ sites \subseteq sites' /\ sites' \subseteq sites \cup ChainSites(c, k)
        /\ clock' = clock + 1
    BY <2>1 DEF VisitChain, Tick
  <2> QED BY <2>2, <2>3 DEF NewSites
<1>4. CASE \E e \in vocabulary.operations : VisitExpr(e)
  <2>1. PICK e \in vocabulary.operations : VisitExpr(e)
    BY <1>4
  <2> DEFINE New == {SiteOf(vec, 0, WhatExpr(e), guarded_depth > 0, NoKey, Meaning(NoKey)) :
                       vec \in RecordedExpr(e)}
  <2>2. \A s \in New : Fresh(s)
    BY SiteOfFresh
  <2>3. sites \subseteq sites' /\ sites' \subseteq sites \cup New /\ clock' = clock + 1
    BY <2>1 DEF VisitExpr, Tick
  <2> HIDE DEF New
  <2> QED BY <2>2, <2>3 DEF NewSites
<1>5. CASE OpenGuard("cond", FALSE) \/ \E w \in BOOLEAN : OpenGuard("guard", w)
  <2> DEFINE s == SiteOf("arithmetic", 0, WrappingCall, guarded_depth > 0, NoKey, Meaning(NoKey))
  <2>1. Fresh(s)
    BY SiteOfFresh
  <2>2. sites \subseteq sites' /\ sites' \subseteq sites \cup {s} /\ clock' = clock + 1
    BY <1>5 DEF OpenGuard, Tick
  <2> HIDE DEF s
  <2> QED BY <2>1, <2>2 DEF NewSites
<1>6. CASE sites' = sites
  BY <1>6, ClockNext, NothingNew
<1> QED BY <1>1, <1>2, <1>3, <1>4, <1>5, <1>6, SitesChange

--------------------------------------------------------------------------
LEMMA NodeLooped ==
  ASSUME NEW k, NEW n, NEW c, NEW t, NEW i, NEW b
  PROVE  LET m == NodeOf(k, n, c, t, i, b)
         IN Looped(m) /\ m.kind = k /\ m.index = i /\ m.before = b
<1> DEFINE m == NodeOf(k, n, c, t, i, b)
<1>1. m.kind = k /\ m.index = i /\ m.before = b
  BY DEF NodeOf
<1>2. Looped(m)
  BY DEF NodeOf, Looped
<1> QED BY <1>1, <1>2

LEMMA AgreeEnter ==
  ASSUME LoopStack(open), NEW k, NEW n, NEW c, NEW t, NEW i, NEW b,
         open' = Append(open, NodeOf(k, n, c, t, i, b)), k \notin LoopKinds
  PROVE  LoopsAgree(open, open')
<1> DEFINE m == NodeOf(k, n, c, t, i, b)
<1>1. Looped(m) /\ m.kind \notin LoopKinds
  BY NodeLooped
<1>2. open' = Append(open, m)
  OBVIOUS
<1> HIDE DEF m
<1> QED BY <1>1, <1>2, LoopsPushed

LEMMA AgreeLeave ==
  ASSUME LoopStack(open), open # << >>, open' = Below
  PROVE  LoopsAgree(open, open')
BY LoopsPopped DEF Below

LEMMA LoopedTop ==
  ASSUME LoopStack(open), open # << >>
  PROVE  Looped(Top)
<1>1. Len(open) \in 1..Len(open)
  BY DEF LoopStack, IsList
<1> QED BY <1>1 DEF LoopStack, Top

LEMMA AgreeKind ==
  ASSUME KeysInv, LoopStack(open), open # << >>, NEW k,
         open' = [open EXCEPT ![Len(open)].kind = k],
         k \in LoopKinds => Top.kind \in LoopKinds
  PROVE  LoopsAgree(open, open')
<1> DEFINE t == Top
           n == [t EXCEPT !.kind = k]
<1>1. open' = [open EXCEPT ![Len(open)] = n]
  BY DEF Top
<1>2. Looped(t)
  BY LoopedTop
<1> HIDE DEF t
<1>3. n.kind = k /\ n.index = t.index /\ n.before = t.before /\ DOMAIN n = DOMAIN t
  BY <1>2 DEF Looped
<1> HIDE DEF n
<1>4. Looped(n)
  BY <1>2, <1>3 DEF Looped
<1> QED BY <1>1, <1>3, <1>4, LoopsReplaced DEF t

LEMMA AgreeRebinds ==
  ASSUME KeysInv, LoopStack(open), Rebinds
  PROVE  LoopsAgree(open, open')
<1>0. open # << >>
  BY DEF Rebinds, IsOpen
<1>1. PICK w : open' = [open EXCEPT ![Len(open)] = [Top EXCEPT !.names = w]]
  BY Rebound
<1> DEFINE t == Top
           n == [t EXCEPT !.names = w]
<1>a. open' = [open EXCEPT ![Len(open)] = n]
  BY <1>1
<1>2. Looped(t)
  BY <1>0, LoopedTop
<1> HIDE DEF t
<1>3. n.kind = t.kind /\ n.index = t.index /\ n.before = t.before /\ DOMAIN n = DOMAIN t
  BY <1>2 DEF Looped
<1> HIDE DEF n
<1>4. Looped(n)
  BY <1>2, <1>3 DEF Looped
<1> QED BY <1>0, <1>a, <1>3, <1>4, LoopsReplaced DEF t

(* The steps that leave the loops alone.                                    *)
LEMMA AgreeItems ==
  ASSUME LoopStack(open), Items
  PROVE  LoopsAgree(open, open')
<1>0. \A k \in {"mod", "impl", "fn"} : k \notin LoopKinds
  BY DEF LoopKinds
<1>1. CASE open' = open
  BY <1>1, LoopsSame
<1>2. CASE \E t \in BOOLEAN : OpenMod(t)
  BY <1>0, <1>2, AgreeEnter DEF OpenMod, Push
<1>3. CASE \E i \in vocabulary.impls : OpenImpl(i)
  BY <1>0, <1>3, AgreeEnter DEF OpenImpl, Push
<1>4. ASSUME NEW n, NEW t, NEW a, EnterBody(n, t, a)
      PROVE  LoopsAgree(open, open')
  <2>1. CASE open' = Append(open, FnFrame(n, t))
    BY <1>0, <1>4, <2>1, AgreeEnter DEF FnFrame
  <2> QED BY <1>1, <1>4, <2>1 DEF EnterBody, Push
<1>5. CASE \E n \in vocabulary.names, t, a \in BOOLEAN : OpenFn(n, t, a)
  BY <1>4, <1>5 DEF OpenFn
<1>6. CASE \E n \in vocabulary.names, p, r, t, a \in BOOLEAN : OpenMethod(n, p, r, t, a)
  BY <1>4, <1>6 DEF OpenMethod
<1>7. CASE CloseMod \/ CloseImpl
  <2>1. open # << >> /\ open' = Below
    BY <1>7 DEF CloseMod, CloseImpl, IsOpen
  <2> QED BY <2>1, AgreeLeave
<1>8. CASE (\E t \in BOOLEAN : BeginFile(t)) \/ (\E c \in ContractName : DeclareContract(c))
  <2>1. open' = open
    BY <1>8 DEF BeginFile, DeclareContract
  <2> QED BY <1>1, <2>1
<1> QED BY <1>2, <1>3, <1>5, <1>6, <1>7, <1>8, LoopsCut DEF Items

LEMMA AgreeStatements ==
  ASSUME KeysInv, LoopStack(open), Statements, loops' = loops, ~CloseLoop
  PROVE  LoopsAgree(open, open') \/ \E k \in {"for", "while", "loop"}, b \in BOOLEAN : OpenLoop(k, b)
<1>0. \A k \in {"block", "trait_fn", "cond", "guard"} : k \notin LoopKinds
  BY DEF LoopKinds
<1>1. CASE open' = open
  BY <1>1, LoopsSame
<1>2. CASE \E k \in {"block", "trait_fn"} : OpenBlock(k)
  <2>1. PICK k \in {"block", "trait_fn"} : OpenBlock(k)
    BY <1>2
  <2>2. open' = Append(open, Node(k))
    BY <2>1 DEF OpenBlock, Push
  <2> QED BY <1>0, <2>2, AgreeEnter DEF Node
<1>3. CASE (\E k \in Ident, v \in Bound : Let(k, v)) \/ \E k \in Ident : BindPattern(k)
  BY <1>3, BindingStep, AgreeRebinds
<1>4. CASE OpenGuard("cond", FALSE) \/ \E w \in BOOLEAN : OpenGuard("guard", w)
  <2>1. PICK k \in {"cond", "guard"} : open' = Append(open, Node(k))
    BY <1>4 DEF OpenGuard, Push
  <2> QED BY <1>0, <2>1, AgreeEnter DEF Node
<1>5. CASE CloseBlock
  <2>1. open # << >> /\ open' = Below
    BY <1>5 DEF CloseBlock, IsOpen
  <2> QED BY <2>1, AgreeLeave
<1>6. CASE CloseGuard
  <2>1. /\ open # << >>
        /\ \/ open' = [open EXCEPT ![Len(open)].kind = "block"]
           \/ open' = Below
    BY <1>6 DEF CloseGuard, IsOpen
  <2> QED BY <1>0, <2>1, AgreeKind, AgreeLeave
<1>7. CASE StartBody
  <2>1. /\ open # << >> /\ Top.kind \in LoopKinds
        /\ open' = [open EXCEPT ![Len(open)].kind = "loop"]
    BY <1>7 DEF StartBody, IsOpen, LoopKinds
  <2> QED BY <2>1, AgreeKind
<1>8. CASE \/ \E c \in vocabulary.chains, k \in KeyExpr : VisitChain(c, k)
           \/ \E e \in vocabulary.operations : VisitExpr(e)
           \/ \E n \in vocabulary.names, m \in BOOLEAN : VisitCall(n, m)
  <2>1. open' = open
    BY <1>8 DEF VisitChain, VisitExpr, VisitCall
  <2> QED BY <1>1, <2>1
<1> QED BY <1>2, <1>3, <1>4, <1>5, <1>6, <1>7, <1>8 DEF Statements

LEMMA SeenOpenLoop ==
  ASSUME SeenInv, NEW k \in {"for", "while", "loop"}, NEW b \in BOOLEAN, OpenLoop(k, b)
  PROVE  SeenInv'
<1> DEFINE r == LoopHere(b)
           M == Append(loops, r)
           ids == {s.id : s \in sites}
           NodeFor(j) == NodeOf(j, NoName, NoName, FALSE, Len(loops) + 1, ids)
<1>1. loops' = M /\ sites' = sites /\ clock' = clock + 1
  BY DEF OpenLoop, Tick
<1>2. {"closed", "storage_ops", "contract_calls"} \subseteq DOMAIN r /\ ~r.closed
  BY DEF LoopHere
<1> HIDE DEF r, ids
<1>3. ASSUME NEW j PROVE Seen(Append(open, NodeFor(j)), M, sites, clock + 1)
  <2> DEFINE n == NodeOf(j, NoName, NoName, FALSE, Len(loops) + 1, ids)
  <2>1. Looped(n) /\ n.index = Len(loops) + 1 /\ n.before = ids
    <3>1. n.index = Len(loops) + 1 /\ n.before = ids
      BY DEF NodeOf
    <3>2. Looped(n)
      BY DEF NodeOf, Looped
    <3> QED BY <3>1, <3>2
  <2> HIDE DEF n
  <2>2. n.before = {s.id : s \in sites}
    BY <2>1 DEF ids
  <2>3. Seen(Append(open, n), Append(loops, r), sites, clock + 1)
    BY <1>2, <2>1, <2>2, SeenOpened DEF SeenInv
  <2> QED BY <2>3 DEF n
<1>4. CASE open' = Append(open, LoopNode("iter")) \/ open' = Append(open, LoopNode("loop"))
  <2>1. PICK j : open' = Append(open, NodeFor(j))
    BY <1>4 DEF LoopNode, ids
  <2> DEFINE o == Append(open, NodeFor(j))
  <2>2. open' = o /\ Seen(o, M, sites, clock + 1)
    BY <1>3, <2>1
  <2> HIDE DEF o, M
  <2> QED BY <1>1, <2>2 DEF SeenInv
<1>5. CASE open' = Append(Append(open, LoopNode("loop")), Node("guard"))
  <2> DEFINE o == Append(open, NodeFor("loop"))
             g == Node("guard")
  <2>1. open' = Append(o, g)
    BY <1>5 DEF LoopNode, ids
  <2>2. Looped(g) /\ g.kind \notin LoopKinds
    <3>1. Looped(g)
      BY DEF Node, NodeOf, Looped
    <3>2. g.kind = "guard"
      BY DEF Node, NodeOf
    <3> HIDE DEF g
    <3> QED BY <3>1, <3>2 DEF LoopKinds
  <2>3. Seen(o, M, sites, clock + 1)
    BY <1>3
  <2> HIDE DEF o, g, M
  <2>4. LoopsAgree(o, open')
    BY <2>1, <2>2, <2>3, LoopsPushed DEF Seen
  <2>5. clock + 1 \in Nat /\ clock + 1 <= clock + 1
    BY DEF SeenInv, Seen
  <2>6. Seen(open', M, sites, clock + 1)
    BY <2>3, <2>4, <2>5, SeenGrows
  <2> QED BY <1>1, <2>6 DEF SeenInv
<1> QED BY <1>4, <1>5 DEF OpenLoop

LEMMA SeenNext == ContextInv /\ KeysInv /\ SeenInv /\ [Next]_vars => SeenInv'
<1> SUFFICES ASSUME ContextInv, KeysInv, SeenInv, [Next]_vars PROVE SeenInv'
  OBVIOUS
<1>1. CASE CloseLoop
  BY <1>1, SeenClosed
<1>2. CASE \E k \in {"for", "while", "loop"}, b \in BOOLEAN : OpenLoop(k, b)
  BY <1>2, SeenOpenLoop
<1>3. CASE loops' = loops /\ LoopsAgree(open, open')
  <2>1. NewSites
    BY NewNext DEF SeenInv, Seen
  <2>2. clock \in Nat /\ clock' \in Nat /\ clock <= clock'
    BY <2>1 DEF SeenInv, Seen, NewSites
  <2>3. \A s \in sites' : \/ s \in sites
                          \/ clock' = clock + 1 /\ s.id[1] = clock /\ s.at.loops = Place(open).loops
    BY <2>1 DEF NewSites, Fresh
  <2>4. Seen(open', loops, sites', clock')
    BY <1>3, <2>1, <2>2, <2>3, SeenGrows DEF SeenInv, NewSites
  <2> QED BY <1>3, <2>4 DEF SeenInv
<1>4. LoopStack(open)
  BY DEF SeenInv, Seen
<1>5. CASE Finish \/ UNCHANGED vars
  <2>1. open' = open /\ loops' = loops
    BY <1>5 DEF Finish, vars, vectors
  <2> QED BY <1>3, <1>4, <2>1, LoopsSame
<1>6. CASE Items
  <2>1. LoopsAgree(open, open')
    BY <1>4, <1>6, AgreeItems
  <2>2. loops' = loops
    BY <1>6 DEF Items, BeginFile, OpenMod, DeclareContract, OpenImpl, CloseMod,
         CloseImpl, CloseFn, OpenFn, OpenMethod, vectors
  <2> QED BY <1>3, <2>1, <2>2
<1>7. CASE Statements
  <2>1. CASE loops' = loops
    BY <1>1, <1>2, <1>3, <1>4, <1>7, <2>1, AgreeStatements
  <2>2. CASE ~(loops' = loops)
    BY <1>1, <1>2, <2>2, LoopsChange
  <2> QED BY <2>1, <2>2
<1> QED BY <1>5, <1>6, <1>7 DEF Next

(* The counters of a loop count what stands in it and what it iterates, for *)
(* loops in loops of any depth and whatever was recorded before and after.  *)
THEOREM LoopsCountTheirOwn == Spec => []LoopCounters
<1>1. Init => ContextInv /\ KeysInv /\ SeenInv
  BY ContextInit, KeysInit, SeenInit
<1>2. ContextInv /\ KeysInv /\ SeenInv /\ [Next]_vars => ContextInv' /\ KeysInv' /\ SeenInv'
  BY ContextNext, KeysNext, SeenNext
<1>3. SeenInv => LoopCounters
  <2> SUFFICES ASSUME SeenInv, NEW i \in DOMAIN loops, loops[i].closed
               PROVE  /\ loops[i].storage_ops = SitesOf(i, "storage_ops", sites)
                      /\ loops[i].contract_calls = SitesOf(i, "calls", sites)
    BY DEF LoopCounters, SitesOf
  <2>1. i \in 1..Len(loops)
    BY ListType DEF SeenInv, Seen
  <2> QED BY <2>1 DEF SeenInv, Seen, CountsOf
<1> QED BY <1>1, <1>2, <1>3, PTL DEF Spec

--------------------------------------------------------------------------
(* What finish finds: the contracts of the open impl blocks are listed,     *)
(* unless they stand in test code, and open functions have names.           *)
EnteredAt(c, o, k, it, tf, listed) ==
  \A j \in 0..(k - 1) :
    /\ \A i \in (j + 1)..(k - 1) : o[i].kind # "impl"
    /\ it \/ (~tf /\ ~c.is_test /\ \A i \in 1..j : o[i].kind = "mod" => ~o[i].test)
    /\ c.in_contract_impl /\ c.contract # NoName
    => c.contract \in listed

Named(o) ==
  \A i \in 1..Len(o) : o[i].kind = "fn" => o[i].cut \/ o[i].name \in Name

Entered(o, c, it, tf, listed) ==
  /\ EnteredAt(c, o, Len(o) + 1, it, tf, listed)
  /\ \A k \in 1..Len(o) : o[k].kind = "impl" => EnteredAt(o[k].previous, o, k, it, tf, listed)

EnteredInv ==
  Named(open) /\ Entered(open, impl_ctx, include_tests, test_file, impl_contracts)

(* p has the impl blocks of o, and its test modules as far as both go.      *)
Alike(o, p) ==
  /\ \A i \in 1..Len(p) : p[i].kind = "fn" =>
       \/ p[i].cut \/ p[i].name \in Name
       \/ i \in 1..Len(o) /\ o[i].kind = "fn" /\ o[i].cut = p[i].cut /\ o[i].name = p[i].name
  /\ \A i \in 1..Len(p) : p[i].kind = "impl" =>
       i \in 1..Len(o) /\ o[i].kind = "impl" /\ o[i].previous = p[i].previous
  /\ \A i \in 1..Len(o) : o[i].kind = "impl" => i \in 1..Len(p) /\ p[i].kind = "impl"
  /\ \A i \in 1..Len(o) : i <= Len(p) /\ o[i].kind \in Marks /\ o[i].test =>
       p[i].kind = o[i].kind /\ p[i].test

LEMMA NamedAlike ==
  ASSUME NEW o, NEW p, Named(o), Alike(o, p)
  PROVE  Named(p)
BY DEF Named, Alike

LEMMA EnteredAlike ==
  ASSUME NEW o, NEW p, NEW c, NEW it, NEW tf, NEW listed, NEW more,
         IsStack(o), IsStack(p), Alike(o, p), listed \subseteq more,
         Entered(o, c, it, tf, listed)
  PROVE  Entered(p, c, it, tf, more)
<1> DEFINE l == Len(o)
           m == Len(p)
<1>1. l \in Nat /\ m \in Nat
  BY DEF IsStack, IsList
<1>2. ASSUME NEW x, NEW a \in 1..(l + 1), NEW b \in 1..(m + 1),
             \/ a = b
             \/ a = l + 1 /\ b = m + 1,
             EnteredAt(x, o, a, it, tf, listed)
      PROVE  EnteredAt(x, p, b, it, tf, more)
  <2> SUFFICES ASSUME NEW j \in 0..(b - 1),
                      \A i \in (j + 1)..(b - 1) : p[i].kind # "impl",
                      it \/ (~tf /\ ~x.is_test /\ \A i \in 1..j : p[i].kind = "mod" => ~p[i].test),
                      x.in_contract_impl, x.contract # NoName
               PROVE  x.contract \in more
    BY DEF EnteredAt
  <2> DEFINE h == IF j <= a - 1 THEN j ELSE a - 1
  <2>1. h \in 0..(a - 1) /\ h <= j
    BY <1>1
  <2>2. ASSUME NEW i \in (h + 1)..(a - 1) PROVE o[i].kind # "impl"
    <3>1. i \in 1..l /\ i > j
      BY <1>1, <2>2
    <3>2. i <= m => i <= b - 1
      BY <1>1, <1>2, <2>2
    <3>3. o[i].kind = "impl" => i \in 1..m /\ p[i].kind = "impl"
      BY <3>1 DEF Alike
    <3>4. i \in 1..m => i \in (j + 1)..(b - 1)
      BY <1>1, <3>1, <3>2
    <3> QED BY <3>3, <3>4
  <2> HIDE DEF h
  <2>3. ASSUME NEW i \in 1..h, \A k \in 1..j : p[k].kind = "mod" => ~p[k].test, o[i].kind = "mod"
        PROVE  ~o[i].test
    <3>1. i \in 1..l /\ i \in 1..j /\ i <= m
      BY <1>1, <2>1
    <3> QED BY <2>3, <3>1 DEF Alike, Marks
  <2>4. it \/ (~tf /\ ~x.is_test /\ \A i \in 1..h : o[i].kind = "mod" => ~o[i].test)
    BY <2>3
  <2>5. x.contract \in listed
    BY <1>2, <2>1, <2>2, <2>4 DEF EnteredAt
  <2> QED BY <2>5
<1>3. EnteredAt(c, p, m + 1, it, tf, more)
  <2>1. l + 1 \in 1..(l + 1) /\ m + 1 \in 1..(m + 1)
    BY <1>1
  <2>2. EnteredAt(c, o, l + 1, it, tf, listed)
    BY DEF Entered
  <2> HIDE DEF l, m
  <2> QED BY <1>2, <2>1, <2>2
<1>4. ASSUME NEW k \in 1..m, p[k].kind = "impl"
      PROVE  EnteredAt(p[k].previous, p, k, it, tf, more)
  <2>1. k \in 1..l /\ o[k].kind = "impl" /\ o[k].previous = p[k].previous
    BY <1>4 DEF Alike
  <2>2. EnteredAt(p[k].previous, o, k, it, tf, listed)
    BY <2>1 DEF Entered
  <2>3. k \in 1..(l + 1) /\ k \in 1..(m + 1)
    BY <1>1, <2>1
  <2> HIDE DEF l, m
  <2> QED BY <1>2, <2>2, <2>3
<1> QED BY <1>3, <1>4 DEF Entered

LEMMA AlikePushed ==
  ASSUME NEW o, IsStack(o), NEW n, IsNode(n), n.kind # "impl",
         n.kind = "fn" => n.name \in Name
  PROVE  IsStack(Append(o, n)) /\ Alike(o, Append(o, n))
<1> DEFINE p == Append(o, n)
           l == Len(o) + 1
<1>1. /\ IsStack(p) /\ Len(p) = l /\ Len(o) \in Nat
      /\ \A i \in 1..Len(o) : p[i] = o[i]
      /\ p[l] = n
  BY Pushed DEF IsStack, IsList
<1>2. /\ \A i \in 1..l : i \in 1..Len(o) \/ i = l
      /\ \A i \in 1..Len(o) : i \in 1..l
  BY <1>1
<1> HIDE DEF p, l
<1>3. \A i \in 1..l : p[i].kind = "fn" => p[i].name \in Name \/ (i \in 1..Len(o) /\ p[i] = o[i])
  BY <1>1, <1>2
<1>4. \A i \in 1..l : p[i].kind = "impl" => i \in 1..Len(o) /\ p[i] = o[i]
  BY <1>1, <1>2
<1>5. Alike(o, p)
  BY <1>1, <1>2, <1>3, <1>4 DEF Alike
<1> QED BY <1>1, <1>5 DEF p

LEMMA AlikePopped ==
  ASSUME NEW o, IsStack(o), o # << >>, o[Len(o)].kind # "impl"
  PROVE  IsStack(SubSeq(o, 1, Len(o) - 1)) /\ Alike(o, SubSeq(o, 1, Len(o) - 1))
<1> DEFINE p == SubSeq(o, 1, Len(o) - 1)
           l == Len(o) - 1
<1>1. /\ IsStack(p) /\ Len(p) = l /\ Len(o) \in Nat \ {0}
      /\ \A i \in 1..l : p[i] = o[i]
  BY Popped
<1>2. /\ \A i \in 1..Len(o) : i \in 1..l \/ i = Len(o)
      /\ \A i \in 1..l : i \in 1..Len(o)
      /\ \A i \in 1..Len(o) : i <= l => i \in 1..l
  BY <1>1
<1> HIDE DEF p, l
<1>3. \A i \in 1..Len(o) : o[i].kind = "impl" => i \in 1..l /\ p[i] = o[i]
  BY <1>1, <1>2
<1>4. Alike(o, p)
  BY <1>1, <1>2, <1>3 DEF Alike
<1> QED BY <1>1, <1>4 DEF p

(* Another node on top that is none of these, or the same one.              *)
Marking == {"mod", "impl", "fn"}

LEMMA AlikeAgrees ==
  ASSUME NEW o, NEW p, IsStack(o), IsStack(p), Agree(o, p, Marking)
  PROVE  Alike(o, p)
<1>1. Len(o) \in Nat /\ Len(p) \in Nat
  BY DEF IsStack, IsList
<1>2. \A i \in 1..Len(o) : i \in Nat \ {0} /\ i <= Len(o)
  BY <1>1
<1>3. \A i \in 1..Len(p) : i \in Nat \ {0} /\ i <= Len(p)
  BY <1>1
<1>4. ASSUME NEW i \in 1..Len(o), o[i].kind \in Marking
      PROVE  i \in 1..Len(p) /\ p[i].kind = o[i].kind /\ p[i].test = o[i].test
  <2>1. i <= Len(p) /\ p[i].kind = o[i].kind /\ p[i].test = o[i].test
    BY <1>2, <1>4 DEF Agree
  <2>2. i \in 1..Len(p)
    BY <1>1, <2>1
  <2> QED BY <2>1, <2>2
<1>5. ASSUME NEW i \in 1..Len(p), p[i].kind \in Marking
      PROVE  /\ i \in 1..Len(o) /\ o[i].kind = p[i].kind /\ o[i].previous = p[i].previous
             /\ o[i].cut = p[i].cut /\ o[i].name = p[i].name
  <2>1. i <= Len(o) /\ o[i].kind \in Marking
    BY <1>3, <1>5 DEF Agree
  <2>2. i \in 1..Len(o)
    BY <1>1, <2>1
  <2>3. /\ o[i].kind = p[i].kind /\ o[i].previous = p[i].previous
        /\ o[i].cut = p[i].cut /\ o[i].name = p[i].name
    BY <1>3, <2>1 DEF Agree
  <2> QED BY <2>2, <2>3
<1>6. (\A k \in {"mod", "impl", "fn"} : k \in Marking) /\ Marks \subseteq Marking
  BY DEF Marking, Marks
<1> QED BY <1>4, <1>5, <1>6 DEF Alike

LEMMA AlikeSame ==
  ASSUME NEW o
  PROVE  Alike(o, o)
BY DEF Alike

LEMMA AlikeCut ==
  ASSUME IsStack(open), CloseFn
  PROVE  IsStack(open') /\ Alike(open, open')
<1> DEFINE l == Len(open) - 1
<1>1. /\ IsStack(open') /\ Len(open') = l /\ Len(open) \in Nat \ {0}
      /\ open[Len(open)].kind = "fn"
      /\ \A i \in 1..l : /\ open'[i].kind = open[i].kind /\ open'[i].cut
                        /\ open'[i].previous = open[i].previous
                        /\ open'[i].test = open[i].test
  BY CutBelow
<1>2. /\ \A i \in 1..Len(open) : i \in 1..l \/ i = Len(open)
      /\ \A i \in 1..l : i \in 1..Len(open)
      /\ \A i \in 1..Len(open) : i <= l => i \in 1..l
  BY <1>1
<1> HIDE DEF l
<1>3. \A i \in 1..Len(open) : open[i].kind = "impl" => i \in 1..l
  BY <1>1, <1>2
<1> QED BY <1>1, <1>2, <1>3 DEF Alike

(* The steps that leave the impl blocks and the file alone.                 *)
LEMMA NodeEntered ==
  ASSUME NEW k, NEW n, NEW c, NEW t, NEW i, NEW b
  PROVE  LET m == NodeOf(k, n, c, t, i, b)
         IN IsNode(m) /\ m.kind = k /\ m.name = n /\ m.test = t /\ m.previous = impl_ctx
<1> DEFINE m == NodeOf(k, n, c, t, i, b)
<1>1. m.kind = k /\ m.name = n /\ m.test = t /\ m.previous = impl_ctx
  BY DEF NodeOf
<1>2. IsNode(m)
  BY DEF NodeOf, IsNode
<1> QED BY <1>1, <1>2

LEMMA AlikeEnter ==
  ASSUME IsStack(open), NEW k, NEW n, NEW c, NEW t, NEW i, NEW b,
         open' = Append(open, NodeOf(k, n, c, t, i, b)),
         k # "impl", k = "fn" => n \in Name
  PROVE  IsStack(open') /\ Alike(open, open')
<1> DEFINE m == NodeOf(k, n, c, t, i, b)
<1>1. IsNode(m) /\ m.kind = k /\ m.name = n
  BY NodeEntered
<1>2. open' = Append(open, m)
  OBVIOUS
<1> HIDE DEF m
<1> QED BY <1>1, <1>2, AlikePushed

LEMMA AlikeLeave ==
  ASSUME IsStack(open), open # << >>, Top.kind # "impl", open' = Below
  PROVE  IsStack(open') /\ Alike(open, open')
BY AlikePopped DEF Below, Top

LEMMA AlikeTop ==
  ASSUME IsStack(open), open # << >>, NEW n, IsNode(n), open' = [open EXCEPT ![Len(open)] = n],
         \/ Top.kind \notin Marking /\ n.kind \notin Marking
         \/ /\ n.kind = Top.kind /\ n.name = Top.name
            /\ n.contract = Top.contract /\ n.cut = Top.cut
            /\ n.previous = Top.previous /\ n.test = Top.test
  PROVE  IsStack(open') /\ Alike(open, open')
<1>1. IsStack(open') /\ Agree(open, open', Marking)
  BY TopAgrees DEF Top
<1> QED BY <1>1, AlikeAgrees

LEMMA AlikeKind ==
  ASSUME ContextInv, open # << >>, NEW k, open' = [open EXCEPT ![Len(open)].kind = k],
         Top.kind \notin Marking, k \notin Marking
  PROVE  IsStack(open') /\ Alike(open, open')
<1> DEFINE t == Top
           n == [t EXCEPT !.kind = k]
<1>1. open' = [open EXCEPT ![Len(open)] = n]
  BY DEF Top
<1>2. IsNode(t)
  BY TopIsNode
<1> HIDE DEF t
<1>a. n.kind = k /\ DOMAIN n = DOMAIN t
  BY <1>2 DEF IsNode
<1>3. IsNode(n) /\ n.kind = k
  BY <1>2, <1>a DEF IsNode
<1> HIDE DEF n
<1> QED BY <1>1, <1>3, AlikeTop DEF t, ContextInv

LEMMA AlikeRebinds ==
  ASSUME ContextInv, Rebinds
  PROVE  IsStack(open') /\ Alike(open, open')
<1>1. PICK w : open' = [open EXCEPT ![Len(open)] = [Top EXCEPT !.names = w]]
  BY Rebound
<1> DEFINE t == Top
           n == [t EXCEPT !.names = w]
<1>0. open # << >>
  BY DEF Rebinds, IsOpen
<1>2. open' = [open EXCEPT ![Len(open)] = n]
  BY <1>1
<1>3. IsNode(t)
  BY <1>0, TopIsNode
<1> HIDE DEF t
<1>4. /\ IsNode(n) /\ n.kind = t.kind /\ n.name = t.name
      /\ n.contract = t.contract /\ n.cut = t.cut /\ n.previous = t.previous
      /\ n.test = t.test
  <2>1. n = [t EXCEPT !.names = w]
    OBVIOUS
  <2> HIDE DEF n
  <2> QED BY <1>3, <2>1, NodeWithNames
<1> HIDE DEF n
<1> QED BY <1>0, <1>2, <1>4, AlikeTop DEF t, ContextInv

LEMMA AlikeOpenLoop ==
  ASSUME IsStack(open), NEW k \in {"for", "while", "loop"}, NEW b, OpenLoop(k, b)
  PROVE  IsStack(open') /\ Alike(open, open')
<1>1. \A j \in {"iter", "loop"} : IsNode(LoopNode(j)) /\ LoopNode(j).kind = j
  <2> TAKE j \in {"iter", "loop"}
  <2>1. LoopNode(j).kind = j
    BY DEF LoopNode, NodeOf
  <2>2. IsNode(LoopNode(j))
    BY DEF LoopNode, NodeOf, IsNode
  <2> QED BY <2>1, <2>2
<1>2. \A j \in {"iter", "loop", "guard"} : j \notin Marking
  BY DEF Marking
<1>3. CASE k = "for" \/ k = "loop"
  <2>1. PICK j \in {"iter", "loop"} : open' = Append(open, LoopNode(j))
    BY <1>3 DEF OpenLoop
  <2>2. IsStack(open') /\ Agree(open, open', Marking)
    BY <1>1, <1>2, <2>1, PushAgrees
  <2> QED BY <2>2, AlikeAgrees
<1>4. CASE k = "while"
  <2> DEFINE o == Append(open, LoopNode("loop"))
  <2>1. open' = Append(o, Node("guard"))
    BY <1>4 DEF OpenLoop
  <2>2. IsStack(o) /\ Agree(open, o, Marking)
    BY <1>1, <1>2, PushAgrees
  <2> HIDE DEF o
  <2>3. IsNode(Node("guard")) /\ Node("guard").kind \notin Marking
    BY <1>2, NodesAreNodes
  <2>4. IsStack(open') /\ Agree(o, open', Marking)
    BY <2>1, <2>2, <2>3, PushAgrees
  <2>5. Agree(open, open', Marking)
    BY <2>2, <2>4 DEF Agree
  <2> QED BY <2>4, <2>5, AlikeAgrees
<1> QED BY <1>3, <1>4

LEMMA AlikeEnterBody ==
  ASSUME IsStack(open), NEW n \in Name, NEW t, NEW a, EnterBody(n, t, a)
  PROVE  IsStack(open') /\ Alike(open, open')
<1>1. CASE open' = open
  BY <1>1, AlikeSame
<1>2. CASE open' = Append(open, FnFrame(n, t))
  BY <1>2, AlikeEnter DEF FnFrame
<1> QED BY <1>1, <1>2 DEF EnterBody, Push

LEMMA AlikeItems ==
  ASSUME ContextInv, Items
  PROVE  \/ IsStack(open') /\ Alike(open, open')
         \/ \E i \in vocabulary.impls : OpenImpl(i)
         \/ CloseImpl
<1>0. vocabulary.names \subseteq Name /\ IsStack(open)
  BY VocabulariesAssumption DEF ContextInv
<1>1. CASE open' = open
  BY <1>0, <1>1, AlikeSame
<1>2. CASE \E t \in BOOLEAN : OpenMod(t)
  BY <1>0, <1>2, AlikeEnter DEF OpenMod, Push
<1>3. CASE \E n \in vocabulary.names, t, a \in BOOLEAN : OpenFn(n, t, a)
  BY <1>0, <1>3, AlikeEnterBody DEF OpenFn
<1>4. CASE \E n \in vocabulary.names, p, r, t, a \in BOOLEAN : OpenMethod(n, p, r, t, a)
  BY <1>0, <1>4, AlikeEnterBody DEF OpenMethod
<1>5. CASE CloseMod
  <2>1. open # << >> /\ Top.kind # "impl" /\ open' = Below
    BY <1>5 DEF CloseMod, IsOpen
  <2> QED BY <1>0, <2>1, AlikeLeave
<1>6. CASE CloseFn
  BY <1>0, <1>6, AlikeCut
<1>7. CASE (\E t \in BOOLEAN : BeginFile(t)) \/ (\E c \in ContractName : DeclareContract(c))
  <2>1. open' = open
    BY <1>7 DEF BeginFile, DeclareContract
  <2> QED BY <1>1, <2>1
<1> QED BY <1>2, <1>3, <1>4, <1>5, <1>6, <1>7 DEF Items

LEMMA AlikeStatements ==
  ASSUME ContextInv, Statements
  PROVE  IsStack(open') /\ Alike(open, open')
<1>0. IsStack(open) /\ \A k \in {"block", "trait_fn", "cond", "guard", "iter", "loop"} : k \notin Marking
  BY DEF ContextInv, Marking
<1>1. CASE open' = open
  BY <1>0, <1>1, AlikeSame
<1>2. CASE \E k \in {"block", "trait_fn"} : OpenBlock(k)
  <2>1. PICK k \in {"block", "trait_fn"} : OpenBlock(k)
    BY <1>2
  <2>2. open' = Append(open, Node(k))
    BY <2>1 DEF OpenBlock, Push
  <2> QED BY <1>0, <2>2, AlikeEnter DEF Node
<1>3. CASE (\E k \in Ident, v \in Bound : Let(k, v)) \/ \E k \in Ident : BindPattern(k)
  BY <1>3, BindingStep, AlikeRebinds
<1>4. CASE OpenGuard("cond", FALSE) \/ \E w \in BOOLEAN : OpenGuard("guard", w)
  <2>1. PICK k \in {"cond", "guard"} : open' = Append(open, Node(k))
    BY <1>4 DEF OpenGuard, Push
  <2> QED BY <1>0, <2>1, AlikeEnter DEF Node
<1>5. CASE \E k \in {"for", "while", "loop"}, b \in BOOLEAN : OpenLoop(k, b)
  BY <1>0, <1>5, AlikeOpenLoop
<1>6. CASE CloseBlock \/ CloseLoop
  <2>1. open # << >> /\ Top.kind # "impl" /\ open' = Below
    BY <1>6 DEF CloseBlock, CloseLoop, IsOpen
  <2> QED BY <1>0, <2>1, AlikeLeave
<1>7. CASE CloseGuard
  <2>1. /\ open # << >> /\ Top.kind \in Guarding
        /\ \/ open' = [open EXCEPT ![Len(open)].kind = "block"]
           \/ open' = Below
    BY <1>7 DEF CloseGuard, IsOpen
  <2>2. Top.kind # "impl" /\ Top.kind \notin Marking
    BY <2>1 DEF Guarding, Marking
  <2> QED BY <1>0, <2>1, <2>2, AlikeKind, AlikeLeave
<1>8. CASE StartBody
  <2>1. /\ open # << >> /\ Top.kind = "iter"
        /\ open' = [open EXCEPT ![Len(open)].kind = "loop"]
    BY <1>8 DEF StartBody, IsOpen
  <2> QED BY <1>0, <2>1, AlikeKind
<1>9. CASE \/ \E c \in vocabulary.chains, k \in KeyExpr : VisitChain(c, k)
           \/ \E e \in vocabulary.operations : VisitExpr(e)
           \/ \E n \in vocabulary.names, m \in BOOLEAN : VisitCall(n, m)
  <2>1. open' = open
    BY <1>9 DEF VisitChain, VisitExpr, VisitCall
  <2> QED BY <1>1, <2>1
<1> QED BY <1>2, <1>3, <1>4, <1>5, <1>6, <1>7, <1>8, <1>9 DEF Statements

(* An impl block that is not skipped when it is entered is listed then.     *)
LEMMA EnteredPrefix ==
  ASSUME NEW o, NEW p, NEW c, NEW k \in Nat \ {0}, NEW it, NEW tf, NEW listed, NEW more,
         \A i \in 1..(k - 1) : p[i] = o[i], listed \subseteq more,
         EnteredAt(c, o, k, it, tf, listed)
  PROVE  EnteredAt(c, p, k, it, tf, more)
<1> SUFFICES ASSUME NEW j \in 0..(k - 1),
                    \A i \in (j + 1)..(k - 1) : p[i].kind # "impl",
                    it \/ (~tf /\ ~c.is_test /\ \A i \in 1..j : p[i].kind = "mod" => ~p[i].test),
                    c.in_contract_impl, c.contract # NoName
             PROVE  c.contract \in more
  BY DEF EnteredAt
<1>1. \A i \in (j + 1)..(k - 1) : i \in 1..(k - 1)
  OBVIOUS
<1>2. \A i \in 1..j : i \in 1..(k - 1)
  OBVIOUS
<1>3. \A i \in (j + 1)..(k - 1) : o[i].kind # "impl"
  BY <1>1
<1>4. it \/ (~tf /\ ~c.is_test /\ \A i \in 1..j : o[i].kind = "mod" => ~o[i].test)
  BY <1>2
<1> QED BY <1>3, <1>4 DEF EnteredAt

LEMMA NotSkipped ==
  ASSUME ContextInv, TestInv, ~test_file, ~impl_ctx.is_test,
         \A i \in 1..Len(open) : open[i].kind = "mod" => ~open[i].test
  PROVE  ~Skip
<1>1. TestMods(open) = {} /\ Len(open) \in Nat
  BY DEF TestMods, ContextInv, IsStack, IsList
<1>2. {} \in SUBSET (1..Len(open)) /\ Cardinality({}) = 0
  BY FS_EmptySet
<1>3. test_depth = 0
  BY <1>1, <1>2 DEF TestInv
<1> QED BY <1>3 DEF Skip

LEMMA EnteredOpenImpl ==
  ASSUME ContextInv, TestInv, EnteredInv, NEW f \in vocabulary.impls, OpenImpl(f)
  PROVE  EnteredInv'
<1> DEFINE n == NodeOf("impl", NoName, f.contract, f.is_test, 0, {})
           l == Len(open) + 1
           g == [f EXCEPT !.is_test = @ \/ impl_ctx.is_test]
<1>1. /\ open' = Append(open, n) /\ impl_ctx' = g
      /\ include_tests' = include_tests /\ test_file' = test_file /\ test_depth' = test_depth
      /\ impl_contracts' =
           IF f.in_contract_impl /\ ~Skip' /\ f.contract # NoName
           THEN impl_contracts \cup {f.contract} ELSE impl_contracts
  BY DEF OpenImpl, Push, Kept
<1>2. IsNode(n) /\ n.kind = "impl" /\ n.previous = impl_ctx
  BY NodeEntered
<1> HIDE DEF n
<1>3. /\ IsStack(open') /\ Len(open') = l /\ Len(open) \in Nat
      /\ \A i \in 1..Len(open) : open'[i] = open[i]
      /\ open'[l] = n
  BY <1>1, <1>2, Pushed DEF ContextInv, IsStack, IsList
<1>4. /\ g.is_test <=> f.is_test \/ impl_ctx.is_test
      /\ g.in_contract_impl = f.in_contract_impl /\ g.contract = f.contract
  <2>1. f \in ImplCtx
    BY VocabulariesAssumption DEF ContextInv
  <2> QED BY <2>1 DEF ImplCtx
<1> HIDE DEF g
<1>5. impl_contracts \subseteq impl_contracts'
  BY <1>1
<1>6. EnteredAt(g, open', l + 1, include_tests, test_file, impl_contracts')
  <2> SUFFICES ASSUME NEW j \in 0..l,
                      \A i \in (j + 1)..l : open'[i].kind # "impl",
                      \/ include_tests
                      \/ /\ ~test_file /\ ~g.is_test
                         /\ \A i \in 1..j : open'[i].kind = "mod" => ~open'[i].test,
                      g.in_contract_impl, g.contract # NoName
               PROVE  g.contract \in impl_contracts'
    <3>1. (l + 1) - 1 = l
      BY <1>3
    <3> QED BY <3>1 DEF EnteredAt
  <2>1. j = l
    <3>1. l \in (j + 1)..l => open'[l].kind # "impl"
      OBVIOUS
    <3>2. ~(l \in (j + 1)..l)
      BY <1>2, <1>3, <3>1
    <3> QED BY <1>3, <3>2
  <2>2. ~Skip'
    <3>1. CASE include_tests
      BY <1>1, <3>1 DEF Skip
    <3>2. CASE ~include_tests
      <4>1. \A i \in 1..Len(open) : i \in 1..j
        BY <1>3, <2>1
      <4>2. \A i \in 1..Len(open) : open[i].kind = "mod" => ~open[i].test
        BY <1>3, <3>2, <4>1
      <4>3. ~test_file /\ ~impl_ctx.is_test /\ ~g.is_test
        BY <1>4, <3>2
      <4>4. ~Skip
        BY <4>2, <4>3, NotSkipped
      <4>5. ~(test_depth' > 0)
        BY <1>1, <3>2, <4>4 DEF Skip
      <4> QED BY <1>1, <4>3, <4>5 DEF Skip
    <3> QED BY <3>1, <3>2
  <2> QED BY <1>1, <1>4, <2>2
<1>7. ASSUME NEW k \in 1..l, open'[k].kind = "impl"
      PROVE  EnteredAt(open'[k].previous, open', k, include_tests, test_file, impl_contracts')
  <2>1. EnteredAt(open'[k].previous, open, k, include_tests, test_file, impl_contracts)
    <3>1. CASE k = l
      BY <1>2, <1>3, <3>1 DEF EnteredInv, Entered
    <3>2. CASE k # l
      <4>1. k \in 1..Len(open)
        BY <1>3, <3>2
      <4>2. open[k].kind = "impl" /\ open'[k].previous = open[k].previous
        BY <1>3, <1>7, <4>1
      <4> QED BY <4>1, <4>2 DEF EnteredInv, Entered
    <3> QED BY <3>1, <3>2
  <2>2. k \in Nat \ {0} /\ \A i \in 1..(k - 1) : open'[i] = open[i]
    BY <1>3
  <2> HIDE DEF l
  <2> QED BY <1>5, <2>1, <2>2, EnteredPrefix
<1>8. Named(open')
  <2>1. ASSUME NEW i \in 1..l, open'[i].kind = "fn" PROVE open'[i].cut \/ open'[i].name \in Name
    <3>1. i # l
      BY <1>2, <1>3, <2>1
    <3>2. i \in 1..Len(open)
      BY <1>3, <3>1
    <3> QED BY <1>3, <2>1, <3>2 DEF EnteredInv, Named
  <2> QED BY <1>3, <2>1 DEF Named
<1>9. Entered(open', g, include_tests, test_file, impl_contracts')
  BY <1>3, <1>6, <1>7 DEF Entered
<1> QED BY <1>1, <1>8, <1>9 DEF EnteredInv

LEMMA EnteredCloseImpl ==
  ASSUME ContextInv, EnteredInv, CloseImpl
  PROVE  EnteredInv'
<1> DEFINE l == Len(open) - 1
<1>1. /\ open # << >> /\ Top.kind = "impl" /\ open' = Below /\ impl_ctx' = Top.previous
      /\ include_tests' = include_tests /\ test_file' = test_file
      /\ impl_contracts' = impl_contracts
  BY DEF CloseImpl, IsOpen, Kept, vectors
<1>2. /\ Len(open') = l /\ Len(open) \in Nat \ {0} /\ \A i \in 1..l : open'[i] = open[i]
  BY <1>1, Popped DEF ContextInv, Below
<1>3. l \in Nat /\ l + 1 = Len(open) /\ l + 1 \in 1..Len(open) /\ (l + 1) - 1 = l
  BY <1>2
<1>4. open[l + 1].kind = "impl" /\ impl_ctx' = open[l + 1].previous
  BY <1>1, <1>3 DEF Top
<1> HIDE DEF l
<1>5. ASSUME NEW k \in 1..(l + 1), NEW c,
             EnteredAt(c, open, k, include_tests, test_file, impl_contracts)
      PROVE  EnteredAt(c, open', k, include_tests, test_file, impl_contracts)
  <2>1. k \in Nat \ {0} /\ \A i \in 1..(k - 1) : open'[i] = open[i]
    BY <1>2, <1>3
  <2> QED BY <1>5, <2>1, EnteredPrefix
<1>6. EnteredAt(impl_ctx', open', l + 1, include_tests, test_file, impl_contracts)
  <2>1. EnteredAt(impl_ctx', open, l + 1, include_tests, test_file, impl_contracts)
    BY <1>3, <1>4 DEF EnteredInv, Entered
  <2>2. l + 1 \in 1..(l + 1)
    BY <1>3
  <2> QED BY <1>5, <2>1, <2>2
<1>7. ASSUME NEW k \in 1..l, open'[k].kind = "impl"
      PROVE  EnteredAt(open'[k].previous, open', k, include_tests, test_file, impl_contracts)
  <2>1. k \in 1..Len(open) /\ k \in 1..(l + 1) /\ open'[k] = open[k]
    BY <1>2, <1>3
  <2>2. EnteredAt(open'[k].previous, open, k, include_tests, test_file, impl_contracts)
    BY <1>7, <2>1 DEF EnteredInv, Entered
  <2> QED BY <1>5, <2>1, <2>2
<1>8. Named(open')
  <2>1. \A i \in 1..l : i \in 1..Len(open)
    BY <1>3
  <2> QED BY <1>2, <2>1 DEF EnteredInv, Named
<1>9. Entered(open', impl_ctx', include_tests, test_file, impl_contracts)
  BY <1>2, <1>6, <1>7 DEF Entered
<1> QED BY <1>1, <1>8, <1>9 DEF EnteredInv

LEMMA EnteredEmpty ==
  ASSUME NEW it, NEW tf, NEW listed
  PROVE  Named(<< >>) /\ Entered(<< >>, NoImpl, it, tf, listed)
<1>1. Len(<< >>) = 0
  BY EmptyList
<1>2. ~NoImpl.in_contract_impl
  BY DEF NoImpl
<1> QED BY <1>1, <1>2 DEF Named, Entered, EnteredAt

LEMMA EnteredStep ==
  ASSUME ContextInv, EnteredInv, IsStack(open'), Alike(open, open'), impl_ctx' = impl_ctx,
         include_tests' = include_tests, test_file' = test_file,
         impl_contracts \subseteq impl_contracts'
  PROVE  EnteredInv'
<1>1. Named(open')
  BY NamedAlike DEF EnteredInv
<1>2. Entered(open', impl_ctx, include_tests, test_file, impl_contracts')
  BY EnteredAlike DEF EnteredInv, ContextInv
<1> QED BY <1>1, <1>2 DEF EnteredInv

LEMMA EnteredNext ==
  ContextInv /\ TestInv /\ EnteredInv /\ [Next]_vars => EnteredInv'
<1> SUFFICES ASSUME ContextInv, TestInv, EnteredInv, [Next]_vars PROVE EnteredInv'
  OBVIOUS
<1>1. CASE \E t \in BOOLEAN : BeginFile(t)
  <2>1. open' = << >> /\ impl_ctx' = NoImpl
    BY <1>1 DEF BeginFile, NewFile
  <2>2. Named(open') /\ Entered(open', impl_ctx', include_tests', test_file', impl_contracts')
    BY <2>1, EnteredEmpty
  <2> QED BY <2>2 DEF EnteredInv
<1>2. CASE \E f \in vocabulary.impls : OpenImpl(f)
  BY <1>2, EnteredOpenImpl
<1>3. CASE CloseImpl
  BY <1>3, EnteredCloseImpl
<1>4. CASE Items /\ ~(\E t \in BOOLEAN : BeginFile(t))
           /\ ~(\E f \in vocabulary.impls : OpenImpl(f)) /\ ~CloseImpl
  <2>1. IsStack(open') /\ Alike(open, open')
    BY <1>4, AlikeItems
  <2>2. /\ impl_ctx' = impl_ctx /\ include_tests' = include_tests /\ test_file' = test_file
        /\ impl_contracts' = impl_contracts
    BY <1>4 DEF Items, OpenMod, DeclareContract, CloseMod, CloseFn, OpenFn, OpenMethod,
         Kept, fields, vectors
  <2> QED BY <2>1, <2>2, EnteredStep
<1>5. CASE Statements
  <2>1. IsStack(open') /\ Alike(open, open')
    BY <1>5, AlikeStatements
  <2>2. /\ impl_ctx' = impl_ctx /\ include_tests' = include_tests /\ test_file' = test_file
        /\ impl_contracts' = impl_contracts
    BY <1>5 DEF Statements, OpenBlock, Let, BindPattern, VisitChain, VisitExpr, VisitCall, OpenGuard,
         OpenLoop, CloseBlock, CloseGuard, StartBody, CloseLoop, Kept, fields, vectors
  <2> QED BY <2>1, <2>2, EnteredStep
<1>6. CASE Finish \/ UNCHANGED vars
  <2>1. /\ open' = open /\ impl_ctx' = impl_ctx /\ include_tests' = include_tests
        /\ test_file' = test_file /\ impl_contracts' = impl_contracts
    BY <1>6 DEF Finish, vars, fields, vectors
  <2>2. IsStack(open') /\ Alike(open, open')
    BY <2>1, AlikeSame DEF ContextInv
  <2> QED BY <2>1, <2>2, EnteredStep
<1> QED BY <1>1, <1>2, <1>3, <1>4, <1>5, <1>6 DEF Next

(* Each call that was seen is kept, and each entrypoint has a contract to   *)
(* go to.                                                                   *)
Unseen(u) == u.at.cut \/ (u.at.test_scope /\ ~include_tests)

CallsInv ==
  \A u \in uttered : Unseen(u)
    \/ /\ <<u.at.fn, u.callee>> \in call_graph
       /\ u.in_module => <<u.at.fn, u.callee>> \in module_calls

EntriesListed == \A e \in entrypoints : e.contract = NoName \/ e.contract \in impl_contracts

LEMMA EdgeSeen ==
  ASSUME ContextInv, TestInv, EnteredInv, NEW n,
         ~Place(open).cut, ~Place(open).test_scope \/ include_tests
  PROVE  Edge(n) = {<<Place(open).fn, n>>}
<1> DEFINE k == FnNode(open)
<1>1. k \in 0..Len(open) /\ (k # 0 => open[k].kind = "fn") /\ Len(open) \in Nat
  BY FnNodeFacts DEF ContextInv, IsStack, IsList
<1>2. k # 0 /\ ~open[k].cut
  BY PlaceOf DEF ContextInv
<1>3. Place(open).fn = open[k].name
  BY <1>2 DEF Place
<1> HIDE DEF k
<1>4. k \in 1..Len(open)
  BY <1>1, <1>2
<1>5. open[k].name \in Name
  BY <1>1, <1>2, <1>4 DEF EnteredInv, Named
<1>6. function.name = Place(open).fn
  BY PlaceOf DEF ContextInv
<1>7. function.name # NoName
  BY <1>3, <1>5, <1>6, NamesAssumption
<1>8. ~Skip
  BY SkipIs
<1> QED BY <1>6, <1>7, <1>8 DEF Edge

LEMMA CallsNext ==
  ContextInv /\ TestInv /\ EnteredInv /\ CallsInv /\ [Next]_vars => CallsInv'
<1> SUFFICES ASSUME ContextInv, TestInv, EnteredInv, CallsInv, [Next]_vars PROVE CallsInv'
  OBVIOUS
<1>0. include_tests' = include_tests
  BY OptionKept
<1>1. CASE \E n \in vocabulary.names, m \in BOOLEAN : VisitCall(n, m)
  <2>1. PICK n \in vocabulary.names, m \in BOOLEAN : VisitCall(n, m)
    BY <1>1
  <2> DEFINE pl == Place(open)
             u == [callee |-> n, in_module |-> m, at |-> pl]
  <2>2. /\ uttered' = uttered \cup {u}
        /\ call_graph' = call_graph \cup Edge(n)
        /\ module_calls' = module_calls \cup (IF m THEN Edge(n) ELSE {})
    BY <2>1 DEF VisitCall
  <2>3. u.callee = n /\ u.in_module = m /\ u.at = pl
    OBVIOUS
  <2>4. ~pl.cut /\ (~pl.test_scope \/ include_tests) => Edge(n) = {<<pl.fn, n>>}
    BY EdgeSeen
  <2> HIDE DEF u, pl
  <2>5. ASSUME NEW x \in uttered'
        PROVE  Unseen(x) \/ /\ <<x.at.fn, x.callee>> \in call_graph'
                            /\ x.in_module => <<x.at.fn, x.callee>> \in module_calls'
    <3>1. CASE x \in uttered
      BY <2>2, <3>1 DEF CallsInv
    <3>2. CASE x = u
      <4>1. Unseen(x) \/ Edge(n) = {<<x.at.fn, x.callee>>}
        BY <2>3, <2>4, <3>2 DEF Unseen
      <4> QED BY <2>2, <2>3, <3>2, <4>1
    <3> QED BY <2>2, <3>1, <3>2
  <2> QED BY <1>0, <2>5 DEF CallsInv, Unseen
<1>2. CASE call_graph' = call_graph /\ module_calls' = module_calls /\ uttered' = uttered
  BY <1>0, <1>2 DEF CallsInv, Unseen
<1>3. ASSUME ~(call_graph' = call_graph /\ module_calls' = module_calls /\ uttered' = uttered)
      PROVE  \E n \in vocabulary.names, m \in BOOLEAN : VisitCall(n, m)
  <2>1. CASE Items
    BY <1>3, <2>1 DEF Items, BeginFile, OpenMod, DeclareContract, OpenImpl, CloseMod,
         CloseImpl, CloseFn, OpenFn, OpenMethod, vectors
  <2>2. CASE Statements
    BY <1>3, <2>2 DEF Statements, OpenBlock, Let, BindPattern, VisitChain, VisitExpr, OpenGuard,
         OpenLoop, CloseBlock, CloseGuard, StartBody, CloseLoop, vectors
  <2>3. CASE Finish \/ UNCHANGED vars
    BY <1>3, <2>3 DEF Finish, vars, vectors
  <2> QED BY <1>3, <2>1, <2>2, <2>3 DEF Next
<1> QED BY <1>1, <1>2, <1>3

LEMMA EntriesListedNext ==
  ContextInv /\ TestInv /\ EnteredInv /\ EntriesListed /\ [Next]_vars => EntriesListed'
<1> SUFFICES ASSUME ContextInv, TestInv, EnteredInv, EntriesListed, [Next]_vars
             PROVE  EntriesListed'
  OBVIOUS
<1>1. CASE \E n \in vocabulary.names, p, r, t, a \in BOOLEAN : OpenMethod(n, p, r, t, a)
  <2>1. PICK n \in vocabulary.names, p \in BOOLEAN, r \in BOOLEAN, t \in BOOLEAN,
             a \in BOOLEAN : OpenMethod(n, p, r, t, a)
    BY <1>1
  <2> DEFINE pl == Place(Append(open, FnFrame(n, t)))
             e == [name |-> n, contract |-> impl_ctx.contract, id |-> <<clock, 0>>, at |-> pl]
  <2>2. /\ impl_contracts' = impl_contracts
        /\ \/ entrypoints' = entrypoints
           \/ ~Skip /\ impl_ctx.in_contract_impl /\ entrypoints' = entrypoints \cup {e}
    BY <2>1 DEF OpenMethod, Exported
  <2>3. e.contract = impl_ctx.contract
    OBVIOUS
  <2> HIDE DEF e
  <2>4. ASSUME ~Skip, impl_ctx.in_contract_impl, impl_ctx.contract # NoName
        PROVE  impl_ctx.contract \in impl_contracts
    <3> DEFINE l == Len(open)
    <3>1. EnteredAt(impl_ctx, open, l + 1, include_tests, test_file, impl_contracts)
      BY DEF EnteredInv, Entered
    <3>2. l \in Nat /\ DOMAIN open = 1..l
      BY StackType DEF ContextInv, IsStack, IsList
    <3>3. include_tests \/ (~test_file /\ ~impl_ctx.is_test
                            /\ \A i \in 1..l : open[i].kind = "mod" => ~open[i].test)
      <4>1. CASE ~include_tests
        <5>1. ~Place(open).test_scope
          BY <2>4, <4>1, SkipIs
        <5>2. ~test_file /\ \A i \in 1..l : open[i].kind = "mod" => ~open[i].test
          BY <3>2, <5>1 DEF Place
        <5>3. ~impl_ctx.is_test
          BY <2>4, <4>1 DEF Skip
        <5> QED BY <5>2, <5>3
      <4> QED BY <4>1
    <3> HIDE DEF l
    <3>4. l \in 0..((l + 1) - 1) /\ (l + 1)..((l + 1) - 1) = {}
      BY <3>2
    <3> QED BY <2>4, <3>1, <3>3, <3>4 DEF EnteredAt
  <2> QED BY <2>2, <2>3, <2>4 DEF EntriesListed
<1>2. CASE entrypoints' = entrypoints /\ impl_contracts \subseteq impl_contracts'
  BY <1>2 DEF EntriesListed
<1>3. ASSUME ~(entrypoints' = entrypoints /\ impl_contracts \subseteq impl_contracts')
      PROVE  \E n \in vocabulary.names, p, r, t, a \in BOOLEAN : OpenMethod(n, p, r, t, a)
  <2>1. CASE Items
    BY <1>3, <2>1 DEF Items, BeginFile, OpenMod, DeclareContract, OpenImpl, CloseMod,
         CloseImpl, CloseFn, OpenFn, vectors
  <2>2. CASE Statements
    BY <1>3, <2>2 DEF Statements, OpenBlock, Let, BindPattern, VisitChain, VisitExpr, VisitCall, OpenGuard,
         OpenLoop, CloseBlock, CloseGuard, StartBody, CloseLoop, vectors
  <2>3. CASE Finish \/ UNCHANGED vars
    BY <1>3, <2>3 DEF Finish, vars, vectors
  <2> QED BY <1>3, <2>1, <2>2, <2>3 DEF Next
<1> QED BY <1>1, <1>2, <1>3

LEMMA ModelKept ==
  ASSUME [Next]_vars, ~Finish
  PROVE  model' = model /\ (model.built => UNCHANGED vars)
<1>1. CASE Items
  BY <1>1 DEF Items, BeginFile, OpenMod, DeclareContract, OpenImpl, CloseMod, CloseImpl,
       CloseFn, OpenFn, OpenMethod, Kept, Room, Event, Walking
<1>2. CASE Statements
  BY <1>2 DEF Statements, OpenBlock, Let, BindPattern, VisitChain, VisitExpr, VisitCall, OpenGuard,
       OpenLoop, CloseBlock, CloseGuard, StartBody, CloseLoop, Kept, Room, Event, Walking
<1>3. CASE UNCHANGED vars
  BY <1>3 DEF vars
<1> QED BY <1>1, <1>2, <1>3 DEF Next

LEMMA Finished ==
  ASSUME CallsInv, EntriesListed, Finish
  PROVE  FinishFaithful'
<1> DEFINE kept == {e \in call_graph : e[2] \in defined_functions}
           outside == {e \in module_calls : e[2] \notin defined_functions}
           contracts == {ContractOf(c) : c \in declared_contracts \cup impl_contracts}
<1>1. /\ uttered' = uttered /\ entrypoints' = entrypoints /\ include_tests' = include_tests
      /\ defined_functions' = defined_functions
  BY DEF Finish, vectors
<1>2. /\ model'.call_graph = kept /\ model'.external_calls = outside
      /\ model'.contracts = contracts
  BY DEF Finish
<1>3. ASSUME NEW u \in uttered, ~Unseen(u)
      PROVE  IF u.callee \in defined_functions THEN <<u.at.fn, u.callee>> \in kept
             ELSE u.in_module => <<u.at.fn, u.callee>> \in outside
  BY <1>3 DEF CallsInv
<1>4. ASSUME NEW e \in entrypoints, e.contract # NoName
      PROVE  \E c \in contracts : c.name = e.contract /\ e \in c.entrypoints
  <2>1. ContractOf(e.contract) \in contracts
    BY <1>4 DEF EntriesListed
  <2>2. ContractOf(e.contract).name = e.contract /\ e \in ContractOf(e.contract).entrypoints
    BY DEF ContractOf
  <2> HIDE DEF contracts
  <2> QED BY <2>1, <2>2
<1> HIDE DEF kept, outside, contracts
<1> QED BY <1>1, <1>2, <1>3, <1>4 DEF FinishFaithful, Unseen

(* Nothing seen on the way is missing from the finished model: the order of *)
(* files and functions does not matter to the graph, and an exported method *)
(* finds its contract wherever its impl block stands.                       *)
THEOREM FinishLosesNothing == Spec => []FinishFaithful
<1> DEFINE Inv == /\ ContextInv /\ DepthInv /\ TestInv /\ EnteredInv
                  /\ CallsInv /\ EntriesListed /\ FinishFaithful
<1>1. Init => Inv
  <2> SUFFICES ASSUME Init PROVE Inv
    OBVIOUS
  <2>1. EnteredInv
    <3>1. open = << >> /\ impl_ctx = NoImpl
      BY DEF Init
    <3> QED BY <3>1, EnteredEmpty DEF EnteredInv
  <2>2. CallsInv /\ EntriesListed
    BY DEF Init, CallsInv, EntriesListed
  <2>3. FinishFaithful
    BY DEF Init, NoModel, FinishFaithful
  <2> QED BY <2>1, <2>2, <2>3, ContextInit, DepthInit, TestInit
<1>2. Inv /\ [Next]_vars => Inv'
  <2> SUFFICES ASSUME Inv, [Next]_vars PROVE Inv'
    OBVIOUS
  <2>1. FinishFaithful'
    <3>1. CASE Finish
      BY <3>1, Finished
    <3>2. CASE ~Finish
      <4>1. model' = model /\ (model.built => UNCHANGED vars)
        BY <3>2, ModelKept
      <4>2. CASE model.built
        BY <4>1, <4>2 DEF FinishFaithful, vars, vectors
      <4>3. CASE ~model.built
        BY <4>1, <4>3 DEF FinishFaithful
      <4> QED BY <4>2, <4>3
    <3> QED BY <3>1, <3>2
  <2> QED BY <2>1, ContextNext, DepthNext, TestNext, EnteredNext, CallsNext, EntriesListedNext
<1>3. Inv => FinishFaithful
  OBVIOUS
<1> QED BY <1>1, <1>2, <1>3, PTL DEF Spec

--------------------------------------------------------------------------
(* What the detectors find in the finished model (ContractScan).            *)
(* The sites of one step share the first part of an id and a place, and no  *)
(* other step has that number.                                              *)
Near(s, t) ==
  /\ s.at.fn = t.at.fn
  /\ s.at.cut <=> t.at.cut
  /\ s.at.test_scope <=> t.at.test_scope

Stamped(r, c) == r.id = <<r.id[1], r.id[2]>> /\ r.id[1] \in Nat /\ r.id[1] < c

(* The sites of one step, which stand at one place.                         *)
Batch(S, c) ==
  /\ \A s \in S : s.id = <<c, s.id[2]>>
  /\ \E n \in Nat : \A s \in S : s.id[2] \in 0..n
  /\ \A s, t \in S : Near(s, t)
  /\ \A s, t \in S : s.vec = t.vec /\ s.id[2] = t.id[2] => s = t

Numbered(S, c) ==
  /\ \A s \in S : Stamped(s, c)
  /\ \A s \in S : \E n \in Nat : \A t \in S : t.id[1] = s.id[1] => t.id[2] \in 0..n
  /\ \A s, t \in S : s.id[1] = t.id[1] => Near(s, t)
  /\ \A s, t \in S : s.id = t.id /\ s.vec = t.vec => s = t

LEMMA NumberedGrows ==
  ASSUME NEW S, NEW N, NEW c \in Nat, Numbered(S, c), Batch(N, c)
  PROVE  Numbered(S \cup N, c + 1)
<1> DEFINE T == S \cup N
<1>1. /\ \A s \in S : s.id[1] # c /\ s.id[1] \in Nat /\ s.id[1] < c
      /\ \A s \in S : s.id = <<s.id[1], s.id[2]>>
  BY DEF Numbered, Stamped
<1>2. \A s \in N : s.id = <<c, s.id[2]>> /\ s.id[1] = c
  BY DEF Batch
<1>3. ASSUME NEW s \in T PROVE Stamped(s, c + 1)
  <2>1. CASE s \in S
    BY <1>1, <2>1 DEF Stamped
  <2>2. CASE s \in N
    <3>1. s.id = <<s.id[1], s.id[2]>> /\ s.id[1] = c
      BY <1>2, <2>2
    <3> QED BY <3>1 DEF Stamped
  <2> QED BY <2>1, <2>2
<1>4. ASSUME NEW s \in T
      PROVE  \E n \in Nat : \A t \in T : t.id[1] = s.id[1] => t.id[2] \in 0..n
  <2>1. CASE s \in S
    <3>1. PICK n \in Nat : \A t \in S : t.id[1] = s.id[1] => t.id[2] \in 0..n
      BY <2>1 DEF Numbered
    <3>2. \A t \in T : t.id[1] = s.id[1] => t \in S
      BY <1>1, <1>2, <2>1
    <3> QED BY <3>1, <3>2
  <2>2. CASE s \in N
    <3>1. PICK n \in Nat : \A t \in N : t.id[2] \in 0..n
      BY DEF Batch
    <3>2. \A t \in T : t.id[1] = s.id[1] => t \in N
      BY <1>1, <1>2, <2>2
    <3> QED BY <3>1, <3>2
  <2> QED BY <2>1, <2>2
<1>5. ASSUME NEW s \in T, NEW t \in T, s.id[1] = t.id[1]
      PROVE  (s \in S /\ t \in S) \/ (s \in N /\ t \in N)
  BY <1>1, <1>2, <1>5
<1>6. ASSUME NEW s \in T, NEW t \in T, s.id[1] = t.id[1] PROVE Near(s, t)
  BY <1>5, <1>6 DEF Numbered, Batch
<1>7. ASSUME NEW s \in T, NEW t \in T, s.id = t.id, s.vec = t.vec PROVE s = t
  BY <1>5, <1>7 DEF Numbered, Batch
<1> HIDE DEF T
<1>8. Numbered(T, c + 1)
  BY <1>3, <1>4, <1>6, <1>7 DEF Numbered
<1> QED BY <1>8 DEF T

(* Where the sites of a step stand.                                         *)
Placed(s, p) == s.at.fn = p.fn /\ (s.at.cut <=> p.cut) /\ (s.at.test_scope <=> p.test_scope)

LEMMA PlacedNear ==
  ASSUME NEW s, NEW t, NEW p, Placed(s, p), Placed(t, p)
  PROVE  Near(s, t)
BY DEF Placed, Near

LEMMA SiteOfIs ==
  ASSUME NEW v, NEW p, NEW w, NEW g, NEW k, NEW m
  PROVE  LET s == SiteOf(v, p, w, g, k, m)
         IN s.id = <<clock, p>> /\ s.vec = v /\ Placed(s, Place(open))
<1> DEFINE s == SiteOf(v, p, w, g, k, m)
<1>1. s.id = <<clock, p>> /\ s.vec = v /\ s.at = Place(open)
  BY DEF SiteOf
<1> HIDE DEF s
<1>2. Placed(s, Place(open))
  BY <1>1 DEF Placed
<1> QED BY <1>1, <1>2 DEF s

LEMMA ChainSiteIs ==
  ASSUME NEW c, NEW k, NEW i, NEW vec
  PROVE  LET s == ChainSite(c, k, i, vec)
         IN s.id = <<clock, i>> /\ s.vec = vec /\ Placed(s, Place(open))
<1> DEFINE keyed == vec = "storage_ops" /\ HasKey(Upto(c, i))
           s == SiteOf(vec, i, What(Upto(c, i)), guarded_depth > 0 \/ GuardedInside(c, i),
                       IF keyed THEN Resolve(k) ELSE NoKey, Meaning(IF keyed THEN k ELSE NoKey))
           g == s.at.guard \/ GuardedInside(c, i)
           q == [s EXCEPT !.at.guard = g]
<1>1. ChainSite(c, k, i, vec) = q
  BY DEF ChainSite
<1>2. /\ s.id = <<clock, i>> /\ s.vec = vec /\ s.at = Place(open)
      /\ {"id", "at", "vec"} \subseteq DOMAIN s
  BY DEF SiteOf
<1>3. {"fn", "cut", "test_scope", "guard"} \subseteq DOMAIN Place(open)
  BY DEF Place
<1> HIDE DEF s, g
<1>4. q.id = s.id /\ q.vec = s.vec /\ q.at = [s.at EXCEPT !.guard = g]
  BY <1>2
<1> HIDE DEF q
<1>5. /\ q.at.fn = Place(open).fn /\ q.at.cut = Place(open).cut
      /\ q.at.test_scope = Place(open).test_scope
  BY <1>2, <1>3, <1>4
<1> QED BY <1>1, <1>2, <1>4, <1>5 DEF Placed

LEMMA BatchOne ==
  ASSUME NEW s, s.id = <<clock, 0>>
  PROVE  Batch({s}, clock)
<1>1. s.id[2] = 0 /\ s.id = <<clock, s.id[2]>>
  OBVIOUS
<1>2. \A t \in {s} : t.id[2] \in 0..0
  BY <1>1
<1>3. \A t, u \in {s} : Near(t, u)
  BY DEF Near
<1>4. \A t \in {s} : t.id = <<clock, t.id[2]>>
  BY <1>1
<1>5. \E n \in Nat : \A t \in {s} : t.id[2] \in 0..n
  BY <1>2
<1> QED BY <1>3, <1>4, <1>5 DEF Batch

LEMMA BatchNone ==
  ASSUME NEW c
  PROVE  Batch({}, c)
BY DEF Batch

LEMMA BatchOfChain ==
  ASSUME NEW v \in Vocabularies, NEW c \in v.chains, NEW k
  PROVE  Batch(ChainSites(c, k), clock)
<1> DEFINE n == Len(c.methods)
<1>1. n \in Nat /\ DOMAIN c.methods = 1..n
  BY VocabulariesAssumption DEF Chain
<1>2. ASSUME NEW s \in ChainSites(c, k)
      PROVE  \E i \in 1..n, vec \in Vector :
               s = ChainSite(c, k, i, vec) /\ s.id = <<clock, i>> /\ s.vec = vec
  <2>1. PICK p \in (DOMAIN c.methods) \X Vector : s = ChainSite(c, k, p[1], p[2])
    BY <1>2 DEF ChainSites
  <2>2. p[1] \in 1..n /\ p[2] \in Vector
    BY <1>1, <2>1
  <2>3. s.id = <<clock, p[1]>> /\ s.vec = p[2]
    BY <2>1, ChainSiteIs
  <2> QED BY <2>1, <2>2, <2>3
<1>3. \A s \in ChainSites(c, k) : Placed(s, Place(open))
  BY <1>2, ChainSiteIs
<1> HIDE DEF n
<1>4. \A s \in ChainSites(c, k) : s.id = <<clock, s.id[2]>> /\ s.id[2] \in 0..n
  BY <1>1, <1>2
<1>5. \A s, t \in ChainSites(c, k) : Near(s, t)
  BY <1>3, PlacedNear
<1>6. ASSUME NEW s \in ChainSites(c, k), NEW t \in ChainSites(c, k),
             s.vec = t.vec, s.id[2] = t.id[2]
      PROVE  s = t
  <2>1. PICK i \in 1..n, vec \in Vector :
          s = ChainSite(c, k, i, vec) /\ s.id = <<clock, i>> /\ s.vec = vec
    BY <1>2
  <2>2. PICK j \in 1..n, w \in Vector :
          t = ChainSite(c, k, j, w) /\ t.id = <<clock, j>> /\ t.vec = w
    BY <1>2
  <2>3. i = j /\ vec = w
    BY <1>6, <2>1, <2>2
  <2> QED BY <2>1, <2>2, <2>3
<1> QED BY <1>1, <1>4, <1>5, <1>6 DEF Batch

LEMMA BatchOfExpr ==
  ASSUME NEW e
  PROVE  Batch({SiteOf(vec, 0, WhatExpr(e), guarded_depth > 0, NoKey, Meaning(NoKey)) :
                  vec \in RecordedExpr(e)}, clock)
<1> DEFINE At(vec) == SiteOf(vec, 0, WhatExpr(e), guarded_depth > 0, NoKey, Meaning(NoKey))
           S == {At(vec) : vec \in RecordedExpr(e)}
<1>1. \A vec : At(vec).id = <<clock, 0>> /\ At(vec).vec = vec /\ Placed(At(vec), Place(open))
  BY SiteOfIs
<1>a. \A s \in S : \E vec : s = At(vec)
  OBVIOUS
<1> HIDE DEF At
<1>2. \A s \in S : s.id = <<clock, 0>> /\ Placed(s, Place(open)) /\ s = At(s.vec)
  BY <1>1, <1>a
<1> HIDE DEF S
<1>3. \A s \in S : s.id = <<clock, s.id[2]>> /\ s.id[2] \in 0..0
  BY <1>2
<1>4. \A s, t \in S : Near(s, t)
  BY <1>2, PlacedNear
<1>5. \A s, t \in S : s.vec = t.vec => s = t
  BY <1>2
<1>6. Batch(S, clock)
  BY <1>3, <1>4, <1>5 DEF Batch
<1> QED BY <1>6 DEF S, At

(* Every step records at one place at most, and under a number of its own:  *)
(* what has one number is of one function, a loop shares its number with no *)
(* site, and an entrypoint with the attribute of its own function only.     *)
Ids(S, L, E, c) ==
  /\ c \in Nat /\ Numbered(S, c)
  /\ \A i \in 1..Len(L) : Stamped(L[i], c) /\ \A s \in S : s.id[1] # L[i].id[1]
  /\ \A i, j \in 1..Len(L) : L[i].id[1] = L[j].id[1] => i = j
  /\ \A e \in E :
       /\ Stamped(e, c)
       /\ \A s \in S : s.id[1] = e.id[1] => s.at.fn = e.name /\ ~s.at.cut
       /\ \A i \in 1..Len(L) : L[i].id[1] # e.id[1]
  /\ \A e, f \in E : e.id[1] = f.id[1] => e = f

IdsInv == Ids(sites, loops, entrypoints, clock)

(* An entrypoint and the attribute sites of its function.                   *)
Headed(G, N, c) ==
  /\ \A e \in G : e.id = <<c, 0>>
  /\ \A e, f \in G : e = f
  /\ \A e \in G, s \in N : s.at.fn = e.name /\ ~s.at.cut

LEMMA StampedLater ==
  ASSUME NEW r, NEW c \in Nat, Stamped(r, c)
  PROVE  Stamped(r, c + 1)
BY DEF Stamped

LEMMA StampedNow ==
  ASSUME NEW r, NEW c \in Nat, NEW p, r.id = <<c, p>>
  PROVE  Stamped(r, c + 1) /\ r.id[1] = c
<1>1. r.id[1] = c /\ r.id[2] = p
  OBVIOUS
<1> QED BY <1>1 DEF Stamped

LEMMA IdsRecord ==
  ASSUME NEW S, NEW L, NEW E, NEW c, Ids(S, L, E, c), NEW N, NEW G, Batch(N, c), Headed(G, N, c)
  PROVE  Ids(S \cup N, L, E \cup G, c + 1)
<1> DEFINE T == S \cup N
           F == E \cup G
<1>1. c \in Nat /\ c + 1 \in Nat
  BY DEF Ids
<1>2. Numbered(T, c + 1)
  BY <1>1, NumberedGrows DEF Ids
<1>3. \A s \in S : s.id[1] \in Nat /\ s.id[1] < c
  BY DEF Ids, Numbered, Stamped
<1>4. \A s \in N : s.id[1] = c
  BY DEF Batch
<1>5. \A i \in 1..Len(L) : L[i].id[1] \in Nat /\ L[i].id[1] < c
  BY DEF Ids, Stamped
<1>6. \A e \in E : e.id[1] \in Nat /\ e.id[1] < c
  BY DEF Ids, Stamped
<1>7. \A e \in G : e.id[1] = c /\ Stamped(e, c + 1)
  BY <1>1, StampedNow DEF Headed
<1>8. ASSUME NEW i \in 1..Len(L)
      PROVE  Stamped(L[i], c + 1) /\ \A s \in T : s.id[1] # L[i].id[1]
  <2>1. Stamped(L[i], c + 1)
    BY <1>1, StampedLater DEF Ids
  <2>2. \A s \in S : s.id[1] # L[i].id[1]
    BY DEF Ids
  <2>3. \A s \in N : s.id[1] # L[i].id[1]
    BY <1>1, <1>4, <1>5
  <2> QED BY <2>1, <2>2, <2>3
<1>9. ASSUME NEW e \in F
      PROVE  /\ Stamped(e, c + 1)
             /\ \A s \in T : s.id[1] = e.id[1] => s.at.fn = e.name /\ ~s.at.cut
             /\ \A i \in 1..Len(L) : L[i].id[1] # e.id[1]
  <2>1. CASE e \in E
    <3>1. Stamped(e, c + 1)
      BY <1>1, <2>1, StampedLater DEF Ids
    <3>2. ASSUME NEW s \in T, s.id[1] = e.id[1] PROVE s.at.fn = e.name /\ ~s.at.cut
      <4>1. s \in S
        BY <1>1, <1>4, <1>6, <2>1, <3>2
      <4> QED BY <2>1, <3>2, <4>1 DEF Ids
    <3> QED BY <2>1, <3>1, <3>2 DEF Ids
  <2>2. CASE e \in G
    <3>1. ASSUME NEW s \in T, s.id[1] = e.id[1] PROVE s.at.fn = e.name /\ ~s.at.cut
      <4>1. s \in N
        BY <1>1, <1>3, <1>7, <2>2, <3>1
      <4> QED BY <2>2, <4>1 DEF Headed
    <3>2. \A i \in 1..Len(L) : L[i].id[1] # e.id[1]
      BY <1>1, <1>5, <1>7, <2>2
    <3> QED BY <1>7, <2>2, <3>1, <3>2
  <2> QED BY <2>1, <2>2
<1>10. ASSUME NEW e \in F, NEW f \in F, e.id[1] = f.id[1] PROVE e = f
  <2>1. (e \in E /\ f \in E) \/ (e \in G /\ f \in G)
    BY <1>1, <1>6, <1>7, <1>10
  <2> QED BY <1>10, <2>1 DEF Ids, Headed
<1> HIDE DEF T, F
<1>11. Ids(T, L, F, c + 1)
  BY <1>1, <1>2, <1>8, <1>9, <1>10 DEF Ids
<1> QED BY <1>11 DEF T, F

LEMMA IdsLoop ==
  ASSUME NEW S, NEW L, NEW E, NEW c, Ids(S, L, E, c), IsList(L), NEW l, l.id = <<c, 0>>
  PROVE  Ids(S, Append(L, l), E, c + 1)
<1> DEFINE M == Append(L, l)
           n == Len(L) + 1
<1>1. c \in Nat /\ c + 1 \in Nat
  BY DEF Ids
<1>2. Len(M) = n /\ M[n] = l /\ Len(L) \in Nat /\ \A i \in 1..Len(L) : M[i] = L[i]
  BY Appended DEF IsList
<1>3. \A i \in 1..n : i = n \/ i \in 1..Len(L)
  BY <1>2
<1> HIDE DEF M, n
<1>a. Batch({}, c) /\ Headed({}, {}, c) /\ S \cup {} = S /\ E \cup {} = E
  BY BatchNone DEF Headed
<1>4. Ids(S, L, E, c + 1)
  BY <1>a, IdsRecord
<1>5. Stamped(l, c + 1) /\ l.id[1] = c
  BY <1>1, StampedNow
<1>6. /\ \A s \in S : s.id[1] \in Nat /\ s.id[1] < c
      /\ \A e \in E : e.id[1] \in Nat /\ e.id[1] < c
      /\ \A i \in 1..Len(L) : L[i].id[1] \in Nat /\ L[i].id[1] < c
  BY DEF Ids, Numbered, Stamped
<1>7. ASSUME NEW i \in 1..n
      PROVE  /\ Stamped(M[i], c + 1) /\ \A s \in S : s.id[1] # M[i].id[1]
             /\ \A e \in E : M[i].id[1] # e.id[1]
  <2>1. CASE i = n
    BY <1>1, <1>2, <1>5, <1>6, <2>1
  <2>2. CASE i \in 1..Len(L)
    BY <1>2, <1>4, <2>2 DEF Ids
  <2> QED BY <1>3, <2>1, <2>2
<1>8. ASSUME NEW i \in 1..n, NEW j \in 1..n, M[i].id[1] = M[j].id[1] PROVE i = j
  <2>1. CASE i = n \/ j = n
    <3>1. \A k \in 1..Len(L) : M[k].id[1] # c
      BY <1>1, <1>2, <1>6
    <3>2. M[n].id[1] = c
      BY <1>2, <1>5
    <3> QED BY <1>3, <1>8, <2>1, <3>1, <3>2
  <2>2. CASE i \in 1..Len(L) /\ j \in 1..Len(L)
    BY <1>2, <1>8, <2>2 DEF Ids
  <2> QED BY <1>3, <2>1, <2>2
<1>9. Ids(S, M, E, c + 1)
  BY <1>2, <1>4, <1>7, <1>8 DEF Ids
<1> QED BY <1>9 DEF M

(* A step that leaves the numbers alone.                                    *)
LEMMA IdsKept ==
  ASSUME NEW S, NEW L, NEW E, NEW c, Ids(S, L, E, c), NEW M, Len(M) = Len(L),
         \A i \in 1..Len(L) : M[i].id = L[i].id
  PROVE  Ids(S, M, E, c)
<1>1. \A i \in 1..Len(L) : Stamped(M[i], c) <=> Stamped(L[i], c)
  BY DEF Stamped
<1> QED BY <1>1 DEF Ids

LEMMA FramePlace ==
  ASSUME ContextInv, NEW n, NEW t
  PROVE  LET p == Place(Append(open, FnFrame(n, t))) IN p.fn = n /\ ~p.cut
<1> DEFINE f == FnFrame(n, t)
           o == Append(open, f)
<1>a. f.kind = "fn" /\ f.name = n /\ f.cut = FALSE
  BY DEF FnFrame, NodeOf
<1>b. IsNode(f)
  BY DEF FnFrame, NodeOf, IsNode
<1> HIDE DEF f
<1>1. IsStack(o) /\ Len(o) = Len(open) + 1 /\ Len(open) \in Nat /\ o[Len(o)] = f
  BY <1>b, Pushed DEF ContextInv, IsStack, IsList
<1> HIDE DEF o
<1>2. FnNode(o) = Len(o) /\ Len(o) # 0
  BY <1>a, <1>1, FnNodeIs
<1>3. Place(o).fn = n /\ ~Place(o).cut
  BY <1>a, <1>1, <1>2 DEF Place
<1> QED BY <1>3 DEF o, f

LEMMA EnterBodyBatch ==
  ASSUME ContextInv, NEW n, NEW t, NEW a \in BOOLEAN, EnterBody(n, t, a)
  PROVE  \E N : /\ sites' = sites \cup N /\ Batch(N, clock)
                /\ \A s \in N : s.at.fn = n /\ ~s.at.cut
<1> DEFINE s == AttributeSite(function', FnFrame(n, t))
<1>1. sites' = sites \cup {} \/ sites' = sites \cup {s}
  BY DEF EnterBody
<1>2. s.id = <<clock, 0>> /\ s.at = Place(Append(open, FnFrame(n, t)))
  BY DEF AttributeSite
<1>3. s.at.fn = n /\ ~s.at.cut
  BY <1>2, FramePlace
<1> HIDE DEF s
<1>4. Batch({s}, clock) /\ Batch({}, clock)
  BY <1>2, BatchOne, BatchNone
<1>5. CASE sites' = sites \cup {}
  <2> WITNESS {}
  <2> QED BY <1>4, <1>5
<1>6. CASE sites' = sites \cup {s}
  <2> WITNESS {s}
  <2> QED BY <1>3, <1>4, <1>6
<1> QED BY <1>1, <1>5, <1>6

LEMMA IdsRecorded ==
  ASSUME IdsInv, NEW N, Batch(N, clock), sites' = sites \cup N,
         NEW G, Headed(G, N, clock), entrypoints' = entrypoints \cup G,
         loops' = loops, clock' = clock + 1
  PROVE  IdsInv'
BY IdsRecord DEF IdsInv

LEMMA HeadedNone ==
  ASSUME NEW N, NEW c
  PROVE  Headed({}, N, c)
BY DEF Headed

LEMMA IdsSites ==
  ASSUME IdsInv, NEW N, Batch(N, clock), sites' = sites \cup N,
         entrypoints' = entrypoints, loops' = loops, clock' = clock + 1
  PROVE  IdsInv'
<1>1. entrypoints' = entrypoints \cup {}
  OBVIOUS
<1> QED BY <1>1, HeadedNone, IdsRecorded

LEMMA IdsOpenMethod ==
  ASSUME ContextInv, IdsInv, NEW n, NEW p, NEW r, NEW t, NEW a \in BOOLEAN,
         OpenMethod(n, p, r, t, a)
  PROVE  IdsInv'
<1> DEFINE pl == Place(Append(open, FnFrame(n, t)))
           e == [name |-> n, contract |-> impl_ctx.contract, id |-> <<clock, 0>>, at |-> pl]
<1>1. PICK N : /\ sites' = sites \cup N /\ Batch(N, clock)
               /\ \A s \in N : s.at.fn = n /\ ~s.at.cut
  BY EnterBodyBatch DEF OpenMethod
<1>2. entrypoints' = entrypoints \cup {} \/ entrypoints' = entrypoints \cup {e}
  BY DEF OpenMethod
<1>3. loops' = loops /\ clock' = clock + 1
  BY DEF OpenMethod, Tick
<1>4. e.id = <<clock, 0>> /\ e.name = n
  OBVIOUS
<1> HIDE DEF e, pl
<1>5. Headed({e}, N, clock) /\ Headed({}, N, clock)
  BY <1>1, <1>4 DEF Headed
<1> QED BY <1>1, <1>2, <1>3, <1>5, IdsRecorded

LEMMA IdsOpenLoop ==
  ASSUME IdsInv, LoopsInv, NEW k, NEW b, OpenLoop(k, b)
  PROVE  IdsInv'
<1> DEFINE l == LoopHere(b)
<1>1. l.id = <<clock, 0>>
  BY DEF LoopHere
<1>2. /\ loops' = Append(loops, l) /\ sites' = sites /\ entrypoints' = entrypoints
      /\ clock' = clock + 1
  BY DEF OpenLoop, Tick
<1> HIDE DEF l
<1> QED BY <1>1, <1>2, IdsLoop DEF IdsInv, LoopsInv

(* What a loop was recorded with is not changed when it is left.            *)
LoopFields == {"id", "function", "bounded", "at", "closed", "storage_ops", "contract_calls"}
FieldsInv == \A i \in 1..Len(loops) : LoopFields \subseteq DOMAIN loops[i]

LEMMA LoopClosedFields ==
  ASSUME LoopsInv, FieldsInv, CloseLoop
  PROVE  /\ Len(loops') = Len(loops) /\ FieldsInv'
         /\ \A i \in 1..Len(loops) :
              /\ loops'[i].id = loops[i].id /\ loops'[i].at = loops[i].at
              /\ loops'[i].closed \/ loops'[i] = loops[i]
<1> DEFINE k == Top.index
           ops == Since("storage_ops")
           calls == Since("calls")
           Left(l) == [l EXCEPT !.storage_ops = ops, !.contract_calls = calls, !.closed = TRUE]
<1>1. loops' = [loops EXCEPT ![k] = Left(loops[k])]
  BY DEF CloseLoop
<1>2. DOMAIN loops = 1..Len(loops) /\ Len(loops) \in Nat /\ IsList(loops')
  BY ListType, LoopsClosed DEF LoopsInv, IsList
<1>3. DOMAIN loops' = 1..Len(loops') /\ Len(loops') \in Nat
  BY <1>2, ListType DEF IsList
<1> HIDE DEF ops, calls, k
<1>4. ASSUME NEW l, LoopFields \subseteq DOMAIN l
      PROVE  /\ LoopFields \subseteq DOMAIN Left(l)
             /\ Left(l).id = l.id /\ Left(l).at = l.at /\ Left(l).closed
  BY <1>4 DEF LoopFields
<1> HIDE DEF Left
<1>5. \A i \in 1..Len(loops) : loops'[i] = IF i = k THEN Left(loops[i]) ELSE loops[i]
  BY <1>1, <1>2
<1>6. 1..Len(loops') = 1..Len(loops)
  BY <1>1, <1>2, <1>3
<1>7. Len(loops') = Len(loops)
  <2> DEFINE m == Len(loops')
             n == Len(loops)
  <2>1. m \in Nat /\ n \in Nat /\ 1..m = 1..n
    BY <1>2, <1>3, <1>6
  <2> HIDE DEF m, n
  <2>2. (m > 0 => m \in 1..n) /\ (n > 0 => n \in 1..m)
    BY <2>1
  <2>3. m = n
    BY <2>1, <2>2
  <2> QED BY <2>3 DEF m, n
<1>8. ASSUME NEW i \in 1..Len(loops)
      PROVE  /\ LoopFields \subseteq DOMAIN loops'[i]
             /\ loops'[i].id = loops[i].id /\ loops'[i].at = loops[i].at
             /\ loops'[i].closed \/ loops'[i] = loops[i]
  BY <1>4, <1>5 DEF FieldsInv
<1> QED BY <1>7, <1>8 DEF FieldsInv

LEMMA FieldsNext == LoopsInv /\ FieldsInv /\ [Next]_vars => FieldsInv'
<1> SUFFICES ASSUME LoopsInv, FieldsInv, [Next]_vars PROVE FieldsInv'
  OBVIOUS
<1>1. ASSUME NEW k, NEW b, OpenLoop(k, b) PROVE FieldsInv'
  <2> DEFINE l == LoopHere(b)
  <2>1. LoopFields \subseteq DOMAIN l
    BY DEF LoopHere, LoopFields
  <2>2. loops' = Append(loops, l)
    BY <1>1 DEF OpenLoop
  <2> HIDE DEF l
  <2>3. /\ Len(loops') = Len(loops) + 1 /\ Len(loops) \in Nat /\ loops'[Len(loops) + 1] = l
        /\ \A i \in 1..Len(loops) : loops'[i] = loops[i]
    BY <2>2, Appended DEF LoopsInv, IsList
  <2>4. \A i \in 1..Len(loops') : i \in 1..Len(loops) \/ i = Len(loops) + 1
    BY <2>3
  <2> QED BY <2>1, <2>3, <2>4 DEF FieldsInv
<1>2. CASE loops' = loops
  BY <1>2 DEF FieldsInv
<1> QED BY <1>1, <1>2, LoopsChange, LoopClosedFields

LEMMA EntriesChange ==
  ASSUME [Next]_vars, ~(entrypoints' = entrypoints)
  PROVE  \E n \in vocabulary.names, p, r, t, a \in BOOLEAN : OpenMethod(n, p, r, t, a)
<1>1. CASE Items
  BY <1>1 DEF Items, BeginFile, OpenMod, DeclareContract, OpenImpl, CloseMod, CloseImpl,
       CloseFn, OpenFn, vectors
<1>2. CASE Statements
  BY <1>2 DEF Statements, OpenBlock, Let, BindPattern, VisitChain, VisitExpr, VisitCall, OpenGuard,
       OpenLoop, CloseBlock, CloseGuard, StartBody, CloseLoop, vectors
<1>3. CASE Finish \/ UNCHANGED vars
  BY <1>3 DEF Finish, vars, vectors
<1> QED BY <1>1, <1>2, <1>3 DEF Next

LEMMA IdsNext == ContextInv /\ LoopsInv /\ FieldsInv /\ IdsInv /\ [Next]_vars => IdsInv'
<1> SUFFICES ASSUME ContextInv, LoopsInv, FieldsInv, IdsInv, [Next]_vars PROVE IdsInv'
  OBVIOUS
<1>1. CASE \E n \in vocabulary.names, t, a \in BOOLEAN : OpenFn(n, t, a)
  <2>1. PICK n \in vocabulary.names, t \in BOOLEAN, a \in BOOLEAN : OpenFn(n, t, a)
    BY <1>1
  <2>2. PICK N : sites' = sites \cup N /\ Batch(N, clock)
    BY <2>1, EnterBodyBatch DEF OpenFn
  <2>3. entrypoints' = entrypoints /\ loops' = loops /\ clock' = clock + 1
    BY <2>1 DEF OpenFn, Tick
  <2> QED BY <2>2, <2>3, IdsSites
<1>2. CASE \E n \in vocabulary.names, p, r, t, a \in BOOLEAN : OpenMethod(n, p, r, t, a)
  BY <1>2, IdsOpenMethod
<1>3. CASE \E c \in vocabulary.chains, k \in KeyExpr : VisitChain(c, k)
  <2>1. PICK c \in vocabulary.chains, k \in KeyExpr : VisitChain(c, k)
    BY <1>3
  <2>2. Batch(ChainSites(c, k), clock) /\ Batch({}, clock)
    <3>1. vocabulary \in Vocabularies
      BY DEF ContextInv
    <3> QED BY <3>1, BatchOfChain, BatchNone
  <2>3. /\ sites' = sites \cup {} \/ sites' = sites \cup ChainSites(c, k)
        /\ entrypoints' = entrypoints /\ loops' = loops /\ clock' = clock + 1
    BY <2>1 DEF VisitChain, Tick
  <2> QED BY <2>2, <2>3, IdsSites
<1>4. CASE \E e \in vocabulary.operations : VisitExpr(e)
  <2>1. PICK e \in vocabulary.operations : VisitExpr(e)
    BY <1>4
  <2> DEFINE N == {SiteOf(vec, 0, WhatExpr(e), guarded_depth > 0, NoKey, Meaning(NoKey)) :
                     vec \in RecordedExpr(e)}
  <2>2. Batch(N, clock) /\ Batch({}, clock)
    BY BatchOfExpr, BatchNone
  <2>3. /\ sites' = sites \cup {} \/ sites' = sites \cup N
        /\ entrypoints' = entrypoints /\ loops' = loops /\ clock' = clock + 1
    BY <2>1 DEF VisitExpr, Tick
  <2> HIDE DEF N
  <2> QED BY <2>2, <2>3, IdsSites
<1>5. CASE OpenGuard("cond", FALSE) \/ \E w \in BOOLEAN : OpenGuard("guard", w)
  <2> DEFINE s == SiteOf("arithmetic", 0, WrappingCall, guarded_depth > 0, NoKey, Meaning(NoKey))
  <2>1. Batch({s}, clock) /\ Batch({}, clock)
    BY SiteOfIs, BatchOne, BatchNone
  <2>2. /\ sites' = sites \cup {} \/ sites' = sites \cup {s}
        /\ entrypoints' = entrypoints /\ loops' = loops /\ clock' = clock + 1
    BY <1>5 DEF OpenGuard, Tick
  <2> HIDE DEF s
  <2> QED BY <2>1, <2>2, IdsSites
<1>6. CASE \E k \in {"for", "while", "loop"}, b \in BOOLEAN : OpenLoop(k, b)
  BY <1>6, IdsOpenLoop
<1>7. CASE CloseLoop
  <2>1. Len(loops') = Len(loops) /\ \A i \in 1..Len(loops) : loops'[i].id = loops[i].id
    BY <1>7, LoopClosedFields
  <2>2. sites' = sites /\ entrypoints' = entrypoints /\ clock' = clock
    BY <1>7 DEF CloseLoop
  <2> QED BY <2>1, <2>2, IdsKept DEF IdsInv
<1>8. CASE sites' = sites /\ loops' = loops /\ entrypoints' = entrypoints
  <2>1. CASE clock' = clock
    BY <1>8, <2>1 DEF IdsInv
  <2>2. CASE clock' = clock + 1
    <3>1. sites' = sites \cup {}
      BY <1>8
    <3> QED BY <1>8, <2>2, <3>1, BatchNone, IdsSites
  <2> QED BY <2>1, <2>2, ClockNext
<1>9. ASSUME ~(entrypoints' = entrypoints)
      PROVE  \E n \in vocabulary.names, p, r, t, a \in BOOLEAN : OpenMethod(n, p, r, t, a)
  BY <1>9, EntriesChange
<1> QED BY <1>1, <1>2, <1>3, <1>4, <1>5, <1>6, <1>7, <1>8, <1>9, SitesChange, LoopsChange

--------------------------------------------------------------------------
(* A loop of test code stands below a test module or impl block, and what   *)
(* stands in it is test code.                                               *)
MarkedUpTo(o, k) == \E i \in 1..k : o[i].kind \in Marks /\ o[i].test

MarkedLoops(o, L, tf) ==
  \A k \in 1..Len(o) :
    o[k].kind \in LoopKinds /\ L[o[k].index].at.test_scope => tf \/ MarkedUpTo(o, k)

TestLoopsInv ==
  /\ MarkedLoops(open, loops, test_file)
  /\ \A k \in 1..Len(loops) :
       ~loops[k].closed => loops[k].storage_ops = {} /\ loops[k].contract_calls = {}
  /\ \A k \in 1..Len(loops) : \A s \in sites :
       k \in s.at.loops /\ loops[k].at.test_scope => s.at.test_scope

KeepsMarks(o, p) ==
  \A i \in 1..Len(o) : i <= Len(p) /\ o[i].kind \in Marks /\ o[i].test =>
    p[i].kind \in Marks /\ p[i].test

LEMMA MarksKept ==
  ASSUME ContextInv, Items \/ Statements
  PROVE  KeepsMarks(open, open')
<1>1. CASE Alike(open, open')
  BY <1>1 DEF Alike, KeepsMarks
<1>2. CASE \E f \in vocabulary.impls : OpenImpl(f)
  <2>1. PICK n : open' = Append(open, n)
    BY <1>2 DEF OpenImpl, Push
  <2>2. \A i \in 1..Len(open) : open'[i] = open[i]
    BY <2>1, Appended DEF ContextInv, IsStack
  <2> QED BY <2>2 DEF KeepsMarks
<1>3. CASE CloseImpl
  <2>1. open # << >> /\ open' = Below
    BY <1>3 DEF CloseImpl, IsOpen
  <2>2. /\ Len(open') = Len(open) - 1 /\ Len(open) \in Nat
        /\ \A i \in 1..(Len(open) - 1) : open'[i] = open[i]
    BY <2>1, Popped DEF ContextInv, Below
  <2>3. \A i \in 1..Len(open) : i <= Len(open') => open'[i] = open[i]
    BY <2>2
  <2> QED BY <2>3 DEF KeepsMarks
<1> QED BY <1>1, <1>2, <1>3, AlikeItems, AlikeStatements

(* p has no loop node that o has not, and the marks below each.             *)
LEMMA MarkedLoopsKept ==
  ASSUME NEW o, NEW p, NEW L, NEW M, NEW tf, Len(o) \in Nat, Len(p) \in Nat,
         MarkedLoops(o, L, tf), LoopsAgree(o, p), KeepsMarks(o, p),
         \A k \in 1..Len(o) : o[k].kind \in LoopKinds =>
           (M[o[k].index].at.test_scope => L[o[k].index].at.test_scope)
  PROVE  MarkedLoops(p, M, tf)
<1> SUFFICES ASSUME NEW k \in 1..Len(p), p[k].kind \in LoopKinds, M[p[k].index].at.test_scope, ~tf
             PROVE  MarkedUpTo(p, k)
  BY DEF MarkedLoops
<1>1. k \in 1..Len(o) /\ o[k].kind \in LoopKinds /\ p[k].index = o[k].index
  BY DEF LoopsAgree
<1>2. PICK i \in 1..k : o[i].kind \in Marks /\ o[i].test
  BY <1>1 DEF MarkedLoops, MarkedUpTo
<1>3. i \in 1..Len(o) /\ i <= Len(p)
  BY <1>1
<1> QED BY <1>2, <1>3 DEF KeepsMarks, MarkedUpTo

(* A step that records no loop.                                             *)
LEMMA TestLoopsKept ==
  ASSUME ContextInv, SeenInv, TestLoopsInv, NewSites, loops' = loops, LoopsAgree(open, open'),
         KeepsMarks(open, open'), test_file' = test_file
  PROVE  TestLoopsInv'
<1>1. Len(open) \in Nat /\ Len(open') \in Nat /\ DOMAIN open = 1..Len(open)
  BY StackType DEF ContextInv, IsStack, IsList, LoopsAgree, LoopStack
<1>2. MarkedLoops(open', loops, test_file)
  BY <1>1, MarkedLoopsKept DEF TestLoopsInv
<1>3. ASSUME NEW k \in 1..Len(loops), NEW s \in sites', k \in s.at.loops, loops[k].at.test_scope
      PROVE  s.at.test_scope
  <2>1. CASE s \in sites
    BY <1>3, <2>1 DEF TestLoopsInv
  <2>2. CASE Fresh(s)
    <3>1. PICK i \in 1..Len(open) : open[i].kind \in LoopKinds /\ open[i].index = k
      BY <1>1, <1>3, <2>2 DEF Fresh, Place, LoopKinds
    <3>2. test_file \/ MarkedUpTo(open, i)
      BY <1>3, <3>1 DEF TestLoopsInv, MarkedLoops
    <3>3. \A j \in 1..i : j \in DOMAIN open
      BY <1>1, <3>1
    <3>4. Place(open).test_scope
      BY <3>2, <3>3 DEF Place, MarkedUpTo, Marks
    <3> QED BY <2>2, <3>4 DEF Fresh
  <2> QED BY <2>1, <2>2 DEF NewSites
<1> QED BY <1>2, <1>3 DEF TestLoopsInv

(* The node of a loop that is entered, on top of which a condition may      *)
(* stand.                                                                   *)
LEMMA LoopEntered ==
  ASSUME LoopStack(open), NEW k \in {"for", "while", "loop"}, NEW b, OpenLoop(k, b)
  PROVE  /\ Len(open') \in Nat /\ \A i \in 1..Len(open) : open'[i] = open[i]
         /\ \A i \in 1..Len(open') : open'[i].kind \in LoopKinds =>
              i \in 1..Len(open) \/ (i = Len(open) + 1 /\ open'[i].index = Len(loops) + 1)
<1> DEFINE p(j) == Append(open, LoopNode(j))
<1>1. \A j : Looped(LoopNode(j)) /\ LoopNode(j).index = Len(loops) + 1
  <2> TAKE j
  <2>1. LoopNode(j).index = Len(loops) + 1
    BY DEF LoopNode, NodeOf
  <2>2. Looped(LoopNode(j))
    BY DEF LoopNode, NodeOf, Looped
  <2> QED BY <2>1, <2>2
<1>2. ASSUME NEW j
      PROVE  /\ IsList(p(j)) /\ Len(p(j)) = Len(open) + 1 /\ Len(open) \in Nat
             /\ \A i \in 1..Len(open) : p(j)[i] = open[i]
             /\ p(j)[Len(open) + 1].index = Len(loops) + 1
  BY <1>1, Appended DEF LoopStack, IsList
<1> HIDE DEF p
<1>3. ASSUME NEW j, NEW q, IsList(q),
             Len(q) = Len(open) + 1 \/ (Len(q) = Len(open) + 2 /\ q[Len(q)].kind \notin LoopKinds),
             \A i \in 1..(Len(open) + 1) : q[i] = p(j)[i]
      PROVE  /\ Len(q) \in Nat /\ \A i \in 1..Len(open) : q[i] = open[i]
             /\ \A i \in 1..Len(q) : q[i].kind \in LoopKinds =>
                  i \in 1..Len(open) \/ (i = Len(open) + 1 /\ q[i].index = Len(loops) + 1)
  <2> DEFINE n == Len(open)
             m == Len(q)
  <2>1. n \in Nat /\ m \in Nat /\ (m = n + 1 \/ (m = n + 2 /\ q[m].kind \notin LoopKinds))
    BY <1>2, <1>3 DEF IsList
  <2>a. /\ \A i \in 1..(n + 1) : q[i] = p(j)[i]
        /\ \A i \in 1..n : p(j)[i] = open[i]
        /\ p(j)[n + 1].index = Len(loops) + 1
    BY <1>2, <1>3
  <2> HIDE DEF n, m
  <2>2. /\ \A i \in 1..n : i \in 1..(n + 1)
        /\ n + 1 \in 1..(n + 1)
        /\ \A i \in 1..m : i \in 1..n \/ i = n + 1 \/ (i = m /\ q[m].kind \notin LoopKinds)
    BY <2>1
  <2>3. \A i \in 1..n : q[i] = open[i]
    BY <2>2, <2>a
  <2>4. q[n + 1].index = Len(loops) + 1
    BY <2>2, <2>a
  <2>5. \A i \in 1..m : q[i].kind \in LoopKinds =>
          i \in 1..n \/ (i = n + 1 /\ q[i].index = Len(loops) + 1)
    BY <2>2, <2>4
  <2> QED BY <2>1, <2>3, <2>5 DEF n, m
<1>4. CASE \E j : open' = p(j)
  <2>1. PICK j : open' = p(j)
    BY <1>4
  <2>2. IsList(open') /\ Len(open') = Len(open) + 1 /\ \A i \in 1..(Len(open) + 1) : open'[i] = p(j)[i]
    BY <1>2, <2>1
  <2> QED BY <1>3, <2>2
<1>5. CASE open' = Append(p("loop"), Node("guard"))
  <2> DEFINE o == p("loop")
             g == Node("guard")
  <2>1. IsList(o) /\ Len(o) = Len(open) + 1 /\ Len(open) \in Nat
    BY <1>2
  <2>2. g.kind = "guard"
    BY DEF Node, NodeOf
  <2>3. open' = Append(o, g)
    BY <1>5
  <2> HIDE DEF o, g
  <2>4. /\ IsList(open') /\ Len(open') = Len(o) + 1 /\ open'[Len(o) + 1] = g
        /\ \A i \in 1..Len(o) : open'[i] = o[i]
    BY <2>1, <2>3, Appended
  <2>5. g.kind \notin LoopKinds
    BY <2>2 DEF LoopKinds
  <2>6. Len(open') = Len(open) + 2 /\ open'[Len(open')].kind \notin LoopKinds
    BY <2>1, <2>4, <2>5
  <2>7. \A i \in 1..(Len(open) + 1) : open'[i] = o[i]
    BY <2>1, <2>4
  <2> QED BY <1>3, <2>4, <2>6, <2>7 DEF o
<1> QED BY <1>4, <1>5 DEF OpenLoop, p

LEMMA TestLoopsOpened ==
  ASSUME ContextInv, SeenInv, TestLoopsInv,
         NEW k \in {"for", "while", "loop"}, NEW b, OpenLoop(k, b)
  PROVE  TestLoopsInv'
<1> DEFINE r == LoopHere(b)
           n == Len(loops) + 1
           l == Len(open)
<1>1. /\ loops' = Append(loops, r) /\ sites' = sites /\ test_file' = test_file
  BY DEF OpenLoop, Kept
<1>2. ~r.closed /\ r.storage_ops = {} /\ r.contract_calls = {} /\ r.at = Place(open)
  BY DEF LoopHere
<1> HIDE DEF r
<1>3. /\ Len(loops') = n /\ loops'[n] = r /\ Len(loops) \in Nat
      /\ \A i \in 1..Len(loops) : loops'[i] = loops[i]
  BY <1>1, Appended DEF SeenInv, Seen, IsList
<1>4. \A i \in 1..n : i \in 1..Len(loops) \/ i = n
  BY <1>3
<1>5. /\ Len(open') \in Nat /\ \A i \in 1..l : open'[i] = open[i]
      /\ \A i \in 1..Len(open') : open'[i].kind \in LoopKinds =>
           i \in 1..l \/ (i = l + 1 /\ open'[i].index = n)
  BY LoopEntered DEF SeenInv, Seen
<1>6. l \in Nat /\ DOMAIN open = 1..l
  BY StackType DEF ContextInv, IsStack, IsList
<1>7. r.at.test_scope => test_file \/ MarkedUpTo(open, l)
  <2>1. Place(open).test_scope <=>
          test_file \/ \E i \in DOMAIN open : open[i].kind \in Marks /\ open[i].test
    BY DEF Place, Marks
  <2> HIDE DEF l
  <2>2. Place(open).test_scope => test_file \/ MarkedUpTo(open, l)
    BY <1>6, <2>1 DEF MarkedUpTo
  <2> QED BY <1>2, <2>2
<1>8. \A s \in sites : n \notin s.at.loops
  <2>1. n \notin 1..Len(loops)
    BY <1>3
  <2> QED BY <2>1 DEF SeenInv, Seen
<1> HIDE DEF n, l
<1>9. ASSUME NEW i \in 1..Len(open'), open'[i].kind \in LoopKinds,
             loops'[open'[i].index].at.test_scope
      PROVE  test_file \/ MarkedUpTo(open', i)
  <2>1. CASE i \in 1..l
    <3>1. open'[i] = open[i] /\ open[i].index \in 1..Len(loops)
      BY <1>5, <1>9, <2>1 DEF SeenInv, Seen, l
    <3>2. loops[open[i].index].at.test_scope
      BY <1>3, <1>9, <3>1
    <3>3. test_file \/ MarkedUpTo(open, i)
      BY <1>9, <2>1, <3>1, <3>2 DEF TestLoopsInv, MarkedLoops, l
    <3>4. \A j \in 1..i : j \in 1..l
      BY <1>6, <2>1
    <3> QED BY <1>5, <3>3, <3>4 DEF MarkedUpTo
  <2>2. CASE i = l + 1 /\ open'[i].index = n
    <3>1. test_file \/ MarkedUpTo(open, l)
      BY <1>3, <1>7, <1>9, <2>2
    <3>2. \A j \in 1..l : j \in 1..i
      BY <1>6, <2>2
    <3> QED BY <1>5, <3>1, <3>2 DEF MarkedUpTo
  <2> QED BY <1>5, <1>9, <2>1, <2>2
<1>10. MarkedLoops(open', loops', test_file)
  BY <1>9 DEF MarkedLoops
<1>11. \A i \in 1..n :
         /\ ~loops'[i].closed => loops'[i].storage_ops = {} /\ loops'[i].contract_calls = {}
         /\ \A s \in sites : i \in s.at.loops /\ loops'[i].at.test_scope => s.at.test_scope
  BY <1>2, <1>3, <1>4, <1>8 DEF TestLoopsInv
<1> QED BY <1>1, <1>3, <1>10, <1>11 DEF TestLoopsInv

LEMMA TestLoopsClosed ==
  ASSUME ContextInv, SeenInv, LoopsInv, FieldsInv, TestLoopsInv, CloseLoop
  PROVE  TestLoopsInv'
<1>1. /\ Len(loops') = Len(loops)
      /\ \A i \in 1..Len(loops) :
           /\ loops'[i].id = loops[i].id /\ loops'[i].at = loops[i].at
           /\ loops'[i].closed \/ loops'[i] = loops[i]
  BY LoopClosedFields
<1>2. /\ sites' = sites /\ test_file' = test_file /\ open # << >> /\ open' = Below
  BY DEF CloseLoop, IsOpen, Kept
<1>3. LoopsAgree(open, open')
  BY <1>2, AgreeLeave DEF SeenInv, Seen
<1>4. Len(open) \in Nat /\ Len(open') \in Nat
  BY <1>3 DEF ContextInv, IsStack, IsList, LoopsAgree, LoopStack
<1>5. KeepsMarks(open, open')
  BY MarksKept DEF Statements
<1>6. \A k \in 1..Len(open) : open[k].kind \in LoopKinds => open[k].index \in 1..Len(loops)
  BY DEF SeenInv, Seen
<1>7. MarkedLoops(open', loops', test_file)
  BY <1>1, <1>3, <1>4, <1>5, <1>6, MarkedLoopsKept DEF TestLoopsInv
<1> QED BY <1>1, <1>2, <1>7 DEF TestLoopsInv

LEMMA TestLoopsNext ==
  /\ ContextInv /\ KeysInv /\ SeenInv /\ LoopsInv /\ FieldsInv /\ TestLoopsInv /\ [Next]_vars
  => TestLoopsInv'
<1> SUFFICES ASSUME ContextInv, KeysInv, SeenInv, LoopsInv, FieldsInv, TestLoopsInv, [Next]_vars
             PROVE  TestLoopsInv'
  OBVIOUS
<1>0. NewSites /\ LoopStack(open)
  BY NewNext DEF SeenInv, Seen
<1>1. CASE \E t \in BOOLEAN : BeginFile(t)
  <2>1. open' = << >> /\ sites' = sites /\ loops' = loops
    BY <1>1 DEF BeginFile, vectors
  <2>2. Len(open') = 0
    BY <2>1, EmptyList
  <2> QED BY <2>1, <2>2 DEF TestLoopsInv, MarkedLoops
<1>2. CASE \E k \in {"for", "while", "loop"}, b \in BOOLEAN : OpenLoop(k, b)
  BY <1>2, TestLoopsOpened
<1>3. CASE CloseLoop
  BY <1>3, TestLoopsClosed
<1>4. CASE Finish \/ UNCHANGED vars
  <2>1. open' = open /\ loops' = loops /\ sites' = sites /\ test_file' = test_file
    BY <1>4 DEF Finish, vars, vectors
  <2> QED BY <2>1 DEF TestLoopsInv
<1>5. CASE Items /\ ~(\E t \in BOOLEAN : BeginFile(t))
  <2>1. loops' = loops /\ test_file' = test_file
    BY <1>5 DEF Items, OpenMod, DeclareContract, OpenImpl, CloseMod, CloseImpl, CloseFn,
         OpenFn, OpenMethod, Kept, vectors
  <2> QED BY <1>0, <1>5, <2>1, AgreeItems, MarksKept, TestLoopsKept
<1>6. CASE Statements /\ ~CloseLoop
           /\ ~(\E k \in {"for", "while", "loop"}, b \in BOOLEAN : OpenLoop(k, b))
  <2>1. loops' = loops
    BY <1>6, LoopsChange
  <2>2. test_file' = test_file
    BY <1>6 DEF Statements, OpenBlock, Let, BindPattern, VisitChain, VisitExpr, VisitCall, OpenGuard,
         OpenLoop, CloseBlock, CloseGuard, StartBody, CloseLoop, Kept
  <2> QED BY <1>0, <1>6, <2>1, <2>2, AgreeStatements, MarksKept, TestLoopsKept
<1> QED BY <1>1, <1>2, <1>3, <1>4, <1>5, <1>6 DEF Next

--------------------------------------------------------------------------
(* The finished model is what the vectors hold.                             *)
ModelInv ==
  model.built =>
    /\ model.call_graph = {e \in call_graph : e[2] \in defined_functions}
    /\ model.contracts = {ContractOf(c) : c \in declared_contracts \cup impl_contracts}

LEMMA ModelNext == ModelInv /\ [Next]_vars => ModelInv'
<1> SUFFICES ASSUME ModelInv, [Next]_vars PROVE ModelInv'
  OBVIOUS
<1>1. CASE Finish
  <2>1. /\ UNCHANGED vectors
        /\ model'.call_graph = {e \in call_graph : e[2] \in defined_functions}
        /\ model'.contracts = {ContractOf(c) : c \in declared_contracts \cup impl_contracts}
    BY <1>1 DEF Finish
  <2> QED BY <2>1 DEF ModelInv, ContractOf, vectors
<1>2. CASE ~Finish
  <2>1. model' = model /\ (model.built => UNCHANGED vars)
    BY <1>2, ModelKept
  <2> QED BY <2>1 DEF ModelInv, ContractOf, vars, vectors
<1> QED BY <1>1, <1>2

LEMMA ListedEntries ==
  ASSUME ModelInv, model.built
  PROVE  Entrypoints(Built) = {e \in entrypoints :
                                 e.contract \in declared_contracts \cup impl_contracts}
<1>1. Built.contracts = {ContractOf(c) : c \in declared_contracts \cup impl_contracts}
  BY DEF Built, ModelInv
<1>2. \A c : ContractOf(c).entrypoints = {e \in entrypoints : e.contract = c}
  BY DEF ContractOf
<1> DEFINE M == Built
           D == declared_contracts \cup impl_contracts
<1> HIDE DEF M, D
<1>3. \A e : e \in Entrypoints(M) <=> \E c \in M.contracts : e \in c.entrypoints
  BY DEF Entrypoints
<1>4. M.contracts = {ContractOf(c) : c \in D}
  BY <1>1 DEF M, D
<1>5. \A e : e \in Entrypoints(M) <=> \E c \in D : e \in ContractOf(c).entrypoints
  BY <1>3, <1>4
<1>6. \A e : e \in Entrypoints(M) <=> e \in entrypoints /\ e.contract \in D
  BY <1>2, <1>5
<1> QED BY <1>6 DEF M, D

(* What a finding points at.                                                *)
PointsAt(f, x, n) == f.id = x.id /\ f.function = n

LEMMA FindingIs ==
  ASSUME NEW r, NEW x, NEW n, NEW v
  PROVE  PointsAt(Finding(r, x, n, v), x, n)
BY DEF Finding, PointsAt

LEMMA AtSiteOf ==
  ASSUME NEW r, NEW v, NEW S, NEW f \in AtSites(r, v, S)
  PROVE  \E x \in S : PointsAt(f, x, x.function)
BY FindingIs DEF AtSites

LEMMA AtEntrypointOf ==
  ASSUME NEW r, NEW v, NEW S, NEW f \in AtEntrypoints(r, v, S)
  PROVE  \E x \in S : PointsAt(f, x, x.name)
BY FindingIs DEF AtEntrypoints

LEMMA FindingsPointAt ==
  ASSUME NEW m, NEW p, NEW f \in Findings(m, p)
  PROVE  \/ \E x \in m.sites : PointsAt(f, x, x.function)
         \/ \E x \in m.loops : IsRisky(x) /\ PointsAt(f, x, x.function)
         \/ \E x \in Entrypoints(m) : PointsAt(f, x, x.name)
<1> DEFINE Site == \E x \in m.sites : PointsAt(f, x, x.function)
           Loop == \E x \in m.loops : IsRisky(x) /\ PointsAt(f, x, x.function)
           Entry == \E x \in Entrypoints(m) : PointsAt(f, x, x.name)
<1> SUFFICES Site \/ Loop \/ Entry
  OBVIOUS
<1>1. ASSUME NEW r, NEW v, NEW S \in SUBSET m.sites, f \in AtSites(r, v, S) PROVE Site
  BY <1>1, AtSiteOf
<1>2. ASSUME NEW r, NEW v, NEW S \in SUBSET Entrypoints(m), f \in AtEntrypoints(r, v, S)
      PROVE  Entry
  BY <1>2, AtEntrypointOf
<1> HIDE DEF Site, Entry
<1>3. CASE f \in MissingRequireAuth(m)
  BY <1>2, <1>3 DEF MissingRequireAuth
<1>4. CASE f \in CheckAuthWithoutVerification(m)
  BY <1>2, <1>4 DEF CheckAuthWithoutVerification, HasTransitive
<1>5. CASE f \in MissingTtlExtension(m)
  BY <1>2, <1>5 DEF MissingTtlExtension, HasTransitive
<1>6. CASE f \in StorageTierConfusion(m) \cup TemporaryStorageWrite(m) \cup UnboundedEntryGrowth(m)
  BY <1>1, <1>6 DEF StorageTierConfusion, TemporaryStorageWrite, UnboundedEntryGrowth,
                    Keyed, Vec
<1>7. CASE f \in UncheckedTokenArithmetic(m, p)
  BY <1>1, <1>7 DEF UncheckedTokenArithmetic, Vec
<1>8. CASE f \in LossyCast(m) \cup WrappingArithmetic(m) \cup PredictableRandomness(m)
  BY <1>1, <1>8 DEF LossyCast, WrappingArithmetic, PredictableRandomness, Vec
<1>9. CASE f \in UnauthorizedUpgrade(m) \cup UnauthorizedDeploy(m)
  BY <1>1, <1>9 DEF UnauthorizedUpgrade, UnauthorizedDeploy, Unauthorized, Vec
<1>10. CASE f \in PanicOnCallerInput(m)
  BY <1>1, <1>10 DEF PanicOnCallerInput, Vec
<1>11. CASE f \in UnboundedLoopOverStorage(m)
  <2>1. \E x \in {l \in m.loops : IsRisky(l)} : PointsAt(f, x, x.function)
    BY <1>11, AtSiteOf DEF UnboundedLoopOverStorage
  <2> QED BY <2>1
<1> QED BY <1>3, <1>4, <1>5, <1>6, <1>7, <1>8, <1>9, <1>10, <1>11 DEF Findings

(* Everything that is known of what is recorded.                            *)
RecordedInv ==
  /\ ContextInv /\ DepthInv /\ TestInv /\ KeysInv /\ SeenInv
  /\ SitesInv /\ LoopsInv /\ SoundInv /\ FieldsInv /\ IdsInv /\ TestLoopsInv /\ ModelInv

LEMMA RecordedInvInit == Init => RecordedInv
<1> SUFFICES ASSUME Init PROVE RecordedInv
  OBVIOUS
<1>1. /\ sites = {} /\ loops = << >> /\ open = << >> /\ entrypoints = {} /\ clock = 0
      /\ ~model.built
  BY DEF Init, NoModel
<1>2. Len(loops) = 0 /\ Len(open) = 0
  BY <1>1, EmptyList
<1>3. SoundInv /\ FieldsInv /\ ModelInv
  BY <1>1, <1>2 DEF SoundInv, FieldsInv, ModelInv
<1>4. IdsInv
  BY <1>1, <1>2 DEF IdsInv, Ids, Numbered
<1>5. TestLoopsInv
  BY <1>1, <1>2 DEF TestLoopsInv, MarkedLoops
<1> QED BY <1>3, <1>4, <1>5, ContextInit, DepthInit, TestInit, KeysInit, SeenInit, RecordedInit
        DEF RecordedInv

LEMMA RecordedInvNext == RecordedInv /\ [Next]_vars => RecordedInv'
BY ContextNext, DepthNext, TestNext, KeysNext, SeenNext, SitesNext, LoopsNext, SoundNext,
   FieldsNext, IdsNext, TestLoopsNext, ModelNext DEF RecordedInv

LEMMA SilentIsCounted ==
  ASSUME NEW s
  PROVE  Silent(s) <=> ~Uncounted(s)
BY DEF Silent, Uncounted

LEMMA RiskyLoopCounted ==
  ASSUME RecordedInv, NEW i \in 1..Len(loops), IsRisky(loops[i])
  PROVE  ~Uncounted(loops[i])
<1> DEFINE l == loops[i]
<1>1. l.closed /\ (l.storage_ops # {} \/ l.contract_calls # {})
  BY DEF IsRisky, RecordedInv, TestLoopsInv
<1>2. CountsOf(l, i, sites)
  BY DEF RecordedInv, SeenInv, Seen
<1>3. \E s \in sites : i \in s.at.loops
  BY <1>1, <1>2 DEF CountsOf, SitesOf
<1>4. PICK s \in sites : i \in s.at.loops
  BY <1>3
<1>5. Silent(s) /\ (l.at.test_scope => s.at.test_scope)
  BY <1>4 DEF RecordedInv, SoundInv, TestLoopsInv
<1> QED BY <1>5 DEF Silent, Uncounted

(* A finding points at one recording, whose place decides what it says.     *)
LEMMA PlacedFindings ==
  ASSUME RecordedInv, model.built, NEW p, NEW f \in Findings(Built, p),
         NEW s \in Recordings, s.id = f.id
  PROVE  /\ f.function = (IF s.at.cut THEN NoName ELSE s.at.fn)
         /\ ~Uncounted(s)
<1> DEFINE Names(x) == IF x.at.cut THEN x.function = NoName ELSE x.function = x.at.fn
<1>0. DOMAIN loops = 1..Len(loops)
  BY ListType DEF RecordedInv, LoopsInv
<1>1. /\ \A x \in sites : Names(x)
      /\ \A i \in 1..Len(loops) : Names(loops[i])
  BY DEF RecordedInv, SitesInv, LoopsInv, LoopRecorded, Attributed
<1>2. /\ Numbered(sites, clock)
      /\ \A i \in 1..Len(loops) : \A x \in sites : x.id[1] # loops[i].id[1]
      /\ \A i, j \in 1..Len(loops) : loops[i].id[1] = loops[j].id[1] => i = j
      /\ \A e \in entrypoints :
           /\ \A x \in sites : x.id[1] = e.id[1] => x.at.fn = e.name /\ ~x.at.cut
           /\ \A i \in 1..Len(loops) : loops[i].id[1] # e.id[1]
  BY DEF RecordedInv, IdsInv, Ids
<1>3. s \in sites \/ \E i \in 1..Len(loops) : s = loops[i]
  BY <1>0 DEF Recordings
<1>4. Built.sites = sites /\ Built.loops = {loops[i] : i \in 1..Len(loops)}
  BY <1>0 DEF Built
<1>5. CASE \E x \in sites : PointsAt(f, x, x.function)
  <2>1. PICK x \in sites : s.id = x.id /\ f.function = x.function
    BY <1>5 DEF PointsAt
  <2>2. s \in sites
    BY <1>2, <1>3, <2>1
  <2>3. Near(s, x)
    BY <1>2, <2>1, <2>2 DEF Numbered
  <2>4. ~Uncounted(s)
    BY <2>2, SilentIsCounted DEF RecordedInv, SoundInv
  <2> QED BY <1>1, <2>1, <2>3, <2>4 DEF Near
<1>6. CASE \E x \in Built.loops : IsRisky(x) /\ PointsAt(f, x, x.function)
  <2>1. PICK i \in 1..Len(loops) :
          IsRisky(loops[i]) /\ s.id = loops[i].id /\ f.function = loops[i].function
    BY <1>4, <1>6 DEF PointsAt
  <2>2. s = loops[i]
    BY <1>2, <1>3, <2>1
  <2> QED BY <1>1, <2>1, <2>2, RiskyLoopCounted
<1>7. CASE \E x \in Entrypoints(Built) : PointsAt(f, x, x.name)
  <2>1. PICK e \in entrypoints : s.id = e.id /\ f.function = e.name
    BY <1>7, ListedEntries DEF PointsAt, RecordedInv
  <2>2. s \in sites
    BY <1>2, <1>3, <2>1
  <2>3. ~Uncounted(s)
    BY <2>2, SilentIsCounted DEF RecordedInv, SoundInv
  <2> QED BY <1>2, <2>1, <2>2, <2>3
<1> QED BY <1>4, <1>5, <1>6, <1>7, FindingsPointAt

(* Whatever rule it is of, a finding at a site names the function the site  *)
(* stands in, and without include_tests none is in test code, the loops of  *)
(* test code included, for projects of any size.                            *)
THEOREM FindingsArePlaced == Spec => []FindingsPlaced
<1>1. RecordedInv => FindingsPlaced
  BY PlacedFindings DEF FindingsPlaced
<1> QED BY <1>1, RecordedInvInit, RecordedInvNext, PTL DEF Spec

--------------------------------------------------------------------------
(* What a key can be.                                                       *)
BoundInv == \A i \in 1..Len(key_bindings) : key_bindings[i].bound \in Bound
KeyTyped(s) == s.key \in Bound
KeysTypedInv == \A s \in sites : KeyTyped(s)

LEMMA ResolveBound ==
  ASSUME KeysInv, BoundInv, NEW text \in Bound
  PROVE  Resolve(text) \in Bound
<1> DEFINE H == {i \in DOMAIN key_bindings : key_bindings[i].name = text}
           n == Len(key_bindings)
           hit == LatestOr0(H)
<1>1. DOMAIN key_bindings = 1..n /\ n \in Nat
  BY ListType DEF KeysInv, Keys, IsList
<1>2. Resolve(text) = IF hit = 0 \/ key_bindings[hit].bound = NoKey THEN text
                      ELSE key_bindings[hit].bound
  BY DEF Resolve
<1>3. H \in SUBSET (1..n)
  BY <1>1
<1> HIDE DEF H, n
<1>4. hit = 0 \/ hit \in 1..n
  BY <1>1, <1>3, LastIs
<1> HIDE DEF hit
<1> QED BY <1>2, <1>4 DEF BoundInv, n

LEMMA BoundNext == KeysInv /\ BoundInv /\ [Next]_vars => BoundInv'
<1> SUFFICES ASSUME KeysInv, BoundInv, [Next]_vars PROVE BoundInv'
  OBVIOUS
<1>0. IsList(key_bindings)
  BY DEF KeysInv, Keys
<1>1. CASE key_bindings' = key_bindings
  BY <1>1 DEF BoundInv
<1>2. CASE \E k \in Ident, v \in Bound : Let(k, v)
  <2>1. PICK k \in Ident, v \in Bound : Let(k, v)
    BY <1>2
  <2> DEFINE x == IF v = NoKey THEN NoKey ELSE Resolve(v)
             b == [name |-> k, bound |-> x]
  <2>2. key_bindings' = Append(key_bindings, b)
    BY <2>1 DEF Let
  <2>3. x \in Bound
    BY ResolveBound DEF Bound
  <2>4. b.bound = x
    OBVIOUS
  <2> HIDE DEF b, x
  <2>5. /\ Len(key_bindings') = Len(key_bindings) + 1 /\ Len(key_bindings) \in Nat
        /\ \A i \in 1..Len(key_bindings) : key_bindings'[i] = key_bindings[i]
        /\ key_bindings'[Len(key_bindings) + 1] = b
    BY <1>0, <2>2, Appended DEF IsList
  <2>6. \A i \in 1..Len(key_bindings') : i \in 1..Len(key_bindings) \/ i = Len(key_bindings) + 1
    BY <2>5
  <2> QED BY <2>3, <2>4, <2>5, <2>6 DEF BoundInv
<1>3. CASE open # << >> /\ Truncate
  <2> DEFINE m == Top.scope
  <2>1. Len(open) \in 1..Len(open) /\ Len(key_bindings) \in Nat
    BY <1>3, KeysTop DEF KeysInv, Keys, IsList
  <2>2. Binds(Top) /\ Top.scope <= Len(key_bindings)
    BY <2>1 DEF KeysInv, Keys, Top
  <2>3. m \in 0..Len(key_bindings)
    BY <2>1, <2>2 DEF Binds, IsList
  <2>4. key_bindings' = SubSeq(key_bindings, 1, m)
    BY <1>3 DEF Truncate
  <2> HIDE DEF m
  <2>5. Len(key_bindings') = m /\ \A i \in 1..m : key_bindings'[i] = key_bindings[i]
    BY <1>0, <2>3, <2>4, Prefix
  <2>6. \A i \in 1..m : i \in 1..Len(key_bindings)
    BY <2>1, <2>3
  <2> QED BY <2>5, <2>6 DEF BoundInv
<1>4. CASE Items
  BY <1>1, <1>3, <1>4 DEF Items, BeginFile, NewFile, OpenMod, DeclareContract, OpenImpl, CloseMod,
       CloseImpl, CloseFn, OpenFn, OpenMethod, fields, IsOpen
<1>5. CASE Statements
  BY <1>1, <1>2, <1>3, <1>5 DEF Statements, OpenBlock, BindPattern, VisitChain, VisitExpr, VisitCall,
       OpenGuard, OpenLoop, CloseBlock, CloseGuard, StartBody, CloseLoop, fields, IsOpen
<1>6. CASE Finish \/ UNCHANGED vars
  BY <1>1, <1>6 DEF Finish, vars, fields
<1> QED BY <1>4, <1>5, <1>6 DEF Next

LEMMA SiteKeyTyped ==
  ASSUME NEW v, NEW p, NEW w, NEW g
  PROVE  KeyTyped(SiteOf(v, p, w, g, NoKey, Meaning(NoKey)))
BY DEF SiteOf, KeyTyped, Bound

LEMMA ChainSiteKeyTyped ==
  ASSUME KeysInv, BoundInv, NEW c, NEW k \in KeyExpr, NEW i, NEW vec
  PROVE  KeyTyped(ChainSite(c, k, i, vec))
<1> DEFINE keyed == vec = "storage_ops" /\ HasKey(Upto(c, i))
           x == IF keyed THEN Resolve(k) ELSE NoKey
           y == Meaning(IF keyed THEN k ELSE NoKey)
           s == SiteOf(vec, i, What(Upto(c, i)), guarded_depth > 0 \/ GuardedInside(c, i), x, y)
           q == [s EXCEPT !.at.guard = @ \/ GuardedInside(c, i)]
<1>1. x \in Bound
  BY ResolveBound DEF Bound
<1>2. ChainSite(c, k, i, vec) = q
  BY DEF ChainSite
<1>3. s.key = x /\ {"key", "meant", "at"} \subseteq DOMAIN s
  BY DEF SiteOf
<1> HIDE DEF s, x, y
<1>4. q.key = s.key
  BY <1>3
<1> QED BY <1>1, <1>2, <1>3, <1>4 DEF KeyTyped

LEMMA KeysTypedNext == KeysInv /\ BoundInv /\ KeysTypedInv /\ [Next]_vars => KeysTypedInv'
<1> SUFFICES ASSUME KeysInv, BoundInv, KeysTypedInv, [Next]_vars PROVE KeysTypedInv'
  OBVIOUS
<1>0. ASSUME NEW n, NEW t, NEW a \in BOOLEAN, EnterBody(n, t, a) PROVE KeysTypedInv'
  <2> DEFINE new == AttributeSite(function', FnFrame(n, t))
  <2>1. sites' \subseteq sites \cup {new}
    BY <1>0 DEF EnterBody
  <2>2. KeyTyped(new)
    BY DEF AttributeSite, KeyTyped, Bound
  <2> HIDE DEF new
  <2> QED BY <2>1, <2>2 DEF KeysTypedInv, KeyTyped
<1>1. CASE \E n \in vocabulary.names, t, a \in BOOLEAN : OpenFn(n, t, a)
  BY <1>0, <1>1 DEF OpenFn
<1>2. CASE \E n \in vocabulary.names, p, r, t, a \in BOOLEAN : OpenMethod(n, p, r, t, a)
  BY <1>0, <1>2 DEF OpenMethod
<1>3. CASE \E c \in vocabulary.chains, k \in KeyExpr : VisitChain(c, k)
  <2>1. PICK c \in vocabulary.chains, k \in KeyExpr : VisitChain(c, k)
    BY <1>3
  <2>2. \A s \in ChainSites(c, k) : KeyTyped(s)
    BY ChainSiteKeyTyped DEF ChainSites
  <2>3. sites' \subseteq sites \cup ChainSites(c, k)
    BY <2>1 DEF VisitChain
  <2> QED BY <2>2, <2>3 DEF KeysTypedInv, KeyTyped
<1>4. CASE \E e \in vocabulary.operations : VisitExpr(e)
  <2>1. PICK e \in vocabulary.operations : VisitExpr(e)
    BY <1>4
  <2> DEFINE New == {SiteOf(vec, 0, WhatExpr(e), guarded_depth > 0, NoKey, Meaning(NoKey)) :
                       vec \in RecordedExpr(e)}
  <2>2. \A s \in New : KeyTyped(s)
    BY SiteKeyTyped
  <2>3. sites' \subseteq sites \cup New
    BY <2>1 DEF VisitExpr
  <2> HIDE DEF New
  <2> QED BY <2>2, <2>3 DEF KeysTypedInv, KeyTyped
<1>5. CASE OpenGuard("cond", FALSE) \/ \E w \in BOOLEAN : OpenGuard("guard", w)
  <2> DEFINE s == SiteOf("arithmetic", 0, WrappingCall, guarded_depth > 0, NoKey, Meaning(NoKey))
  <2>1. KeyTyped(s)
    BY SiteKeyTyped
  <2>2. sites' \subseteq sites \cup {s}
    BY <1>5 DEF OpenGuard
  <2> HIDE DEF s
  <2> QED BY <2>1, <2>2 DEF KeysTypedInv, KeyTyped
<1>6. CASE sites' = sites
  BY <1>6 DEF KeysTypedInv, KeyTyped
<1> QED BY <1>1, <1>2, <1>3, <1>4, <1>5, <1>6, SitesChange

(* Among operations numbered by the steps there is a first: the outer one   *)
(* of a chain comes before the ones in its receiver.                        *)
LEMMA FirstOperation ==
  ASSUME NEW S, NEW c, Numbered(S, c), NEW C \in SUBSET S, C # {},
         \A s, t \in C : s.vec = t.vec
  PROVE  \E r \in C : \A t \in C : t # r => Precedes(r, t)
<1> DEFINE steps == {s.id[1] : s \in C}
<1>1. steps \in SUBSET Nat /\ steps # {}
  BY DEF Numbered, Stamped
<1>2. PICK x \in steps : \A k \in steps : x <= k
  BY <1>1, LeastElement
<1>3. PICK a \in C : a.id[1] = x
  OBVIOUS
<1>4. PICK n \in Nat : \A t \in C : t.id[1] = x => t.id[2] \in 0..n
  BY <1>3 DEF Numbered
<1> DEFINE D == {t \in C : t.id[1] = x}
           gaps == {n - t.id[2] : t \in D}
<1>5. gaps \in SUBSET Nat /\ gaps # {}
  <2>1. \A t \in D : n - t.id[2] \in Nat
    BY <1>4
  <2> QED BY <1>3, <2>1
<1>6. PICK g \in gaps : \A k \in gaps : g <= k
  BY <1>5, LeastElement
<1>7. PICK r \in D : g = n - r.id[2]
  OBVIOUS
<1>8. ASSUME NEW t \in C, t # r PROVE Precedes(r, t)
  <2>1. t.id[1] \in Nat /\ x \in Nat /\ x <= t.id[1] /\ r.id[1] = x
    BY <1>1, <1>2, <1>7
  <2>2. CASE t.id[1] = x
    <3>1. n - r.id[2] <= n - t.id[2] /\ r.id[2] \in 0..n /\ t.id[2] \in 0..n
      BY <1>4, <1>6, <1>7, <2>2
    <3>2. r.id[2] # t.id[2]
      <4>1. SUFFICES ASSUME r.id[2] = t.id[2] PROVE FALSE
        OBVIOUS
      <4>2. r.id = <<r.id[1], r.id[2]>> /\ t.id = <<t.id[1], t.id[2]>>
        BY <1>7 DEF Numbered, Stamped
      <4>3. r.id = t.id
        BY <2>1, <2>2, <4>1, <4>2
      <4> QED BY <1>7, <1>8, <4>3 DEF Numbered
    <3>3. r.id[2] > t.id[2]
      BY <3>1, <3>2
    <3> QED BY <2>1, <2>2, <3>3 DEF Precedes
  <2>3. CASE t.id[1] # x
    BY <2>1, <2>3 DEF Precedes
  <2> QED BY <2>2, <2>3
<1>9. r \in C
  BY <1>7
<1> QED BY <1>8, <1>9

(* The text of a key and the function around it say what is one entry: one  *)
(* value, or values without a key expression that share a name.             *)
LEMMA SameEntryIsMeant ==
  ASSUME NEW s, NEW t, Scoped(s), Scoped(t), ~s.meant.hidden, ~t.meant.hidden,
         s.key \in Bound, s.key # NoKey, s.function = s.at.fn, t.function = t.at.fn
  PROVE  SameEntry(s, t) <=> SameValue(s, t) \/ SameName(s, t)
<1>1. s.key \in Ident \/ s.key \in KeyValue
  BY DEF Bound, KeyExpr
<1>2. s.key \in LocalKeys <=> s.key \in Ident
  BY <1>1, KeysOfLocals
<1>3. s.key = s.meant.text /\ t.key = t.meant.text
  BY DEF Scoped
<1>4. s.meant.text = t.meant.text /\ s.meant.text \notin Ident => s.meant = t.meant
  BY DEF Scoped, Plain
<1> QED BY <1>2, <1>3, <1>4 DEF SameEntry, SameValue, SameName

LEMMA ReportedTier ==
  ASSUME NEW m, NEW s
  PROVE  (\E f \in StorageTierConfusion(m) : f.id = s.id) <=>
           \E r \in Keyed(m) :
             /\ r.id = s.id
             /\ \E t \in Keyed(m) : SameEntry(r, t) /\ t.what.tier # r.what.tier
             /\ \A t \in Keyed(m) : SameEntry(r, t) /\ t # r => Precedes(r, t)
<1> DEFINE S == {r \in Keyed(m) :
                   /\ \E t \in Keyed(m) : SameEntry(r, t) /\ t.what.tier # r.what.tier
                   /\ \A t \in Keyed(m) : SameEntry(r, t) /\ t # r => Precedes(r, t)}
<1>1. StorageTierConfusion(m) = {Finding("SSDK002", r, r.function, "High") : r \in S}
  BY DEF StorageTierConfusion, AtSites
<1>2. \A r : Finding("SSDK002", r, r.function, "High").id = r.id
  BY DEF Finding
<1>3. (\E f \in StorageTierConfusion(m) : f.id = s.id) <=> \E r \in S : r.id = s.id
  BY <1>1, <1>2
<1> QED BY <1>3

LEMMA TierConfusionIsExact ==
  ASSUME RecordedInv, ScopedInv, KeysTypedInv, model.built,
         \A s \in sites : ~s.meant.hidden /\ ~s.at.cut
  PROVE  LET reported == {s \in sites : \E f \in StorageTierConfusion(Built) : f.id = s.id}
         IN /\ \A s \in Clashing(SameValue) :
                 \E r \in reported : SameValue(r, s) \/ SameName(r, s)
            /\ \A r \in reported : r.vec = "storage_ops" =>
                 r \in Clashing(SameValue) \cup Clashing(SameName)
<1> DEFINE K == Keyed(Built)
           reported == {s \in sites : \E f \in StorageTierConfusion(Built) : f.id = s.id}
           values == Clashing(SameValue)
           names == Clashing(SameName)
<1>1. \A s : s \in K <=> s \in sites /\ s.vec = "storage_ops" /\ s.key # NoKey
  BY DEF Keyed, Vec, Built
<1>2. \A s \in K : /\ Scoped(s) /\ ~s.meant.hidden
                   /\ s.key \in Bound /\ s.key # NoKey /\ s.function = s.at.fn
  BY <1>1 DEF ScopedInv, KeysTypedInv, KeyTyped, RecordedInv, SitesInv, Attributed
<1>3. \A s, t \in K : SameEntry(s, t) <=> SameValue(s, t) \/ SameName(s, t)
  BY <1>2, SameEntryIsMeant
<1>4. Numbered(sites, clock)
  BY DEF RecordedInv, IdsInv, Ids
<1>5. \A s : s \in reported <=>
        /\ s \in sites
        /\ \E r \in K : /\ r.id = s.id
                        /\ \E t \in K : SameEntry(r, t) /\ t.what.tier # r.what.tier
                        /\ \A t \in K : SameEntry(r, t) /\ t # r => Precedes(r, t)
  BY ReportedTier
<1>6. /\ \A s : s \in values <=>
             s \in K /\ \E t \in K : SameValue(s, t) /\ s.what.tier # t.what.tier
      /\ \A s : s \in names <=>
             s \in K /\ \E t \in K : SameName(s, t) /\ s.what.tier # t.what.tier
  BY DEF Clashing
<1> HIDE DEF K, reported, values, names
<1>7. ASSUME NEW s \in values PROVE \E r \in reported : SameValue(r, s) \/ SameName(r, s)
  <2>1. PICK u \in K : SameValue(s, u) /\ s.what.tier # u.what.tier
    BY <1>6, <1>7
  <2>2. s \in K /\ SameEntry(s, u)
    BY <1>3, <1>6, <1>7, <2>1
  <2> DEFINE C == {t \in K : SameEntry(s, t)}
  <2>3. C \in SUBSET sites /\ s \in C /\ u \in C /\ \A x, y \in C : x.vec = y.vec
    BY <1>1, <2>1, <2>2 DEF SameEntry
  <2>4. PICK r \in C : \A t \in C : t # r => Precedes(r, t)
    BY <1>4, <2>3, FirstOperation
  <2>5. \A t \in K : SameEntry(r, t) <=> t \in C
    BY <2>4 DEF SameEntry
  <2>6. r \in K /\ \E t \in K : SameEntry(r, t) /\ t.what.tier # r.what.tier
    BY <2>1, <2>2, <2>3, <2>4, <2>5
  <2>7. \A t \in K : SameEntry(r, t) /\ t # r => Precedes(r, t)
    BY <2>4, <2>5
  <2>8. r \in reported
    BY <1>1, <1>5, <2>6, <2>7
  <2>9. SameEntry(r, s)
    BY <2>2, <2>3, <2>5
  <2> QED BY <1>3, <2>2, <2>6, <2>8, <2>9
<1>8. ASSUME NEW s \in reported, s.vec = "storage_ops" PROVE s \in values \cup names
  <2>1. PICK r \in K : r.id = s.id /\ \E t \in K : SameEntry(r, t) /\ t.what.tier # r.what.tier
    BY <1>5, <1>8
  <2>2. s = r
    BY <1>1, <1>4, <1>5, <1>8, <2>1 DEF Numbered
  <2> QED BY <1>3, <1>6, <2>1, <2>2
<1> QED BY <1>7, <1>8 DEF reported, values, names

(* SSDK002 reports each key expression, and each value without one, that is *)
(* reached through two tiers, and otherwise only a local name that stands   *)
(* for several values of one function: the text keys_by_meaning groups by   *)
(* and the function it adds for locals keep apart everything else that      *)
(* resolve_key saw, for lets and trees of any shape.  Left out are a name   *)
(* bound where the builder does not look and code after a nested function.  *)
THEOREM TierConfusionIsFound == Spec => []TierConfusionExact
<1> DEFINE Inv == RecordedInv /\ ScopedInv /\ BoundInv /\ KeysTypedInv
<1>1. Init => Inv
  <2>1. Init => ScopedInv /\ BoundInv /\ KeysTypedInv
    <3>1. Len(<< >>) = 0
      BY EmptyList
    <3> QED BY <3>1 DEF Init, ScopedInv, BoundInv, KeysTypedInv
  <2> QED BY <2>1, RecordedInvInit
<1>2. Inv /\ [Next]_vars => Inv'
  BY RecordedInvNext, ScopedNext, BoundNext, KeysTypedNext DEF RecordedInv
<1>3. Inv => TierConfusionExact
  BY TierConfusionIsExact DEF TierConfusionExact
<1> QED BY <1>1, <1>2, <1>3, PTL DEF Spec

--------------------------------------------------------------------------
(* What a function reaches in a finite graph is the least set that holds it *)
(* and is closed under the edges.                                           *)
Spread(G, S) == S \cup {e[2] : e \in {x \in G : x[1] \in S}}
ReachedBy(G, f, i, before) == IF i = 0 THEN {f} ELSE Spread(G, before)
Rounds(G, f, from) ==
  from[0] = {f} /\ \A i \in 1..Cardinality(G) : from[i] = Spread(G, from[i - 1])

ClosedUnder(G, S) == \A e \in G : e[1] \in S => e[2] \in S

LEMMA SpreadHas ==
  ASSUME NEW G, NEW S, NEW y
  PROVE  y \in Spread(G, S) <=> y \in S \/ \E e \in G : e[1] \in S /\ y = e[2]
BY DEF Spread

LEMMA ReachableEquation ==
  ASSUME NEW m, NEW f, Cardinality(m.call_graph) \in Nat
  PROVE  \E from : /\ Reachable(m, f) = from[Cardinality(m.call_graph)]
                   /\ Rounds(m.call_graph, f, from)
<1> DEFINE G == m.call_graph
           N == Cardinality(G)
           Walks(g, k) == g = [i \in 0..k |-> ReachedBy(G, f, i, g[i - 1])]
           T == {k \in 0..N : ~\E g : Walks(g, k)}
<1>1. T = {}
  <2> SUFFICES ASSUME T # {} PROVE FALSE
    OBVIOUS
  <2> HIDE DEF Walks
  <2>1. T \in SUBSET Nat
    OBVIOUS
  <2>2. PICK k \in T : \A j \in T : k <= j
    <3> HIDE DEF T
    <3> QED BY <2>1, LeastElement
  <2> USE DEF Walks
  <2>3. CASE k = 0
    <3>1. Walks([i \in 0..0 |-> {f}], 0)
      BY DEF ReachedBy
    <3> QED BY <2>3, <3>1
  <2>4. CASE k # 0
    <3>1. k - 1 \in 0..N /\ k - 1 \notin T
      BY <2>2, <2>4
    <3>2. PICK g : Walks(g, k - 1)
      BY <3>1
    <3> DEFINE h == [i \in 0..k |-> IF i = k THEN ReachedBy(G, f, k, g[k - 1]) ELSE g[i]]
    <3>3. ASSUME NEW i \in 0..k PROVE h[i] = ReachedBy(G, f, i, h[i - 1])
      <4>1. CASE i = k
        BY <4>1, <2>4
      <4>2. CASE i # k /\ i # 0
        <5>1. i \in 0..(k - 1) /\ i - 1 \in 0..k /\ i - 1 # k
          BY <4>2
        <5>2. g[i] = ReachedBy(G, f, i, g[i - 1])
          BY <3>2, <5>1
        <5>3. h[i] = g[i] /\ h[i - 1] = g[i - 1]
          BY <5>1, <4>2
        <5> QED BY <5>2, <5>3
      <4>3. CASE i # k /\ i = 0
        <5>1. 0 \in 0..(k - 1)
          BY <2>4
        <5>2. g[0] = ReachedBy(G, f, 0, g[0 - 1])
          BY <3>2, <5>1
        <5>3. h[0] = g[0]
          BY <2>4
        <5> QED BY <4>3, <5>2, <5>3 DEF ReachedBy
      <4> QED BY <4>1, <4>2, <4>3
    <3>4. Walks(h, k)
      BY <3>3
    <3> QED BY <3>4
  <2> QED BY <2>3, <2>4
<1>2. \E g : Walks(g, N)
  BY <1>1
<1> DEFINE from == CHOOSE g : Walks(g, N)
<1>3. Walks(from, N)
  BY <1>2
<1>4. Reachable(m, f) = from[N]
  BY DEF Reachable, ReachedBy, Spread
<1> HIDE DEF from
<1>5. from[0] = {f}
  BY <1>3 DEF ReachedBy
<1>6. ASSUME NEW i \in 1..N PROVE from[i] = Spread(G, from[i - 1])
  <2>1. i \in 0..N /\ i # 0
    OBVIOUS
  <2>2. from[i] = ReachedBy(G, f, i, from[i - 1])
    BY <2>1, <1>3
  <2> QED BY <2>1, <2>2 DEF ReachedBy
<1>7. Rounds(G, f, from)
  BY <1>5, <1>6 DEF Rounds
<1> QED BY <1>4, <1>7

(* The walk is long enough: while what is reached is not closed, each round *)
(* finds the caller of an edge that no round before it found.               *)
LEMMA ReachedIsClosed ==
  ASSUME NEW G, IsFiniteSet(G), NEW from, NEW f, Rounds(G, f, from)
  PROVE  ClosedUnder(G, from[Cardinality(G)])
<1> DEFINE N == Cardinality(G)
           Found(i) == {e \in G : e[1] \in from[i]}
<1>1. N \in Nat
  BY FS_CardinalityType
<1>0. \A i \in 1..N : from[i] = Spread(G, from[i - 1])
  BY DEF Rounds
<1>2. \A i \in 0..N : IsFiniteSet(Found(i)) /\ Cardinality(Found(i)) \in Nat /\ Cardinality(Found(i)) <= N
  <2> TAKE i \in 0..N
  <2>1. Found(i) \subseteq G
    OBVIOUS
  <2> HIDE DEF Found
  <2> QED BY <2>1, FS_Subset, FS_CardinalityType
<1>3. ASSUME NEW i \in 1..N, ClosedUnder(G, from[i - 1]) PROVE ClosedUnder(G, from[i])
  <2>1. from[i] = Spread(G, from[i - 1])
    BY <1>0
  <2>2. \A y : y \in from[i] <=> y \in from[i - 1]
    BY <1>3, <2>1, SpreadHas DEF ClosedUnder
  <2> QED BY <1>3, <2>2 DEF ClosedUnder
<1>4. SUFFICES ASSUME ~ClosedUnder(G, from[N]) PROVE FALSE
  OBVIOUS
<1>5. \A i \in 0..N : ~ClosedUnder(G, from[i])
  <2> DEFINE T == {d \in 0..N : ClosedUnder(G, from[N - d])}
  <2>1. SUFFICES ASSUME T # {} PROVE FALSE
    <3>1. ASSUME NEW i \in 0..N, ClosedUnder(G, from[i]) PROVE FALSE
      <4>1. N - i \in 0..N /\ N - (N - i) = i
        BY <1>1
      <4>2. N - i \in T
        BY <3>1, <4>1
      <4> QED BY <2>1, <4>2
    <3> QED BY <3>1
  <2>2. T \in SUBSET Nat
    OBVIOUS
  <2>3. PICK d \in T : \A j \in T : d <= j
    <3> HIDE DEF T
    <3> QED BY <2>1, <2>2, LeastElement
  <2>4. d # 0
    BY <1>1, <1>4, <2>3
  <2>5. d - 1 \in 0..N /\ N - (d - 1) \in 1..N /\ (N - (d - 1)) - 1 = N - d
    BY <1>1, <2>3, <2>4
  <2>6. ClosedUnder(G, from[N - (d - 1)])
    BY <1>3, <2>3, <2>5
  <2>7. d - 1 \in T
    BY <2>5, <2>6
  <2> QED BY <2>3, <2>7
<1>6. ASSUME NEW i \in 1..N PROVE Cardinality(Found(i - 1)) < Cardinality(Found(i))
  <2>1. i - 1 \in 0..N /\ i \in 0..N
    BY <1>1
  <2>2. PICK e \in G : e[1] \in from[i] /\ e[2] \notin from[i]
    BY <1>5, <2>1 DEF ClosedUnder
  <2>3. from[i] = Spread(G, from[i - 1])
    BY <1>0
  <2>4. e[1] \notin from[i - 1]
    BY <2>2, <2>3, SpreadHas
  <2>5. Found(i - 1) \subseteq Found(i)
    BY <2>3, SpreadHas
  <2>6. e \in Found(i) /\ e \notin Found(i - 1)
    BY <2>2, <2>4
  <2> DEFINE A == Found(i - 1)
             B == Found(i)
  <2>7. IsFiniteSet(B) /\ Cardinality(A) \in Nat /\ Cardinality(B) \in Nat
    BY <1>2, <2>1
  <2>8. A \subseteq B /\ A # B
    BY <2>5, <2>6
  <2> HIDE DEF A, B
  <2>9. Cardinality(A) <= Cardinality(B) /\ Cardinality(A) # Cardinality(B)
    BY <2>7, <2>8, FS_Subset
  <2> QED BY <2>7, <2>9 DEF A, B
<1>7. \A i \in 0..N : i < Cardinality(Found(i))
  <2> DEFINE T == {i \in 0..N : ~(i < Cardinality(Found(i)))}
  <2>1. SUFFICES ASSUME T # {} PROVE FALSE
    OBVIOUS
  <2>2. T \in SUBSET Nat
    OBVIOUS
  <2>3. PICK i \in T : \A j \in T : i <= j
    <3> HIDE DEF T
    <3> QED BY <2>1, <2>2, LeastElement
  <2> HIDE DEF Found
  <2>4. CASE i = 0
    <3>1. 0 \in 0..N
      BY <1>1
    <3>2. PICK e \in G : e[1] \in from[0] /\ e[2] \notin from[0]
      BY <1>5, <3>1 DEF ClosedUnder
    <3>3. Found(0) # {}
      BY <3>2 DEF Found
    <3>4. IsFiniteSet(Found(0)) /\ Cardinality(Found(0)) \in Nat
      BY <1>2, <3>1
    <3>5. Cardinality(Found(0)) # 0
      BY <3>3, <3>4, FS_EmptySet
    <3> QED BY <2>3, <2>4, <3>4, <3>5
  <2>5. CASE i # 0
    <3>1. i - 1 \in 0..N /\ i \in 1..N /\ i \in 0..N /\ i - 1 \notin T
      BY <1>1, <2>3, <2>5
    <3>2. i - 1 < Cardinality(Found(i - 1)) /\ Cardinality(Found(i - 1)) < Cardinality(Found(i))
      BY <1>6, <3>1
    <3>3. Cardinality(Found(i - 1)) \in Nat /\ Cardinality(Found(i)) \in Nat
      BY <1>2, <3>1
    <3> QED BY <2>3, <3>1, <3>2, <3>3
  <2> QED BY <2>4, <2>5
<1>8. N \in 0..N
  BY <1>1
<1> HIDE DEF Found, N
<1> QED BY <1>1, <1>2, <1>7, <1>8

LEMMA ReachableIsLeast ==
  ASSUME NEW m, NEW f, IsFiniteSet(m.call_graph)
  PROVE  /\ f \in Reachable(m, f)
         /\ ClosedUnder(m.call_graph, Reachable(m, f))
         /\ \A S : f \in S /\ ClosedUnder(m.call_graph, S) => Reachable(m, f) \subseteq S
<1> DEFINE G == m.call_graph
           N == Cardinality(G)
<1>1. N \in Nat /\ IsFiniteSet(G)
  BY FS_CardinalityType
<1>a. PICK from : Reachable(m, f) = from[N] /\ Rounds(G, f, from)
  BY <1>1, ReachableEquation
<1> HIDE DEF G
<1>3. ClosedUnder(G, from[N])
  BY <1>1, <1>a, ReachedIsClosed
<1>2. from[0] = {f} /\ \A i \in 1..N : from[i] = Spread(G, from[i - 1])
  BY <1>a DEF Rounds
<1> HIDE DEF N
<1>4. \A i \in 0..N : f \in from[i]
  <2> DEFINE T == {i \in 0..N : f \notin from[i]}
  <2>1. SUFFICES ASSUME T # {} PROVE FALSE
    OBVIOUS
  <2>2. T \in SUBSET Nat
    OBVIOUS
  <2>3. PICK i \in T : \A j \in T : i <= j
    <3> HIDE DEF T
    <3> QED BY <2>1, <2>2, LeastElement
  <2>4. i # 0
    BY <1>2, <2>3
  <2>5. i - 1 \in 0..N /\ i \in 1..N /\ i - 1 \notin T
    BY <1>1, <2>3, <2>4
  <2>6. f \in from[i - 1] /\ from[i] = Spread(G, from[i - 1])
    BY <1>2, <2>5
  <2> QED BY <2>3, <2>6, SpreadHas
<1>5. ASSUME NEW S, f \in S, ClosedUnder(G, S) PROVE \A i \in 0..N : from[i] \subseteq S
  <2> DEFINE T == {i \in 0..N : ~(from[i] \subseteq S)}
  <2>1. SUFFICES ASSUME T # {} PROVE FALSE
    OBVIOUS
  <2>2. T \in SUBSET Nat
    OBVIOUS
  <2>3. PICK i \in T : \A j \in T : i <= j
    <3> HIDE DEF T
    <3> QED BY <2>1, <2>2, LeastElement
  <2>4. i # 0
    BY <1>2, <1>5, <2>3
  <2>5. i - 1 \in 0..N /\ i \in 1..N /\ i - 1 \notin T
    BY <1>1, <2>3, <2>4
  <2>6. from[i - 1] \subseteq S /\ from[i] = Spread(G, from[i - 1])
    BY <1>2, <2>5
  <2>7. from[i] \subseteq S
    BY <1>5, <2>6, SpreadHas DEF ClosedUnder
  <2> QED BY <2>3, <2>7
<1>6. N \in 0..N
  BY <1>1
<1> QED BY <1>a, <1>3, <1>4, <1>5, <1>6 DEF G

--------------------------------------------------------------------------
(* The graph of the finished model holds the calls that were seen.          *)
NamesInv ==
  /\ IsFiniteSet(call_graph) /\ defined_functions \subseteq Name
  /\ \A e \in entrypoints : e.name \in Name

LEMMA NamesNext == ContextInv /\ NamesInv /\ [Next]_vars => NamesInv'
<1> SUFFICES ASSUME ContextInv, NamesInv, [Next]_vars PROVE NamesInv'
  OBVIOUS
<1>0. vocabulary.names \subseteq Name
  BY VocabulariesAssumption DEF ContextInv
<1>1. IsFiniteSet(call_graph')
  <2>1. CASE \E n \in vocabulary.names, m \in BOOLEAN : VisitCall(n, m)
    <3>1. PICK n \in vocabulary.names, m \in BOOLEAN : VisitCall(n, m)
      BY <2>1
    <3> DEFINE e == <<function.name, n>>
    <3>2. call_graph' = call_graph \/ call_graph' = call_graph \cup {e}
      BY <3>1 DEF VisitCall, Edge
    <3> HIDE DEF e
    <3> QED BY <3>2, FS_AddElement DEF NamesInv
  <2>2. CASE call_graph' = call_graph
    BY <2>2 DEF NamesInv
  <2>3. CASE Items
    BY <2>2, <2>3 DEF Items, BeginFile, OpenMod, DeclareContract, OpenImpl, CloseMod,
         CloseImpl, CloseFn, OpenFn, OpenMethod, vectors
  <2>4. CASE Statements
    BY <2>1, <2>2, <2>4 DEF Statements, OpenBlock, Let, BindPattern, VisitChain, VisitExpr, OpenGuard,
         OpenLoop, CloseBlock, CloseGuard, StartBody, CloseLoop, vectors
  <2>5. CASE Finish \/ UNCHANGED vars
    BY <2>2, <2>5 DEF Finish, vars, vectors
  <2> QED BY <2>3, <2>4, <2>5 DEF Next
<1>2. defined_functions' \subseteq Name
  <2>1. CASE \E n \in vocabulary.names : defined_functions' = defined_functions \cup {n}
    BY <1>0, <2>1 DEF NamesInv
  <2>2. CASE defined_functions' = defined_functions
    BY <2>2 DEF NamesInv
  <2>3. CASE Items
    BY <2>1, <2>2, <2>3 DEF Items, BeginFile, OpenMod, DeclareContract, OpenImpl, CloseMod,
         CloseImpl, CloseFn, OpenFn, OpenMethod, vectors
  <2>4. CASE Statements
    BY <2>2, <2>4 DEF Statements, OpenBlock, Let, BindPattern, VisitChain, VisitExpr, VisitCall, OpenGuard,
         OpenLoop, CloseBlock, CloseGuard, StartBody, CloseLoop, vectors
  <2>5. CASE Finish \/ UNCHANGED vars
    BY <2>2, <2>5 DEF Finish, vars, vectors
  <2> QED BY <2>3, <2>4, <2>5 DEF Next
<1>3. \A e \in entrypoints' : e.name \in Name
  <2>1. CASE \E n \in vocabulary.names, p, r, t, a \in BOOLEAN : OpenMethod(n, p, r, t, a)
    <3>1. PICK n \in vocabulary.names, p \in BOOLEAN, r \in BOOLEAN, t \in BOOLEAN,
               a \in BOOLEAN : OpenMethod(n, p, r, t, a)
      BY <2>1
    <3> DEFINE e == [name |-> n, contract |-> impl_ctx.contract, id |-> <<clock, 0>>,
                     at |-> Place(Append(open, FnFrame(n, t)))]
    <3>2. entrypoints' \subseteq entrypoints \cup {e}
      BY <3>1 DEF OpenMethod
    <3>3. e.name = n
      OBVIOUS
    <3> HIDE DEF e
    <3> QED BY <1>0, <3>2, <3>3 DEF NamesInv
  <2>2. CASE entrypoints' = entrypoints
    BY <2>2 DEF NamesInv
  <2> QED BY <2>1, <2>2, EntriesChange
<1> QED BY <1>1, <1>2, <1>3 DEF NamesInv

(* Everything that is known of the calls.                                   *)
CalledInv ==
  /\ RecordedInv /\ EnteredInv /\ CallsInv /\ EdgesInv /\ EntriesListed /\ NamesInv

LEMMA CalledInvInit == Init => CalledInv
<1> SUFFICES ASSUME Init PROVE CalledInv
  OBVIOUS
<1>1. EnteredInv
  <2>1. open = << >> /\ impl_ctx = NoImpl
    BY DEF Init
  <2> QED BY <2>1, EnteredEmpty DEF EnteredInv
<1>2. CallsInv /\ EdgesInv /\ EntriesListed
  BY DEF Init, CallsInv, EdgesInv, EntriesListed
<1>3. NamesInv
  BY FS_EmptySet DEF Init, NamesInv
<1> QED BY <1>1, <1>2, <1>3, RecordedInvInit DEF CalledInv

LEMMA CalledInvNext == CalledInv /\ [Next]_vars => CalledInv'
BY RecordedInvNext, EnteredNext, CallsNext, EdgesNext, EntriesListedNext, NamesNext
   DEF CalledInv, RecordedInv

LEMMA GraphIsTrue ==
  ASSUME CalledInv, model.built
  PROVE  Built.call_graph = TrueCalls
<1>1. Built.call_graph = {e \in call_graph : e[2] \in defined_functions}
  BY DEF Built, ModelInv, CalledInv, RecordedInv
<1>2. \A e : e \in TrueCalls <=>
         \E u \in uttered : /\ ~Uncounted(u) /\ ~u.at.cut /\ u.callee \in defined_functions
                            /\ e = <<u.at.fn, u.callee>>
  BY DEF TrueCalls
<1>3. ASSUME NEW e \in call_graph, e[2] \in defined_functions PROVE e \in TrueCalls
  <2>1. PICK u \in uttered : e = <<u.at.fn, u.callee>> /\ Silent(u) /\ ~u.at.cut
    BY DEF CalledInv, EdgesInv
  <2>2. u.callee \in defined_functions
    BY <1>3, <2>1
  <2> QED BY <1>2, <2>1, <2>2, SilentIsCounted
<1>4. ASSUME NEW e \in TrueCalls PROVE e \in call_graph /\ e[2] \in defined_functions
  <2>1. PICK u \in uttered : /\ ~Uncounted(u) /\ ~u.at.cut /\ u.callee \in defined_functions
                             /\ e = <<u.at.fn, u.callee>>
    BY <1>2
  <2>2. ~Unseen(u)
    BY <2>1 DEF Unseen, Uncounted
  <2>3. <<u.at.fn, u.callee>> \in call_graph
    BY <2>2 DEF CalledInv, CallsInv
  <2> QED BY <2>1, <2>3
<1> QED BY <1>1, <1>3, <1>4

LEMMA ReachableIsRuns ==
  ASSUME CalledInv, model.built, NEW f \in Name
  PROVE  Runs(f) = Reachable(Built, f)
<1> DEFINE M == Built
           R == Reachable(M, f)
<1>1. M.call_graph = TrueCalls
  BY GraphIsTrue
<1>2. IsFiniteSet(M.call_graph)
  <2>1. M.call_graph \subseteq call_graph
    BY DEF Built, ModelInv, CalledInv, RecordedInv
  <2> HIDE DEF M
  <2> QED BY <2>1, FS_Subset DEF CalledInv, NamesInv
<1>a. \A c \in TrueCalls : c[2] \in Name
  BY DEF TrueCalls, CalledInv, NamesInv
<1> HIDE DEF M
<1>3. /\ f \in R /\ ClosedUnder(TrueCalls, R)
      /\ \A S : f \in S /\ ClosedUnder(TrueCalls, S) => R \subseteq S
  BY <1>1, <1>2, ReachableIsLeast
<1> HIDE DEF R
<1>4. R \subseteq Name
  BY <1>3, <1>a DEF ClosedUnder
<1>5. \A g : g \in Runs(f) <=>
         g \in Name /\ \A S \in SUBSET Name : f \in S /\ ClosedUnder(TrueCalls, S) => g \in S
  BY DEF Runs, ClosedUnder
<1>6. ASSUME NEW g \in Runs(f) PROVE g \in R
  BY <1>3, <1>4, <1>5
<1>7. ASSUME NEW g \in R PROVE g \in Runs(f)
  BY <1>3, <1>4, <1>5
<1>8. Runs(f) = R
  BY <1>6, <1>7
<1> QED BY <1>8 DEF R, M

(* What the detector asks of the sites is asked of what the function runs.  *)
LEMMA AskedOfWhatRuns ==
  ASSUME CalledInv, model.built, Intact, NEW f \in Name
  PROVE  /\ WritesState(Built, f) <=>
              \E s \in RunsInside(f) : s.vec = "storage_ops" /\ Mutates(s)
         /\ HasTransitiveAuth(Built, f) <=>
              \E s \in RunsInside(f) : s.vec = "auth_checks" /\ EstablishesAuthorization(s)
<1> DEFINE M == Built
<1>1. Reachable(M, f) = Runs(f)
  BY ReachableIsRuns
<1>2. \A s \in sites : s.function = s.at.fn
  BY DEF CalledInv, RecordedInv, SitesInv, Attributed, Intact
<1>3. M.sites = sites
  BY DEF Built
<1> HIDE DEF M
<1>4. \A vec, g, s : s \in In(M, vec, g) <=> s \in sites /\ s.vec = vec /\ s.at.fn = g
  BY <1>2, <1>3 DEF In, Vec
<1>5. \A s : s \in RunsInside(f) <=> s \in sites /\ s.at.fn \in Runs(f)
  BY DEF RunsInside
<1>6. WritesState(M, f) <=> \E g \in Runs(f) : \E s \in In(M, "storage_ops", g) : Mutates(s)
  BY <1>1 DEF WritesState, HasTransitive
<1>7. HasTransitiveAuth(M, f) <=>
        \E g \in Runs(f) : \E s \in In(M, "auth_checks", g) : EstablishesAuthorization(s)
  BY <1>1 DEF HasTransitiveAuth, HasTransitive
<1>8. WritesState(M, f) <=> \E s \in RunsInside(f) : s.vec = "storage_ops" /\ Mutates(s)
  BY <1>4, <1>5, <1>6
<1>9. HasTransitiveAuth(M, f) <=>
        \E s \in RunsInside(f) : s.vec = "auth_checks" /\ EstablishesAuthorization(s)
  BY <1>4, <1>5, <1>7
<1> QED BY <1>8, <1>9 DEF M

LEMMA MissingAuthIsExact ==
  ASSUME CalledInv, model.built, Intact, NEW e \in entrypoints, e.contract # NoName
  PROVE  (\E f \in MissingRequireAuth(Built) : f.id = e.id)
           <=> /\ e.name \notin {constructor, check_auth}
               /\ \E s \in RunsInside(e.name) : s.vec = "storage_ops" /\ Mutates(s)
               /\ ~\E s \in RunsInside(e.name) :
                     s.vec = "auth_checks" /\ EstablishesAuthorization(s)
<1> DEFINE M == Built
           Bare(x) == /\ x.name \notin {constructor, check_auth}
                      /\ WritesState(M, x.name) /\ ~HasTransitiveAuth(M, x.name)
           S == {x \in Entrypoints(M) : Bare(x)}
<1>1. MissingRequireAuth(M) = {Finding("SSDK001", x, x.name, "High") : x \in S}
  BY DEF MissingRequireAuth, AtEntrypoints
<1>2. \A x : Finding("SSDK001", x, x.name, "High").id = x.id
  BY DEF Finding
<1>3. (\E f \in MissingRequireAuth(M) : f.id = e.id) <=> \E x \in S : x.id = e.id
  BY <1>1, <1>2
<1>4. Entrypoints(M) \subseteq entrypoints /\ e \in Entrypoints(M)
  <2>1. e.contract \in impl_contracts
    BY DEF CalledInv, EntriesListed
  <2> QED BY <2>1, ListedEntries DEF CalledInv, RecordedInv
<1>5. \A x \in entrypoints : x.id = e.id => x = e
  BY DEF CalledInv, RecordedInv, IdsInv, Ids
<1> HIDE DEF Bare
<1>6. (\E x \in S : x.id = e.id) <=> Bare(e)
  BY <1>4, <1>5
<1>7. e.name \in Name
  BY DEF CalledInv, NamesInv
<1>8. Bare(e) <=> /\ e.name \notin {constructor, check_auth}
                  /\ \E s \in RunsInside(e.name) : s.vec = "storage_ops" /\ Mutates(s)
                  /\ ~\E s \in RunsInside(e.name) :
                        s.vec = "auth_checks" /\ EstablishesAuthorization(s)
  BY <1>7, AskedOfWhatRuns DEF Bare
<1> QED BY <1>3, <1>6, <1>8

(* Where no function goes on after one nested in it, SSDK001 is reported    *)
(* for an exported method exactly when a storage write and no authorization *)
(* stands in the functions that run from it, whatever the order the files   *)
(* were visited in: the edges finish keeps lead reachable_functions to all  *)
(* of them.                                                                 *)
THEOREM MissingAuthIsFound == Spec => []MissingAuthExact
<1>1. CalledInv => MissingAuthExact
  BY MissingAuthIsExact DEF MissingAuthExact
<1> QED BY <1>1, CalledInvInit, CalledInvNext, PTL DEF Spec

--------------------------------------------------------------------------
(* The walk of has_transitive over the finished call graph (CallGraph).     *)
(* What popping and pushing do to the set of queued names.                  *)
LEMMA PopSet ==
  ASSUME NEW S, NEW s \in Seq(S), s # << >>
  PROVE  /\ Front(s) \in Seq(S)
         /\ Last(s) \in S
         /\ Len(Front(s)) < Len(s)
         /\ ToSet(s) = ToSet(Front(s)) \cup {Last(s)}
<1>1. Len(s) \in Nat \ {0} /\ s \in [1..Len(s) -> S]
  BY DEF Last
<1>2. /\ Len(Front(s)) = Len(s) - 1
      /\ \A i \in 1..(Len(s) - 1) : Front(s)[i] = s[i]
      /\ Front(s) \in Seq(S)
  BY <1>1, SubSeqProperties DEF Front
<1>3. Last(s) = s[Len(s)] /\ Last(s) \in S
  BY <1>1 DEF Last
<1>4. ToSet(s) = ToSet(Front(s)) \cup {Last(s)}
  BY <1>1, <1>2, <1>3 DEF ToSet
<1> QED BY <1>1, <1>2, <1>3, <1>4

LEMMA PushSet ==
  ASSUME NEW S, NEW s \in Seq(S), NEW t \in Seq(S)
  PROVE  /\ s \o t \in Seq(S)
         /\ ToSet(s \o t) = ToSet(s) \cup ToSet(t)
<1>1. s \o t \in Seq(S)
  BY ConcatProperties
<1>2. \A u : ToSet(u) = Range(u)
  BY DEF ToSet, Range
<1>3. Range(s \o t) = Range(s) \cup Range(t)
  BY RangeConcatenation
<1> QED BY <1>1, <1>2, <1>3

LEMMA CalleesAreToSet ==
  ASSUME NEW f \in Function
  PROVE  Query!CalleeSet(graph, f) = ToSet(graph[f])
BY DEF Query!CalleeSet, ToSet

(* Every reachable state is of the type the variables are documented with.  *)
THEOREM WalkTypeCorrect == WalkSpec => []WalkTypeOK
<1>1. WalkInit => WalkTypeOK
  BY GraphsAssumption DEF WalkInit, WalkTypeOK
<1>2. WalkTypeOK /\ [WalkNext]_walk => WalkTypeOK'
  <2> SUFFICES ASSUME WalkTypeOK, [WalkNext]_walk PROVE WalkTypeOK'
    OBVIOUS
  <2>1. CASE SkipVisited
    <3>1. Front(stack) \in Seq(Function)
      BY <2>1, PopSet DEF WalkTypeOK, SkipVisited, Popping
    <3> QED BY <2>1, <3>1 DEF WalkTypeOK, SkipVisited
  <2>2. CASE ReturnYes
    <3>1. Front(stack) \in Seq(Function) /\ Current \in Function
      BY <2>2, PopSet DEF WalkTypeOK, ReturnYes, Popping, Current
    <3> QED BY <2>2, <3>1 DEF WalkTypeOK, ReturnYes
  <2>3. CASE Expand
    <3>1. Front(stack) \in Seq(Function) /\ Current \in Function
      BY <2>3, PopSet DEF WalkTypeOK, Expand, Popping, Current
    <3>2. graph[Current] \in Seq(Function)
      BY <3>1 DEF WalkTypeOK
    <3>3. Front(stack) \o graph[Current] \in Seq(Function)
      BY <3>1, <3>2, PushSet
    <3> QED BY <2>3, <3>1, <3>3 DEF WalkTypeOK, Expand
  <2>4. CASE ReturnNo
    BY <2>4 DEF WalkTypeOK, ReturnNo
  <2>5. CASE UNCHANGED walk
    BY <2>5 DEF WalkTypeOK, walk
  <2> QED BY <2>1, <2>2, <2>3, <2>4, <2>5 DEF WalkNext
<1> QED BY <1>1, <1>2, PTL DEF WalkSpec

(* The inductive strengthening: WalkInv is preserved once the types hold.   *)
LEMMA WalkInvInit == WalkInit => WalkInv
<1> SUFFICES ASSUME WalkInit PROVE WalkInv
  OBVIOUS
<1>1. ToSet(stack) = {root} /\ visited = {}
  BY DEF WalkInit, ToSet
<1> QED BY <1>1 DEF WalkInit, WalkInv, Pending

LEMMA WalkInvStep == WalkTypeOK /\ WalkInv /\ [WalkNext]_walk => WalkInv'
<1> SUFFICES ASSUME WalkTypeOK, WalkInv, [WalkNext]_walk PROVE WalkInv'
  OBVIOUS
<1>1. CASE SkipVisited
  <2>1. ToSet(stack) = ToSet(Front(stack)) \cup {Current}
    BY <1>1, PopSet DEF WalkTypeOK, SkipVisited, Popping, Current
  <2>2. Pending' = Pending
    BY <1>1, <2>1 DEF SkipVisited, Pending
  <2>3. UNCHANGED <<graph, holds, root, visited, verdict>> /\ verdict = "running"
    BY <1>1 DEF SkipVisited, Popping
  <2> QED BY <2>2, <2>3 DEF WalkInv, Query!Closed, Query!CalleeSet
<1>2. CASE ReturnYes
  <2>1. ToSet(stack) = ToSet(Front(stack)) \cup {Current}
    BY <1>2, PopSet DEF WalkTypeOK, ReturnYes, Popping, Current
  <2>2. Pending' = Pending
    BY <1>2, <2>1 DEF ReturnYes, Pending
  <2>3. /\ UNCHANGED <<graph, holds, root>>
        /\ visited' = visited \cup {Current}
        /\ Current \in holds
        /\ verdict' = "yes"
    BY <1>2 DEF ReturnYes
  <2>4. visited' \ holds' = visited \ holds /\ visited' \cap holds' # {}
    BY <2>3
  <2> QED BY <2>2, <2>3, <2>4 DEF WalkInv, Query!Closed, Query!CalleeSet
<1>3. CASE Expand
  <2>1. /\ ToSet(stack) = ToSet(Front(stack)) \cup {Current}
        /\ Front(stack) \in Seq(Function)
        /\ Current \in Function
        /\ graph[Current] \in Seq(Function)
    BY <1>3, PopSet DEF WalkTypeOK, Expand, Popping, Current
  <2>2. ToSet(stack') = ToSet(Front(stack)) \cup ToSet(graph[Current])
    BY <1>3, <2>1, PushSet DEF Expand
  <2>3. /\ UNCHANGED <<graph, holds, root, verdict>>
        /\ visited' = visited \cup {Current}
        /\ Current \notin holds
        /\ verdict = "running"
    BY <1>3 DEF Expand, Popping
  <2>4. Pending' = Pending \cup Query!CalleeSet(graph, Current)
    BY <2>1, <2>2, <2>3, CalleesAreToSet DEF Pending
  <2>5. Current \in Pending
    BY <2>1 DEF Pending
  <2>6. ASSUME NEW S \in SUBSET Function, root \in S, Query!Closed(graph, S)
        PROVE  Pending' \subseteq S
    <3>1. Pending \subseteq S
      BY <2>6 DEF WalkInv
    <3>2. Query!CalleeSet(graph, Current) \subseteq S
      BY <3>1, <2>5, <2>6 DEF Query!Closed
    <3> QED BY <3>1, <3>2, <2>4
  <2>7. \A f \in visited' \ holds : Query!CalleeSet(graph, f) \subseteq Pending'
    BY <2>3, <2>4 DEF WalkInv
  <2>8. visited' \cap holds = {}
    BY <2>3 DEF WalkInv
  <2> QED
    BY <2>3, <2>4, <2>6, <2>7, <2>8 DEF WalkInv, Query!Closed, Query!CalleeSet
<1>4. CASE ReturnNo
  BY <1>4 DEF WalkInv, ReturnNo, Pending, Query!Closed, Query!CalleeSet
<1>5. CASE UNCHANGED walk
  BY <1>5 DEF WalkInv, walk, Pending, Query!Closed, Query!CalleeSet
<1> QED BY <1>1, <1>2, <1>3, <1>4, <1>5 DEF WalkNext

THEOREM WalkInvariant == WalkSpec => []WalkInv
<1> QED BY WalkTypeCorrect, WalkInvInit, WalkInvStep, PTL DEF WalkSpec

(* What is pending lies in the closure of the call relation; when the stack *)
(* is empty and nothing visited satisfies the predicate, it is the closure. *)
LEMMA PendingInClosure ==
  ASSUME WalkTypeOK, WalkInv
  PROVE  Pending \subseteq Query!ReachableFrom(graph, root)
<1>1. Pending \subseteq Function
  BY RangeOfSeq DEF WalkTypeOK, Pending, ToSet, Range
<1> QED BY <1>1 DEF WalkInv, Query!ReachableFrom

LEMMA EmptyStackIsClosure ==
  ASSUME WalkTypeOK, WalkInv, stack = << >>, visited \cap holds = {}
  PROVE  visited = Query!ReachableFrom(graph, root)
<1>1. Pending = visited
  BY DEF Pending, ToSet
<1>2. root \in visited /\ Query!Closed(graph, visited)
  BY <1>1 DEF WalkInv, Query!Closed
<1>3. Query!ReachableFrom(graph, root) \subseteq visited
  BY <1>2 DEF WalkTypeOK, Query!ReachableFrom
<1> QED BY <1>1, <1>3, PendingInClosure

(* A verdict is about the closure of the call relation, for every contract: *)
(* has_transitive answers "yes" exactly when a reachable function satisfies *)
(* the predicate, and reachable_functions returns exactly the closure.      *)
THEOREM VerdictIsExact == WalkSpec => []VerdictExact
<1>1. WalkTypeOK /\ WalkInv => VerdictExact
  <2> SUFFICES ASSUME WalkTypeOK, WalkInv PROVE VerdictExact
    OBVIOUS
  <2>1. visited \subseteq Query!ReachableFrom(graph, root)
    BY PendingInClosure DEF Pending
  <2>2. ASSUME verdict = "yes"
        PROVE  Query!ReachableFrom(graph, root) \cap holds # {}
    BY <2>1, <2>2 DEF WalkInv
  <2>3. ASSUME verdict = "no"
        PROVE  /\ visited = Query!ReachableFrom(graph, root)
               /\ Query!ReachableFrom(graph, root) \cap holds = {}
    <3>1. stack = << >> /\ visited \cap holds = {}
      BY <2>3 DEF WalkInv
    <3> QED BY <3>1, EmptyStackIsClosure
  <2> QED BY <2>2, <2>3 DEF VerdictExact
<1> QED BY <1>1, WalkTypeCorrect, WalkInvariant, PTL

(* The termination argument of the loop: no step leaves both the visited    *)
(* set and the length of the stack as they were.                            *)
THEOREM WalkMakesProgress == WalkSpec => AlwaysProgress
<1>1. WalkTypeOK /\ [WalkNext]_walk => [StepProgress]_walk
  <2> SUFFICES ASSUME WalkTypeOK, WalkNext PROVE StepProgress
    OBVIOUS
  <2>1. CASE SkipVisited
    BY <2>1, PopSet DEF WalkTypeOK, SkipVisited, Popping, StepProgress
  <2>2. CASE ReturnYes
    BY <2>2 DEF ReturnYes, StepProgress
  <2>3. CASE Expand
    BY <2>3 DEF Expand, StepProgress
  <2>4. CASE ReturnNo
    BY <2>4 DEF ReturnNo, StepProgress
  <2> QED BY <2>1, <2>2, <2>3, <2>4 DEF WalkNext
<1> QED BY <1>1, WalkTypeCorrect, PTL DEF WalkSpec, AlwaysProgress

(* The walk implements the atomic query of TransitiveQuery.                 *)
THEOREM WalkRefinesQuery == WalkSpec => Refines
<1>1. WalkInit => Query!QueryInit
  BY GraphsAssumption DEF WalkInit, Query!QueryInit
<1>2. WalkTypeOK /\ WalkInv /\ WalkInv' /\ WalkTypeOK' /\ [WalkNext]_walk
        => [Query!Answer]_(Query!queryVars)
  <2> SUFFICES ASSUME WalkTypeOK, WalkInv, WalkInv', WalkTypeOK', [WalkNext]_walk
               PROVE  [Query!Answer]_(Query!queryVars)
    OBVIOUS
  <2>1. CASE SkipVisited
    BY <2>1 DEF SkipVisited, Query!queryVars
  <2>2. CASE ReturnYes
    <3>1. Current \in Query!ReachableFrom(graph, root)
      <4>1. Current \in Pending
        BY <2>2, PopSet DEF WalkTypeOK, ReturnYes, Popping, Current, Pending
      <4> QED BY <4>1, PendingInClosure
    <3>2. Query!Establishes(graph, root, holds)
      BY <2>2, <3>1 DEF ReturnYes, Query!Establishes
    <3> QED BY <2>2, <3>2 DEF ReturnYes, Popping, Query!Answer
  <2>3. CASE Expand
    BY <2>3 DEF Expand, Query!queryVars
  <2>4. CASE ReturnNo
    <3>1. ~ Query!Establishes(graph, root, holds)
      <4>1. stack = << >> /\ visited \cap holds = {}
        BY <2>4 DEF WalkInv, ReturnNo
      <4>2. visited = Query!ReachableFrom(graph, root)
        BY <4>1, EmptyStackIsClosure
      <4> QED BY <4>1, <4>2 DEF Query!Establishes
    <3> QED BY <2>4, <3>1 DEF ReturnNo, Query!Answer
  <2>5. CASE UNCHANGED walk
    BY <2>5 DEF walk, Query!queryVars
  <2> QED BY <2>1, <2>2, <2>3, <2>4, <2>5 DEF WalkNext
<1> QED
  BY <1>1, <1>2, WalkTypeCorrect, WalkInvariant, PTL
     DEF WalkSpec, Refines, Query!QuerySpec
=============================================================================
