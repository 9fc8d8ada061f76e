-------------------------- MODULE Budget_proofs ---------------------------
(***************************************************************************)
(* Proofs about the reader, the recursion search and the figures of        *)
(* Budget, for every module, every contract, every cost model and every    *)
(* width of the machine's integers.                                        *)
(***************************************************************************)
EXTENDS BudgetTruth, SequenceTheorems, FiniteSetTheorems, NaturalsInduction, TLAPS

(* What popping a sequence leaves.                                           *)
LEMMA FrontType ==
  ASSUME NEW S, NEW s \in Seq(S), s # << >>
  PROVE  /\ Front(s) \in Seq(S)
         /\ Len(Front(s)) = Len(s) - 1
         /\ \A k \in 1..(Len(s) - 1) : Front(s)[k] = s[k]
         /\ Last(s) \in S
         /\ Last(s) = s[Len(s)]
         /\ Len(s) \in Nat \ {0}
<1>1. Len(s) \in Nat \ {0} /\ s \in [1..Len(s) -> S]
  BY DEF Last
<1>2. /\ Len(Front(s)) = Len(s) - 1
      /\ \A i \in 1..(Len(s) - 1) : Front(s)[i] = s[i]
      /\ Front(s) \in Seq(S)
  BY <1>1, SubSeqProperties DEF Front
<1> QED BY <1>1, <1>2 DEF Last

LEMMA MaxOfTwo ==
  ASSUME NEW a \in Nat, NEW b \in Nat
  PROVE  Max({a, b}) \in Nat
<1>1. \E x \in {a, b} : \A y \in {a, b} : x >= y
  OBVIOUS
<1>2. Max({a, b}) \in {a, b}
  BY <1>1 DEF Max
<1> QED BY <1>2

LEMMA DepthType ==
  ASSUME NEW b \in Seq(BOOLEAN)
  PROVE  LoopDepth(b) \in Nat
<1>1. IsFiniteSet(1..Len(b))
  BY FS_Interval
<1>2. {i \in DOMAIN b : b[i]} \subseteq 1..Len(b)
  OBVIOUS
<1>3. IsFiniteSet({i \in DOMAIN b : b[i]})
  BY <1>1, <1>2, FS_Subset
<1> QED BY <1>3, FS_CardinalityType DEF LoopDepth

(* The callees of an index are indices, whether or not it is defined.        *)
LEMMA CalleesType ==
  ASSUME ReaderTypeOK, NEW i \in Index
  PROVE  Callees(module, i) \in Seq(Index)
<1>1. CASE Defined(module, i)
  <2>1. i - module.imported_function_count + 1 \in 1..Len(module.functions)
    BY <1>1, SizesAssumption DEF Defined, ReaderTypeOK, Module, Index
  <2>2. Function(module, i) \in Profile
    BY <2>1 DEF Function, ReaderTypeOK, Module
  <2> QED BY <1>1, <2>2 DEF Callees, Profile
<1>2. CASE ~Defined(module, i)
  BY <1>2 DEF Callees
<1> QED BY <1>1, <1>2

(* A record stays of its type when a field is replaced by a value of the     *)
(* field's type.                                                            *)
LEMMA ModuleUpdate ==
  ASSUME NEW m \in Module
  PROVE  /\ \A v \in Nat : [m EXCEPT !.imported_function_count = v] \in Module
         /\ \A v \in Seq([function : BOOLEAN, name : Name]) :
              [m EXCEPT !.imports = v] \in Module
         /\ \A v \in Seq(Nat) : [m EXCEPT !.memories = v] \in Module
         /\ \A v \in Seq([kind : ExportKind, name : Name, index : Index]) :
              [m EXCEPT !.exports = v] \in Module
         /\ \A v \in Seq(Profile) : [m EXCEPT !.functions = v] \in Module
BY DEF Module

LEMMA ModuleFields ==
  ASSUME NEW m \in Module
  PROVE  /\ m.imported_function_count \in Nat
         /\ m.imports \in Seq([function : BOOLEAN, name : Name])
         /\ m.memories \in Seq(Nat)
         /\ m.exports \in Seq([kind : ExportKind, name : Name, index : Index])
         /\ m.functions \in Seq(Profile)
BY DEF Module

LEMMA ProfileUpdate ==
  ASSUME NEW p \in Profile, NEW v \in Nat, NEW w \in Nat
  PROVE  /\ [p EXCEPT !.instruction_count = v, !.loop_instructions = w] \in Profile
         /\ [p EXCEPT !.loop_count = v, !.max_loop_depth = w] \in Profile
         /\ [p EXCEPT !.index = v] \in Profile
BY DEF Profile

LEMMA ProfileFields ==
  ASSUME NEW p \in Profile
  PROVE  /\ p.instruction_count \in Nat
         /\ p.loop_instructions \in Nat
         /\ p.loop_count \in Nat
         /\ p.max_loop_depth \in Nat
         /\ p.calls \in Seq(Index)
BY DEF Profile

LEMMA NoProfileType == NoProfile \in Profile
BY DEF NoProfile, Profile

LEMMA CountedType ==
  ASSUME ReaderTypeOK
  PROVE  Counted \in Profile
<1>1. profile \in Profile
  BY DEF ReaderTypeOK
<1> DEFINE looping == IF InsideLoop THEN profile.loop_instructions + 1
                                    ELSE profile.loop_instructions
<1>2. profile.instruction_count + 1 \in Nat /\ looping \in Nat
  BY <1>1, ProfileFields
<1>3. Counted = [profile EXCEPT !.instruction_count = profile.instruction_count + 1,
                                !.loop_instructions = looping]
  BY DEF Counted
<1> HIDE DEF looping
<1> QED BY <1>1, <1>2, <1>3, ProfileUpdate

(* One step of the reader keeps what it has recorded well typed.             *)
LEMMA ReaderTypes ==
  ASSUME ReaderTypeOK, Read
  PROVE  ReaderTypeOK'
<1> USE DEF ReaderTypeOK
<1>1. ASSUME payloads # << >>
      PROVE  Head(payloads) \in Payload /\ Tail(payloads) \in Seq(Payload)
  BY <1>1, HeadTailProperties
<1>2. ASSUME operators # << >>
      PROVE  Head(operators) \in Operator /\ Tail(operators) \in Seq(Operator)
  BY <1>2, HeadTailProperties
<1>3. CASE ReadImport
  <2>1. /\ Head(payloads).function \in BOOLEAN
        /\ Head(payloads).name \in Name
    BY <1>1, <1>3 DEF ReadImport, Section, Payload
  <2> DEFINE counted == CountImport(module, Head(payloads))
             count == IF Head(payloads).function THEN module.imported_function_count + 1
                                                 ELSE module.imported_function_count
             import == [function |-> Head(payloads).function, name |-> Head(payloads).name]
  <2>2. counted \in Module
    <3>1. count \in Nat
      BY ModuleFields
    <3>2. counted = [module EXCEPT !.imported_function_count = count]
      BY DEF CountImport
    <3> QED BY <3>1, <3>2, ModuleUpdate
  <2>3. module' \in Module
    <3>1. module' = [counted EXCEPT !.imports = Append(counted.imports, import)]
      BY <1>3 DEF ReadImport
    <3>2. Append(counted.imports, import) \in Seq([function : BOOLEAN, name : Name])
      BY <2>1, <2>2, ModuleFields, AppendProperties
    <3> QED BY <2>2, <3>1, <3>2, ModuleUpdate
  <2> QED BY <1>1, <1>3, <2>3 DEF ReadImport, Section
<1>4. CASE ReadMemory
  <2>1. Head(payloads).pages \in Nat
    BY <1>1, <1>4 DEF ReadMemory, Section, Payload
  <2>2. module' \in Module
    <3>1. Append(module.memories, Head(payloads).pages) \in Seq(Nat)
      BY <2>1, ModuleFields, AppendProperties
    <3> QED BY <1>4, <3>1, ModuleUpdate DEF ReadMemory
  <2> QED BY <1>1, <1>4, <2>2 DEF ReadMemory, Section
<1>5. CASE ReadExport
  <2>1. /\ Head(payloads).kind \in ExportKind
        /\ Head(payloads).name \in Name
        /\ Head(payloads).index \in Index
    BY <1>1, <1>5 DEF ReadExport, Section, Payload
  <2>2. module' \in Module
    <3> DEFINE export == [kind |-> Head(payloads).kind, name |-> Head(payloads).name,
                          index |-> Head(payloads).index]
    <3>1. Append(module.exports, export)
            \in Seq([kind : ExportKind, name : Name, index : Index])
      BY <2>1, ModuleFields, AppendProperties
    <3> QED BY <1>5, <3>1, ModuleUpdate DEF ReadExport
  <2> QED BY <1>1, <1>5, <2>2 DEF ReadExport, Section
<1>6. CASE ReadStart
  BY <1>1, <1>6 DEF ReadStart, Section, Module
<1>7. CASE ReadContractSpec
  BY <1>1, <1>7 DEF ReadContractSpec, Section, Module
<1>8. CASE ReadOther
  BY <1>1, <1>8 DEF ReadOther, Section
<1>9. CASE ReadMalformed
  BY <1>1, <1>9 DEF ReadMalformed, Section
<1>10. CASE OpenBody
  <2>1. Head(payloads).body \in Seq(Operator)
    BY <1>1, <1>10 DEF OpenBody, Section, Payload
  <2>2. module.imported_function_count + Len(module.functions) \in Nat
    BY ModuleFields
  <2>3. profile' \in Profile
    BY <1>10, <2>2, NoProfileType, ProfileUpdate DEF OpenBody
  <2> QED BY <1>1, <1>10, <2>1, <2>3 DEF OpenBody, Section
<1>11. CASE EnterLoop
  <2>1. blocks' \in Seq(BOOLEAN)
    BY <1>11 DEF EnterLoop
  <2>2. Counted \in Profile
    BY CountedType
  <2>3. /\ Max({Counted.max_loop_depth, LoopDepth(blocks')}) \in Nat
        /\ Counted.loop_count + 1 \in Nat
    <3>1. LoopDepth(blocks') \in Nat
      BY <2>1, DepthType
    <3>2. Counted.max_loop_depth \in Nat /\ Counted.loop_count \in Nat
      BY <2>2, ProfileFields
    <3>3. Max({Counted.max_loop_depth, LoopDepth(blocks')}) \in Nat
      BY <3>1, <3>2, MaxOfTwo
    <3> QED BY <3>2, <3>3
  <2>4. profile' = [Counted EXCEPT
                      !.loop_count = Counted.loop_count + 1,
                      !.max_loop_depth = Max({Counted.max_loop_depth, LoopDepth(blocks')})]
    BY <1>11 DEF EnterLoop
  <2>5. profile' \in Profile
    BY <2>2, <2>3, <2>4, ProfileUpdate
  <2> QED BY <1>2, <1>11, <2>1, <2>5 DEF EnterLoop, Reads
<1>12. CASE EnterBlock
  BY <1>2, <1>12, CountedType DEF EnterBlock, Reads
<1>13. CASE LeaveBlock
  <2>1. blocks' \in Seq(BOOLEAN)
    BY <1>13, FrontType DEF LeaveBlock
  <2> QED BY <1>2, <1>13, <2>1, CountedType DEF LeaveBlock, Reads
<1>14. CASE RecordCall
  <2>1. Head(operators).to \in Index
    BY <1>2, <1>14 DEF RecordCall, Reads, Operator
  <2>2. Append(Counted.calls, Head(operators).to) \in Seq(Index)
    BY <2>1, CountedType DEF Profile
  <2>3. profile' \in Profile
    BY <1>14, <2>2, CountedType DEF RecordCall, Profile
  <2> QED BY <1>2, <1>14, <2>3 DEF RecordCall, Reads
<1>15. CASE RecordFlag
  <2>1. profile' \in Profile
    BY <1>15, CountedType DEF RecordFlag, Profile
  <2> QED BY <1>2, <1>15, <2>1 DEF RecordFlag, Reads
<1>16. CASE ReadPlain
  BY <1>2, <1>16, CountedType DEF ReadPlain, Reads
<1>17. CASE ReadMalformedOperator
  BY <1>2, <1>17 DEF ReadMalformedOperator, Reads
<1>18. CASE CloseBody
  <2>1. module' \in Module
    <3>1. Append(module.functions, profile) \in Seq(Profile)
      BY ModuleFields, AppendProperties
    <3> QED BY <1>18, <3>1, ModuleUpdate DEF CloseBody
  <2> QED BY <1>18, <2>1 DEF CloseBody
<1>19. CASE FinishReading
  BY <1>19 DEF FinishReading
<1> QED BY <1>3, <1>4, <1>5, <1>6, <1>7, <1>8, <1>9, <1>10, <1>11, <1>12, <1>13, <1>14,
           <1>15, <1>16, <1>17, <1>18, <1>19 DEF Read, ReadOperator

-----------------------------------------------------------------------------
(* A non-empty set of natural numbers has a least element.                   *)
LEMMA LeastElement ==
  ASSUME NEW T, T \subseteq Nat, T # {}
  PROVE  \E n \in T : \A m \in T : n <= m
<1>1. IsWellFoundedOn(OpToRel(<, Nat), Nat)
  BY NatLessThanWellFounded
<1>2. PICK n \in T : \A m \in T : ~(<<m, n>> \in OpToRel(<, Nat))
  BY <1>1, WFMin
<1>3. \A m \in T : ~(m < n)
  BY <1>2 DEF OpToRel
<1> QED BY <1>3

(* What a fold takes out of a set.                                           *)
Chosen(s) == CHOOSE x \in s : TRUE

LEMMA ChosenIn ==
  ASSUME NEW S, IsFiniteSet(S), NEW s \in SUBSET S, s # {}
  PROVE  /\ Chosen(s) \in s
         /\ s \ {Chosen(s)} \in SUBSET S
         /\ Cardinality(s) \in Nat /\ Cardinality(s \ {Chosen(s)}) \in Nat
         /\ Cardinality(s \ {Chosen(s)}) = Cardinality(s) - 1
         /\ Cardinality(s) > 0
<1>1. Chosen(s) \in s
  BY DEF Chosen
<1>2. IsFiniteSet(s)
  BY FS_Subset
<1>3. Cardinality(s \ {Chosen(s)}) = Cardinality(s) - 1
  BY <1>1, <1>2, FS_RemoveElement
<1>4. IsFiniteSet(s \ {Chosen(s)})
  BY <1>2, FS_RemoveElement
<1>5. Cardinality(s) \in Nat /\ Cardinality(s \ {Chosen(s)}) \in Nat
  BY <1>2, <1>4, FS_CardinalityType
<1> QED BY <1>1, <1>3, <1>5

(* A function that is defined on a set by what it is without one chosen      *)
(* member exists, whatever is computed of the member and of the rest.        *)
Folds(g, dom, step, base) ==
  \A s \in dom : g[s] = IF s = {} THEN base ELSE step[<<Chosen(s), g[s \ {Chosen(s)}]>>]

LEMMA FoldExists ==
  ASSUME NEW S, IsFiniteSet(S), NEW V, NEW base \in V, NEW step \in [S \X V -> V]
  PROVE  \E g \in [SUBSET S -> V] : Folds(g, SUBSET S, step, base)
<1> DEFINE UpTo(n) == {s \in SUBSET S : Cardinality(s) <= n}
           Missing == {n \in Nat : ~ \E g \in [UpTo(n) -> V] : Folds(g, UpTo(n), step, base)}
<1>1. \A s \in SUBSET S : IsFiniteSet(s) /\ Cardinality(s) \in Nat
  BY FS_Subset, FS_CardinalityType
<1>2. Missing = {}
  <2> SUFFICES ASSUME Missing # {} PROVE FALSE
    OBVIOUS
  <2>1. PICK n \in Missing : \A m \in Missing : n <= m
    BY LeastElement
  <2>2. CASE n = 0
    <3> DEFINE g == [s \in UpTo(0) |-> base]
    <3>1. \A s \in UpTo(0) : s = {}
      BY <1>1, FS_EmptySet
    <3>2. g \in [UpTo(0) -> V] /\ Folds(g, UpTo(0), step, base)
      BY <3>1 DEF Folds
    <3> QED BY <2>1, <2>2, <3>2
  <2>3. CASE n # 0
    <3>1. n - 1 \in Nat /\ n - 1 \notin Missing
      <4>1. n \in Nat /\ n - 1 \in Nat /\ ~(n <= n - 1)
        BY <2>3
      <4> HIDE DEF Missing
      <4> QED BY <2>1, <4>1
    <3>2. PICK h \in [UpTo(n - 1) -> V] : Folds(h, UpTo(n - 1), step, base)
      BY <3>1
    <3> DEFINE g == [s \in UpTo(n) |->
                       IF s = {} THEN base ELSE step[<<Chosen(s), h[s \ {Chosen(s)}]>>]]
    <3>3. ASSUME NEW s \in UpTo(n), s # {}
          PROVE  /\ s \ {Chosen(s)} \in UpTo(n - 1)
                 /\ s \ {Chosen(s)} \in UpTo(n)
                 /\ Chosen(s) \in S
      <4>1. Cardinality(s \ {Chosen(s)}) = Cardinality(s) - 1 /\ Cardinality(s) \in Nat
            /\ s \ {Chosen(s)} \in SUBSET S /\ Chosen(s) \in S
        BY <3>3, ChosenIn
      <4> QED BY <2>1, <4>1
    <3>4. g \in [UpTo(n) -> V]
      <4>1. ASSUME NEW s \in UpTo(n), s # {}
            PROVE  step[<<Chosen(s), h[s \ {Chosen(s)}]>>] \in V
        BY <3>2, <3>3, <4>1
      <4> QED BY <4>1
    <3>5. ASSUME NEW s \in UpTo(n - 1) PROVE s \in UpTo(n) /\ g[s] = h[s]
      <4>1. s \in UpTo(n)
        BY <1>1, <2>1
      <4> QED BY <3>2, <4>1 DEF Folds
    <3>6. Folds(g, UpTo(n), step, base)
      <4> SUFFICES ASSUME NEW s \in UpTo(n), s # {}
                   PROVE  g[s] = step[<<Chosen(s), g[s \ {Chosen(s)}]>>]
        BY DEF Folds
      <4> QED BY <3>3, <3>5
    <3> QED BY <2>1, <3>4, <3>6
  <2> QED BY <2>2, <2>3
<1>3. Cardinality(S) \in Nat /\ UpTo(Cardinality(S)) = SUBSET S
  <2>1. \A s \in SUBSET S : Cardinality(s) <= Cardinality(S)
    BY FS_Subset
  <2> QED BY <2>1, FS_CardinalityType
<1>4. \E g \in [UpTo(Cardinality(S)) -> V] : Folds(g, UpTo(Cardinality(S)), step, base)
  <2> HIDE DEF UpTo
  <2> QED BY <1>2, <1>3
<1> QED BY <1>3, <1>4

(* A sum of integers is an integer.                                          *)
LEMMA SumType ==
  ASSUME NEW S, IsFiniteSet(S), NEW f \in [S -> Int]
  PROVE  SumFunction(f) \in Int
<1> DEFINE adding == [p \in S \X Int |-> f[p[1]] + p[2]]
           Iterates(i) == i = [s \in SUBSET S |->
                           IF s = {} THEN 0 ELSE f[Chosen(s)] + i[s \ {Chosen(s)}]]
           iter == CHOOSE i : Iterates(i)
<1>1. PICK g \in [SUBSET S -> Int] : Folds(g, SUBSET S, adding, 0)
  <2>1. adding \in [S \X Int -> Int] /\ 0 \in Int
    OBVIOUS
  <2> DEFINE I == Int
  <2>2. adding \in [S \X I -> I] /\ 0 \in I
    BY <2>1
  <2> HIDE DEF adding, Iterates, I
  <2>3. \E g \in [SUBSET S -> I] : Folds(g, SUBSET S, adding, 0)
    BY <2>2, FoldExists
  <2> QED BY <2>3 DEF I
<1>2. Iterates(g)
  <2>1. ASSUME NEW s \in SUBSET S, s # {}
        PROVE  g[s] = f[Chosen(s)] + g[s \ {Chosen(s)}]
    BY <1>1, <2>1, ChosenIn DEF Folds
  <2>2. g[{}] = 0
    BY <1>1 DEF Folds
  <2>3. \A s \in SUBSET S : g[s] = IF s = {} THEN 0 ELSE f[Chosen(s)] + g[s \ {Chosen(s)}]
    BY <2>1, <2>2
  <2> QED BY <2>3
<1>3. Iterates(iter)
  BY <1>2
<1>4. ASSUME NEW i, Iterates(i) PROVE i[S] \in Int
  <2> DEFINE Bad == {n \in Nat : \E s \in SUBSET S : Cardinality(s) = n /\ i[s] \notin Int}
  <2>1. Bad = {}
    <3> SUFFICES ASSUME Bad # {} PROVE FALSE
      OBVIOUS
    <3>1. PICK n \in Bad : \A m \in Bad : n <= m
      BY LeastElement
    <3>2. PICK s \in SUBSET S : Cardinality(s) = n /\ i[s] \notin Int
      BY <3>1
    <3>3. s # {} /\ i[s] = f[Chosen(s)] + i[s \ {Chosen(s)}]
      <4>1. i[s] = IF s = {} THEN 0 ELSE f[Chosen(s)] + i[s \ {Chosen(s)}]
        BY <1>4
      <4> QED BY <3>2, <4>1
    <3>4. Cardinality(s \ {Chosen(s)}) \in Nat /\ Cardinality(s \ {Chosen(s)}) < n
          /\ s \ {Chosen(s)} \in SUBSET S /\ Chosen(s) \in S
      BY <3>2, <3>3, ChosenIn
    <3>5. i[s \ {Chosen(s)}] \in Int
      BY <3>1, <3>4
    <3> QED BY <3>2, <3>3, <3>4, <3>5
  <2>2. Cardinality(S) \in Nat
    BY FS_CardinalityType
  <2> QED BY <2>1, <2>2
<1>5. SumFunction(f) = iter[S]
  BY DEF SumFunction, SumFunctionOnSet, FoldFunctionOnSet, MapThenFoldSet, Chosen
<1> HIDE DEF iter, Iterates
<1> QED BY <1>3, <1>4, <1>5

(* What an integer is cut to by its width fits it.                           *)
LEMMA WrapType == \A n \in Int : Wrap(n) \in Nat /\ Wrap(n) \in U64
<1>1. Width \in Nat \ {0}
  BY WidthsAssumption
<1>2. ASSUME NEW n \in Int PROVE n % Width \in 0..(Width - 1)
  BY <1>1
<1> QED BY <1>1, <1>2 DEF Wrap, U64, Largest

LEMMA SaturateType == \A n \in Nat : Saturate(n) \in Nat
<1> SUFFICES ASSUME NEW n \in Nat PROVE Saturate(n) \in Nat
  OBVIOUS
<1>1. Largest \in Nat
  BY WidthsAssumption DEF Largest
<1>2. \E x \in {n, Largest} : \A y \in {n, Largest} : x <= y
  BY <1>1
<1>3. Min({n, Largest}) \in {n, Largest}
  BY <1>2 DEF Min
<1> QED BY <1>1, <1>3 DEF Saturate

(* A product cut to a width at every step is a natural number.               *)
LEMMA WeightType ==
  ASSUME NEW S, IsFiniteSet(S), NEW f \in [S -> Nat]
  PROVE  FoldFunction(LAMBDA a, b : Saturate(a * b), 1, f) \in Nat
<1> DEFINE N == Nat
           times == [p \in S \X N |-> Saturate(f[p[1]] * p[2])]
           Iterates(i) == i = [s \in SUBSET S |->
                           IF s = {} THEN 1 ELSE Saturate(f[Chosen(s)] * i[s \ {Chosen(s)}])]
           iter == CHOOSE i : Iterates(i)
<1>1. ASSUME NEW a \in Nat, NEW b \in Nat PROVE Saturate(a * b) \in Nat
  <2>1. \A c \in Nat : Saturate(c) \in Nat
    BY SaturateType
  <2>2. a * b \in Nat
    OBVIOUS
  <2> QED BY <2>1, <2>2
<1>2. PICK g \in [SUBSET S -> N] : Folds(g, SUBSET S, times, 1)
  <2>1. times \in [S \X N -> N] /\ 1 \in N
    BY <1>1
  <2> HIDE DEF times, Iterates, N
  <2> QED BY <2>1, FoldExists
<1>3. Iterates(g)
  <2>1. ASSUME NEW s \in SUBSET S, s # {}
        PROVE  g[s] = Saturate(f[Chosen(s)] * g[s \ {Chosen(s)}])
    <3>1. s \ {Chosen(s)} \in SUBSET S /\ Chosen(s) \in S
      BY <2>1, ChosenIn
    <3>2. <<Chosen(s), g[s \ {Chosen(s)}]>> \in S \X N
      BY <1>2, <3>1
    <3>3. g[s] = times[<<Chosen(s), g[s \ {Chosen(s)}]>>]
      BY <1>2, <2>1 DEF Folds
    <3> QED BY <3>2, <3>3
  <2>2. g[{}] = 1
    BY <1>2 DEF Folds
  <2>3. \A s \in SUBSET S :
          g[s] = IF s = {} THEN 1 ELSE Saturate(f[Chosen(s)] * g[s \ {Chosen(s)}])
    BY <2>1, <2>2
  <2> QED BY <1>2, <2>3
<1>4. Iterates(iter)
  BY <1>3
<1>5. ASSUME NEW i, Iterates(i) PROVE i[S] \in Nat
  <2> DEFINE Bad == {n \in Nat : \E s \in SUBSET S : Cardinality(s) = n /\ i[s] \notin Nat}
  <2>1. Bad = {}
    <3> SUFFICES ASSUME Bad # {} PROVE FALSE
      OBVIOUS
    <3>1. PICK n \in Bad : \A m \in Bad : n <= m
      BY LeastElement
    <3>2. PICK s \in SUBSET S : Cardinality(s) = n /\ i[s] \notin Nat
      BY <3>1
    <3>3. s # {} /\ i[s] = Saturate(f[Chosen(s)] * i[s \ {Chosen(s)}])
      <4>1. i[s] = IF s = {} THEN 1 ELSE Saturate(f[Chosen(s)] * i[s \ {Chosen(s)}])
        BY <1>5
      <4> QED BY <3>2, <4>1
    <3>4. Cardinality(s \ {Chosen(s)}) \in Nat /\ Cardinality(s \ {Chosen(s)}) < n
          /\ s \ {Chosen(s)} \in SUBSET S /\ Chosen(s) \in S
      BY <3>2, <3>3, ChosenIn
    <3>5. i[s \ {Chosen(s)}] \in Nat
      BY <3>1, <3>4
    <3>6. f[Chosen(s)] \in Nat
      BY <3>4
    <3> QED BY <1>1, <3>2, <3>3, <3>5, <3>6
  <2>2. Cardinality(S) \in Nat
    BY FS_CardinalityType
  <2> QED BY <2>1, <2>2
<1>6. FoldFunction(LAMBDA a, b : Saturate(a * b), 1, f) = iter[S]
  BY DEF FoldFunction, FoldFunctionOnSet, MapThenFoldSet, Chosen
<1> HIDE DEF iter, Iterates
<1> QED BY <1>4, <1>5, <1>6

-----------------------------------------------------------------------------
(* The figures of an estimate.                                               *)
Sound(e) ==
  /\ e \in Figure
  /\ e.lower_bound <= e.estimate
  /\ e.upper = IF IsUnbounded(e) THEN {} ELSE {e.estimate}

LEMMA ExactSound == \A n \in Nat : Sound(Exact(n))
BY DEF Sound, Exact, Figure, Reason, IsUnbounded

LEMMA UnknownSound == \A r \in Reason \ {"none"} : Sound(Unknown(r))
BY DEF Sound, Unknown, Figure, IsUnbounded

LEMMA UnboundedSound == \A l, n \in Nat : Sound(Unbounded(l, n))
<1> SUFFICES ASSUME NEW l \in Nat, NEW n \in Nat PROVE Sound(Unbounded(l, n))
  OBVIOUS
<1>1. \E x \in {n, l} : \A y \in {n, l} : x >= y
  OBVIOUS
<1>2. Max({n, l}) \in Nat /\ l <= Max({n, l})
  BY <1>1 DEF Max
<1> QED BY <1>2 DEF Sound, Unbounded, Figure, Reason, IsUnbounded

(* A limit is only reported broken when the estimate is above it.            *)
LEMMA ViolationAgrees ==
  ASSUME TypeOK, NEW axis \in Axis, NEW e,
         \A bound \in e.upper \cup {e.lower_bound} :
           bound > input.limits[axis] => e.estimate > input.limits[axis],
         NEW v \in Violation(axis, e)
  PROVE  v \in Breach /\ v.axis = axis /\ e.estimate > v.limit
<1>1. input.limits[axis] \in U64
  BY DEF TypeOK, Input
<1>2. /\ v = [axis |-> axis, limit |-> input.limits[axis],
              certain |-> CertainlyExceeds(e, input.limits[axis])]
      /\ CertainlyExceeds(e, input.limits[axis]) \/ MayExceed(e, input.limits[axis])
  BY DEF Violation
<1>3. e.estimate > input.limits[axis]
  BY <1>2 DEF CertainlyExceeds, MayExceed
<1> QED BY <1>1, <1>2, <1>3 DEF Breach, CertainlyExceeds

LEMMA SoundViolation ==
  ASSUME TypeOK, NEW axis \in Axis, NEW e, Sound(e), NEW v \in Violation(axis, e)
  PROVE  v \in Breach /\ v.axis = axis /\ e.estimate > v.limit
<1>1. input.limits[axis] \in Nat
  BY WidthsAssumption DEF TypeOK, Input, U64, Largest
<1>2. \A bound \in e.upper \cup {e.lower_bound} :
        bound > input.limits[axis] => e.estimate > input.limits[axis]
  BY <1>1 DEF Sound, Figure
<1> QED BY <1>2, ViolationAgrees

(* The ledger figures: loops around an access weigh a natural number.        *)
LEMMA ExtraType ==
  ASSUME TypeOK, NEW op
  PROVE  Extra(op) \in Nat
<1>1. input.loops \in Seq(Loop)
  BY DEF TypeOK, Input
<1>2. IsFiniteSet(Enclosing(op)) /\ Enclosing(op) \subseteq DOMAIN input.loops
  <2>1. DOMAIN input.loops = 1..Len(input.loops) /\ Len(input.loops) \in Nat
    BY <1>1
  <2>2. IsFiniteSet(DOMAIN input.loops)
    BY <2>1, FS_Interval
  <2> QED BY <2>2, FS_Subset DEF Enclosing
<1>3. \A i \in Enclosing(op) : input.loops[i].count \in Nat
  <2>1. \A i \in DOMAIN input.loops : input.loops[i] \in Loop
    BY <1>1
  <2> QED BY <1>2, <2>1, WidthsAssumption DEF Loop, U64, Largest
<1>4. [i \in Enclosing(op) |-> input.loops[i].count] \in [Enclosing(op) -> Nat]
  BY <1>3
<1>5. LoopWeight(op) \in Nat
  BY <1>2, <1>4, WeightType DEF LoopWeight
<1> QED BY <1>5 DEF Extra

LEMMA AccessesFinite ==
  ASSUME TypeOK, NEW A, A \subseteq DOMAIN input.storage_ops
  PROVE  IsFiniteSet(A) /\ IsFiniteSet(BoundedIn(A)) /\ BoundedIn(A) \subseteq A
<1>1. input.storage_ops \in Seq(StorageOp)
  BY DEF TypeOK, Input
<1>2. DOMAIN input.storage_ops = 1..Len(input.storage_ops) /\ Len(input.storage_ops) \in Nat
  BY <1>1
<1>3. IsFiniteSet(DOMAIN input.storage_ops)
  BY <1>2, FS_Interval
<1> QED BY <1>3, FS_Subset DEF BoundedIn

LEMMA LedgerSound ==
  ASSUME TypeOK, NEW A, A \subseteq DOMAIN input.storage_ops
  PROVE  Sound(LedgerEstimate(A))
<1>1. IsFiniteSet(A) /\ IsFiniteSet(BoundedIn(A)) /\ IsFiniteSet(A \ BoundedIn(A))
  BY AccessesFinite, FS_Subset
<1>2. Cardinality(A) \in Nat /\ Cardinality(A \ BoundedIn(A)) \in Nat
  BY <1>1, FS_CardinalityType
<1> DEFINE extras == [i \in BoundedIn(A) |-> Extra(input.storage_ops[i])]
<1>3. extras \in [BoundedIn(A) -> Int]
  BY ExtraType
<1>4. SumFunction(extras) \in Int
  <2> HIDE DEF extras
  <2> QED BY <1>1, <1>3, SumType
<1>5. LedgerBase(A) \in Int
  BY <1>2, <1>4 DEF LedgerBase
<1>6. input.assumed_loop_iterations \in Nat
  BY WidthsAssumption DEF TypeOK, Input, U64, Largest
<1>7. LedgerSum(A) \in Int
  BY <1>2, <1>5, <1>6 DEF LedgerSum
<1>8. Wrap(LedgerBase(A)) \in Nat /\ Wrap(LedgerSum(A)) \in Nat
  BY <1>5, <1>7, WrapType
<1> QED BY <1>2, <1>8, ExactSound, UnboundedSound DEF LedgerEstimate

LEMMA AxisLedgersSound ==
  ASSUME TypeOK, NEW name
  PROVE  Sound(LedgerEstimate(ReadsOf(name))) /\ Sound(LedgerEstimate(WritesOf(name)))
BY LedgerSound DEF ReadsOf, WritesOf, Accesses

(* The sums over the functions reached.                                      *)
LEMMA FunctionType ==
  ASSUME ReaderTypeOK, NEW i \in Index, Defined(module, i)
  PROVE  Function(module, i) \in Profile
<1>1. i - module.imported_function_count + 1 \in 1..Len(module.functions)
  BY SizesAssumption DEF Defined, ReaderTypeOK, Module, Index
<1> QED BY <1>1 DEF Function, ReaderTypeOK, Module

LEMMA InstructionsSound ==
  ASSUME TypeOK
  PROVE  Sound(InstructionEstimate)
<1>1. IsFiniteSet(Reached) /\ Reached \subseteq Index
  <2>1. IsFiniteSet(Index)
    BY SizesAssumption, FS_Interval DEF Index
  <2>2. Reached \subseteq Index
    BY DEF Reached, TypeOK
  <2> QED BY <2>1, <2>2, FS_Subset
<1>2. /\ input.cost_per_instruction \in Nat
      /\ input.cost_per_call \in Nat
      /\ input.assumed_loop_iterations \in Nat
  BY WidthsAssumption DEF TypeOK, Input, U64, Largest
<1>3. ASSUME NEW i \in Reached
      PROVE  /\ Function(module, i).loop_instructions \in Nat
             /\ StraightLine(Function(module, i)) \in Int
             /\ Len(Callees(module, i)) \in Nat
  <2>1. Function(module, i) \in Profile
    BY <1>1, FunctionType DEF Reached, TypeOK
  <2>2. Callees(module, i) \in Seq(Index)
    BY <1>1, CalleesType DEF TypeOK
  <2> QED BY <2>1, <2>2, ProfileFields DEF StraightLine
<1> DEFINE straight == [i \in Reached |->
                          StraightLine(Function(module, i)) * input.cost_per_instruction
                            + Len(Callees(module, i)) * input.cost_per_call]
           looped == [i \in Reached |->
                        Function(module, i).loop_instructions * input.cost_per_instruction]
<1>4. straight \in [Reached -> Int] /\ looped \in [Reached -> Int]
  BY <1>2, <1>3
<1>5. SumFunction(straight) \in Int /\ SumFunction(looped) \in Int
  <2> HIDE DEF straight, looped
  <2> QED BY <1>1, <1>4, SumType
<1>6. StraightCost \in Int /\ LoopedCost \in Int
  BY <1>5 DEF StraightCost, LoopedCost
<1>7. InstructionSum \in Int
  BY <1>2, <1>6 DEF InstructionSum
<1>8. Wrap(StraightCost) \in Nat /\ Wrap(InstructionSum) \in Nat
  BY <1>6, <1>7, WrapType
<1> QED BY <1>8, ExactSound, UnboundedSound DEF InstructionEstimate

(* What the report says of an entrypoint is of its type and agrees with      *)
(* itself.                                                                   *)
EntryAgrees(m, b) ==
  /\ \A e \in {b.instructions, b.reads, b.writes} :
       /\ e.lower_bound <= e.estimate
       /\ e.upper = (IF IsUnbounded(e) THEN {} ELSE {e.estimate})
  /\ \A v \in b.violations :
       LET e == CASE v.axis = "instructions" -> b.instructions
                  [] v.axis = "memory" -> Exact(MemoryBytes(m))
                  [] v.axis = "read-entries" -> b.reads
                  [] v.axis = "write-entries" -> b.writes
       IN e.estimate > v.limit

LEMMA BudgetAgrees ==
  ASSUME TypeOK, NEW name \in Name, NEW e, Sound(e), NEW c \in BOOLEAN
  PROVE  BudgetOf(name, e, c) \in EntryBudget /\ EntryAgrees(module, BudgetOf(name, e, c))
<1> DEFINE r == LedgerEstimate(ReadsOf(name))
           w == LedgerEstimate(WritesOf(name))
           m == Exact(MemoryBytes(module))
           vs == Violation("instructions", e)
                   \cup (UNION {Violation("memory", x) : x \in IF Parsed THEN {m} ELSE {}})
                   \cup Violation("read-entries", r)
                   \cup Violation("write-entries", w)
           b == [name |-> name, instructions |-> e, reads |-> r, writes |-> w,
                 instructions_from_wasm |-> c, violations |-> vs]
<1>1. BudgetOf(name, e, c) = b
  BY DEF BudgetOf
<1>2. Sound(r) /\ Sound(w)
  BY AxisLedgersSound
<1>3. \A bound \in m.upper \cup {m.lower_bound} :
        bound > input.limits["memory"] => m.estimate > input.limits["memory"]
  BY DEF Exact
<1> HIDE DEF r, w, m
<1>4. ASSUME NEW v \in vs
      PROVE  /\ v \in Breach
             /\ \/ v.axis = "instructions" /\ e.estimate > v.limit
                \/ v.axis = "memory" /\ m.estimate > v.limit
                \/ v.axis = "read-entries" /\ r.estimate > v.limit
                \/ v.axis = "write-entries" /\ w.estimate > v.limit
  <2>1. CASE v \in Violation("instructions", e)
    BY <2>1, SoundViolation DEF Axis
  <2>2. CASE v \in Violation("memory", m)
    BY <1>3, <2>2, ViolationAgrees DEF Axis
  <2>3. CASE v \in Violation("read-entries", r)
    BY <1>2, <2>3, SoundViolation DEF Axis
  <2>4. CASE v \in Violation("write-entries", w)
    BY <1>2, <2>4, SoundViolation DEF Axis
  <2> QED BY <2>1, <2>2, <2>3, <2>4
<1> HIDE DEF vs
<1>5. b \in EntryBudget
  BY <1>2, <1>4 DEF EntryBudget, Sound
<1>6. EntryAgrees(module, b)
  <2>1. \A x \in {b.instructions, b.reads, b.writes} :
          x.lower_bound <= x.estimate /\ x.upper = IF IsUnbounded(x) THEN {} ELSE {x.estimate}
    BY <1>2 DEF Sound
  <2>2. ASSUME NEW v \in b.violations
        PROVE  LET x == CASE v.axis = "instructions" -> b.instructions
                          [] v.axis = "memory" -> Exact(MemoryBytes(module))
                          [] v.axis = "read-entries" -> b.reads
                          [] v.axis = "write-entries" -> b.writes
               IN x.estimate > v.limit
    BY <1>4 DEF m
  <2> QED BY <2>1, <2>2 DEF EntryAgrees
<1> QED BY <1>1, <1>5, <1>6

-----------------------------------------------------------------------------
LEMMA TypeInit == Init => TypeOK
<1> SUFFICES ASSUME Init PROVE TypeOK
  OBVIOUS
<1>1. input \in Input
  BY InputsAssumption DEF Init
<1>2. payloads \in Seq(Payload) /\ todo \in Seq(Name)
  BY <1>1 DEF Init, Input
<1>3. EmptyModule \in Module
  BY DEF EmptyModule, Module
<1>4. ReaderTypeOK
  BY <1>2, <1>3, NoProfileType DEF Init, ReaderInit, ReaderTypeOK
<1>5. 0 \in Index /\ << >> \in Seq(EntryBudget)
  BY SizesAssumption DEF Index
<1> QED BY <1>1, <1>2, <1>4, <1>5 DEF Init, TypeOK

(* The frame a call opens, and the frame it returns to.                      *)
LEMMA FrameTypes ==
  ASSUME NEW fs \in Seq([index : Index, next : Nat \ {0}]), fs # << >>
  PROVE  /\ Passed(fs) \in Seq([index : Index, next : Nat \ {0}])
         /\ Len(Passed(fs)) = Len(fs)
         /\ \A k \in 1..(Len(fs) - 1) : Passed(fs)[k] = fs[k]
         /\ Passed(fs)[Len(fs)] = [index |-> fs[Len(fs)].index, next |-> fs[Len(fs)].next + 1]
<1>1. Len(fs) \in 1..Len(fs)
  OBVIOUS
<1>2. fs[Len(fs)] \in [index : Index, next : Nat \ {0}]
  <2> DEFINE F == [index : Index, next : Nat \ {0}]
  <2>1. fs \in Seq(F)
    OBVIOUS
  <2> HIDE DEF F
  <2>2. fs[Len(fs)] \in F
    BY <1>1, <2>1, ElementOfSeq
  <2> QED BY <2>2 DEF F
<1> DEFINE f == [index |-> fs[Len(fs)].index, next |-> fs[Len(fs)].next + 1]
<1>3. f \in [index : Index, next : Nat \ {0}] /\ [fs[Len(fs)] EXCEPT !.next = @ + 1] = f
  BY <1>2
<1>4. Passed(fs) = [fs EXCEPT ![Len(fs)] = f]
  BY <1>3 DEF Passed
<1> HIDE DEF f
<1>5. /\ [fs EXCEPT ![Len(fs)] = f] \in Seq([index : Index, next : Nat \ {0}])
      /\ Len([fs EXCEPT ![Len(fs)] = f]) = Len(fs)
      /\ \A k \in 1..(Len(fs) - 1) : [fs EXCEPT ![Len(fs)] = f][k] = fs[k]
      /\ [fs EXCEPT ![Len(fs)] = f][Len(fs)] = f
  BY <1>1, <1>3, ExceptSeq
<1> QED BY <1>4, <1>5 DEF f

LEMMA EmitTypes ==
  ASSUME TypeOK, todo # << >>, NEW e, Sound(e), NEW c \in BOOLEAN, NEW o, Emit(e, c, o)
  PROVE  /\ TypeOK'
         /\ \/ report' = report
            \/ \E b \in EntryBudget : EntryAgrees(module, b) /\ report' = Append(report, b)
<1>0. Current \in Name /\ todo' \in Seq(Name)
  BY HeadTailProperties DEF TypeOK, Emit, Current
<1>5. BudgetOf(Current, e, c) \in EntryBudget /\ EntryAgrees(module, BudgetOf(Current, e, c))
  BY <1>0, BudgetAgrees
<1>1. /\ report' \in Seq(EntryBudget)
      /\ \/ report' = report
         \/ \E b \in EntryBudget : EntryAgrees(module, b) /\ report' = Append(report, b)
  <2>1. report' = report \/ report' = Append(report, BudgetOf(Current, e, c))
    BY DEF Emit
  <2>2. report \in Seq(EntryBudget)
    BY DEF TypeOK
  <2> QED BY <1>5, <2>1, <2>2, AppendProperties
<1>2. 0 \in Index
  BY SizesAssumption DEF Index
<1>3. ReaderTypeOK'
  BY DEF TypeOK, Emit, ReaderTypeOK, reader
<1>4. phase' \in {"idle", "panicked"}
  BY DEF Emit
<1> QED BY <1>0, <1>1, <1>2, <1>3, <1>4 DEF TypeOK, Emit

(* The figures each way of answering hands on.                               *)
LEMMA AnswersSound ==
  ASSUME TypeOK
  PROVE  /\ Sound(Unknown(IF Parsed THEN "not exported" ELSE "no module"))
         /\ Sound(Unknown("recursion"))
         /\ Sound(InstructionEstimate)
<1>1. (IF Parsed THEN "not exported" ELSE "no module") \in Reason \ {"none"}
      /\ "recursion" \in Reason \ {"none"}
  BY DEF Reason
<1> QED BY <1>1, UnknownSound, InstructionsSound

LEMMA ReadingGoesOn == ReadModule => reading \in {"payloads", "body"}
BY DEF ReadModule, Read, ReadOperator, ReadImport, ReadMemory, ReadExport, ReadStart,
       ReadContractSpec, ReadOther, ReadMalformed, OpenBody, EnterLoop, EnterBlock, LeaveBlock,
       RecordCall, RecordFlag, ReadPlain, ReadMalformedOperator, CloseBody, FinishReading,
       Section, Reads

(* Every reachable state is of the type the variables are documented with,   *)
(* whatever the module holds; a walk only runs on a module that parsed.      *)
THEOREM TypeCorrect == Spec => []TypeOK
<1>1. TypeOK /\ [Next]_vars => TypeOK'
  <2> SUFFICES ASSUME TypeOK, [Next]_vars PROVE TypeOK'
    OBVIOUS
  <2>0. ASSUME UNCHANGED reader PROVE ReaderTypeOK' /\ (Parsed' <=> Parsed)
    BY <2>0 DEF TypeOK, ReaderTypeOK, reader, Parsed
  <2>1. CASE ReadModule
    <3>1. ReaderTypeOK'
      BY <2>1, ReaderTypes DEF TypeOK, ReadModule
    <3>2. ~Parsed
      BY <2>1, ReadingGoesOn DEF Parsed
    <3> QED BY <2>1, <3>1, <3>2 DEF ReadModule, estimator, TypeOK
  <2>2. CASE EstimateFromSource
    BY <2>2, AnswersSound, EmitTypes DEF EstimateFromSource, Ready
  <2>3. CASE StartWalk
    <3>1. PICK i \in ExportsOf(Current) : /\ entry' = module.exports[i].index
                                         /\ stack' = <<module.exports[i].index>>
      BY <2>3 DEF StartWalk
    <3>2. module.exports[i].index \in Index
      <4> DEFINE E == [kind : ExportKind, name : Name, index : Index]
      <4>1. module.exports \in Seq(E)
        BY ModuleFields DEF TypeOK, ReaderTypeOK
      <4>2. i \in DOMAIN module.exports
        BY <3>1 DEF ExportsOf
      <4> HIDE DEF E
      <4>3. module.exports[i] \in E
        BY <4>1, <4>2
      <4> QED BY <4>3 DEF E
    <3> QED BY <2>0, <2>3, <3>1, <3>2 DEF StartWalk, Ready, TypeOK
  <2>4. CASE SkipReached
    BY <2>0, <2>4, FrontType DEF SkipReached, TypeOK, Current
  <2>5. CASE Reach
    <3>1. Last(stack) \in Index /\ Front(stack) \in Seq(Index)
      BY <2>5, FrontType DEF Reach, TypeOK
    <3>2. Callees(module, Last(stack)) \in Seq(Index)
      BY <3>1, CalleesType DEF TypeOK
    <3>3. stack' \in Seq(Index) /\ reached' \in SUBSET Index
      BY <2>5, <3>1, <3>2, ConcatProperties DEF Reach, TypeOK
    <3> QED BY <2>0, <2>5, <3>3 DEF Reach, TypeOK
  <2>6. CASE StartCycleSearch
    BY <2>0, <2>6 DEF StartCycleSearch, TypeOK, Frame
  <2>7. CASE PassFinished
    BY <2>0, <2>7, FrameTypes DEF PassFinished, InCall, TypeOK
  <2>8. ASSUME InCall PROVE Top \in [index : Index, next : Nat \ {0}] /\ Callee \in Index
    <3>1. Top \in [index : Index, next : Nat \ {0}]
      BY <2>8, FrontType DEF InCall, TypeOK, Top
    <3>2. Body \in Seq(Index)
      BY <3>1, CalleesType DEF TypeOK, Body
    <3> QED BY <2>8, <3>1, <3>2 DEF InCall, Callee
  <2>9. CASE Descend
    <3>1. Frame(Callee) \in [index : Index, next : Nat \ {0}] /\ Callee \in Index
      BY <2>8, <2>9 DEF Descend, Frame
    <3>2. frames' \in Seq([index : Index, next : Nat \ {0}])
      BY <2>9, <3>1, AppendProperties DEF Descend, TypeOK
    <3> QED BY <2>0, <2>9, <3>1, <3>2 DEF Descend, TypeOK
  <2>10. CASE Return
    <3>1. Top \in [index : Index, next : Nat \ {0}]
      BY <2>10, FrontType DEF Return, TypeOK, Top
    <3>2. frames' \in Seq([index : Index, next : Nat \ {0}])
      <4>1. CASE Len(frames) = 1
        BY <2>10, <4>1 DEF Return
      <4>2. CASE Len(frames) # 1
        <5>1. /\ Front(frames) \in Seq([index : Index, next : Nat \ {0}])
              /\ Front(frames) # << >>
          <6>1. frames \in Seq([index : Index, next : Nat \ {0}]) /\ frames # << >>
            BY <2>10 DEF Return, TypeOK
          <6>2. /\ Front(frames) \in Seq([index : Index, next : Nat \ {0}])
                /\ Len(Front(frames)) = Len(frames) - 1
                /\ Len(frames) \in Nat \ {0}
            BY <6>1, FrontType
          <6> QED BY <4>2, <6>2
        <5> QED BY <2>10, <4>2, <5>1, FrameTypes DEF Return
      <4> QED BY <4>1, <4>2
    <3> QED BY <2>0, <2>10, <3>1, <3>2 DEF Return, TypeOK
  <2>11. CASE ReportRecursion
    BY <2>11, AnswersSound, EmitTypes DEF ReportRecursion, InCall, TypeOK
  <2>12. CASE Estimate
    BY <2>12, AnswersSound, EmitTypes DEF Estimate, TypeOK
  <2>13. CASE Detect
    BY <2>0, <2>13 DEF Detect, TypeOK
  <2>14. CASE UNCHANGED vars
    BY <2>14 DEF vars, reader, estimator, TypeOK, ReaderTypeOK, Parsed
  <2> QED BY <2>1, <2>2, <2>3, <2>4, <2>5, <2>6, <2>7, <2>9, <2>10, <2>11, <2>12, <2>13, <2>14
        DEF Next, Search
<1> QED BY <1>1, TypeInit, PTL DEF Spec

-----------------------------------------------------------------------------
(* Adding a function all of whose callees are Done, and which is not Done    *)
(* itself, closes no circle: a set that holds it and nothing Done is it      *)
(* alone, and any other set has a member among what was Done before that     *)
(* calls nothing in it.                                                      *)
LEMMA AddSafe ==
  ASSUME NEW done, NEW t, t \notin done, Acyclic(done),
         \A i \in done : CalleesOf(i) \subseteq done,
         CalleesOf(t) \subseteq done
  PROVE  Acyclic(done \cup {t}) /\ \A i \in done \cup {t} : CalleesOf(i) \subseteq done \cup {t}
<1>1. ASSUME NEW s \in SUBSET (done \cup {t}), s # {}
      PROVE  \E i \in s : CalleesOf(i) \cap s = {}
  <2>1. CASE s \cap done = {}
    BY <1>1, <2>1
  <2>2. CASE s \cap done # {}
    <3>1. PICK i \in s \cap done : CalleesOf(i) \cap (s \cap done) = {}
      BY <2>2 DEF Acyclic
    <3> QED BY <3>1
  <2> QED BY <2>1, <2>2
<1> QED BY <1>1 DEF Acyclic

(* What the top frame is.                                                    *)
LEMMA TopFacts ==
  ASSUME TypeOK, frames # << >>
  PROVE  /\ Len(frames) \in Nat \ {0}
         /\ DOMAIN frames = 1..Len(frames)
         /\ \A k \in 1..Len(frames) : /\ frames[k].index \in Index
                                      /\ frames[k].next \in Nat \ {0}
         /\ Top = frames[Len(frames)]
         /\ Body \in Seq(Index)
         /\ DOMAIN Body = 1..Len(Body)
         /\ Len(Body) \in Nat
<1> DEFINE F == [index : Index, next : Nat \ {0}]
<1>1. frames \in Seq(F)
  BY DEF TypeOK
<1>2. \A k \in 1..Len(frames) : frames[k] \in F
  <2> HIDE DEF F
  <2> QED BY <1>1, ElementOfSeq
<1>3. Len(frames) \in Nat \ {0} /\ DOMAIN frames = 1..Len(frames)
  BY <1>1
<1>4. Top = frames[Len(frames)]
  BY DEF Top, Last
<1>5. \A k \in 1..Len(frames) : frames[k].index \in Index /\ frames[k].next \in Nat \ {0}
  BY <1>2
<1>6. Body \in Seq(Index)
  BY <1>3, <1>4, <1>5, CalleesType DEF TypeOK, Body
<1> QED BY <1>3, <1>4, <1>5, <1>6

LEMMA StartSearch ==
  ASSUME TypeOK, StartCycleSearch
  PROVE  FramesAreCalls' /\ FinishedIsSafe'
<1>1. /\ frames' = <<[index |-> entry, next |-> 1]>>
      /\ open' = {entry}
      /\ finished' = {}
      /\ entry' = entry
  BY DEF StartCycleSearch, Frame
<1>2. DOMAIN frames' = {1} /\ Len(frames') = 1 /\ frames'[1] = [index |-> entry, next |-> 1]
  BY <1>1
<1>3. FramesAreCalls'
  BY <1>1, <1>2 DEF FramesAreCalls
<1>4. FinishedIsSafe'
  BY <1>1, <1>2 DEF FinishedIsSafe, Acyclic
<1> QED BY <1>3, <1>4

LEMMA PassKeepsSearch ==
  ASSUME TypeOK, PassFinished, FramesAreCalls, FinishedIsSafe
  PROVE  FramesAreCalls' /\ FinishedIsSafe'
<1> DEFINE n == Len(frames)
<1>1. /\ frames # << >> /\ Top.next <= Len(Body) /\ Callee \in finished
      /\ frames' = Passed(frames) /\ open' = open /\ finished' = finished
      /\ module' = module /\ entry' = entry
  BY DEF PassFinished, InCall, reader
<1>2. /\ frames' \in Seq([index : Index, next : Nat \ {0}])
      /\ Len(frames') = n
      /\ \A k \in 1..(n - 1) : frames'[k] = frames[k]
      /\ frames'[n] = [index |-> frames[n].index, next |-> frames[n].next + 1]
  BY <1>1, FrameTypes DEF TypeOK
<1>3. DOMAIN frames' = 1..n /\ n \in Nat \ {0} /\ DOMAIN frames = 1..n
  BY <1>1, <1>2, TopFacts
<1>4. \A k \in 1..n : frames'[k].index = frames[k].index
  BY <1>2, <1>3
<1>5. Callees(module, frames[n].index)[frames[n].next] \in finished
  BY <1>1, TopFacts DEF Callee, Body
<1>6. ASSUME NEW k \in 1..n
      PROVE  /\ \A j \in 1..(frames'[k].next - 1) :
                  j \in DOMAIN Callees(module, frames[k].index) =>
                    Callees(module, frames[k].index)[j] \in finished
             /\ k < n =>
                  /\ frames'[k].next \in DOMAIN Callees(module, frames[k].index)
                  /\ Callees(module, frames[k].index)[frames'[k].next] = frames'[k + 1].index
  <2>1. CASE k = n
    <3>1. frames'[k].next - 1 = frames[n].next /\ frames[n].next \in Nat \ {0}
      BY <1>1, <1>2, <2>1, TopFacts
    <3>2. \A j \in 1..(frames'[k].next - 1) : j \in 1..(frames[n].next - 1) \/ j = frames[n].next
      BY <3>1
    <3>3. \A j \in 1..(frames[n].next - 1) :
            j \in DOMAIN Callees(module, frames[n].index) =>
              Callees(module, frames[n].index)[j] \in finished
      BY <1>3 DEF FramesAreCalls
    <3> HIDE DEF n
    <3> QED BY <1>3, <1>5, <2>1, <3>2, <3>3
  <2>2. CASE k # n
    <3>1. frames'[k] = frames[k] /\ frames'[k + 1].index = frames[k + 1].index /\ k < n
      <4>1. k \in 1..(n - 1) /\ k + 1 \in 1..n /\ k < n
        <5> HIDE DEF n
        <5> QED BY <1>3, <2>2
      <4> QED BY <1>2, <1>4, <4>1
    <3> QED BY <1>3, <3>1 DEF FramesAreCalls
  <2> QED BY <2>1, <2>2
<1>7. FramesAreCalls'
  <2> HIDE DEF n
  <2>1. open' = {frames'[k].index : k \in DOMAIN frames'} /\ open' \cap finished' = {}
    BY <1>1, <1>3, <1>4 DEF FramesAreCalls
  <2>2. \A j, k \in DOMAIN frames' : frames'[j].index = frames'[k].index => j = k
    BY <1>3, <1>4 DEF FramesAreCalls
  <2>3. \A k \in 1..n : Callees(module', frames'[k].index) = Callees(module, frames[k].index)
    BY <1>1, <1>4
  <2>4. \A k \in DOMAIN frames' :
          /\ \A j \in 1..(frames'[k].next - 1) :
               j \in DOMAIN Callees(module', frames'[k].index) =>
                 Callees(module', frames'[k].index)[j] \in finished'
          /\ k < Len(frames') =>
               /\ frames'[k].next \in DOMAIN Callees(module', frames'[k].index)
               /\ Callees(module', frames'[k].index)[frames'[k].next] = frames'[k + 1].index
    BY <1>1, <1>2, <1>3, <1>6, <2>3
  <2> QED BY <2>1, <2>2, <2>4 DEF FramesAreCalls
<1>8. frames' # << >>
  BY <1>2, <1>3
<1>9. FinishedIsSafe'
  BY <1>1, <1>3, <1>4, <1>8 DEF FinishedIsSafe, Acyclic, CalleesOf
<1> QED BY <1>7, <1>9

LEMMA DescendKeepsSearch ==
  ASSUME TypeOK, Descend, FramesAreCalls, FinishedIsSafe
  PROVE  FramesAreCalls' /\ FinishedIsSafe'
<1> DEFINE n == Len(frames)
           c == Callee
<1>1. /\ frames # << >> /\ Top.next <= Len(Body) /\ c \notin open /\ c \notin finished
      /\ frames' = Append(frames, [index |-> c, next |-> 1])
      /\ open' = open \cup {c} /\ finished' = finished
      /\ module' = module /\ entry' = entry
  BY DEF Descend, InCall, reader, CallsBack, Frame
<1>2. n \in Nat \ {0} /\ DOMAIN frames = 1..n /\ frames \in Seq([index : Index, next : Nat \ {0}])
  BY <1>1, TopFacts DEF TypeOK
<1>3. /\ Len(frames') = n + 1
      /\ \A k \in 1..n : frames'[k] = frames[k]
      /\ frames'[n + 1] = [index |-> c, next |-> 1]
      /\ DOMAIN frames' = 1..(n + 1)
  BY <1>1, <1>2
<1>4. /\ frames[n].next \in DOMAIN Callees(module, frames[n].index)
      /\ Callees(module, frames[n].index)[frames[n].next] = c
  BY <1>1, TopFacts DEF Callee, Body
<1> HIDE DEF n, c
<1>5. \A k \in 1..n : frames[k].index # c
  BY <1>1, <1>2 DEF FramesAreCalls
<1>6. open' = {frames'[k].index : k \in DOMAIN frames'} /\ open' \cap finished' = {}
  <2>1. {frames'[k].index : k \in 1..(n + 1)} = {frames[k].index : k \in 1..n} \cup {c}
    <3>1. 1..(n + 1) = (1..n) \cup {n + 1}
      BY <1>2
    <3>2. \A k \in 1..n : frames'[k].index = frames[k].index
      BY <1>3
    <3>3. frames'[n + 1].index = c
      BY <1>3
    <3>4. ASSUME NEW k \in 1..(n + 1)
          PROVE  frames'[k].index \in {frames[j].index : j \in 1..n} \cup {c}
      <4>1. CASE k \in 1..n
        BY <3>2, <4>1
      <4>2. CASE k = n + 1
        BY <3>3, <4>2
      <4> QED BY <3>1, <4>1, <4>2
    <3>5. ASSUME NEW j \in 1..n PROVE frames[j].index \in {frames'[k].index : k \in 1..(n + 1)}
      BY <3>1, <3>2
    <3>6. c \in {frames'[k].index : k \in 1..(n + 1)}
      BY <3>1, <3>3
    <3> QED BY <3>4, <3>5, <3>6
  <2>2. open = {frames[k].index : k \in 1..n}
    BY <1>2 DEF FramesAreCalls
  <2>3. open' = {frames'[k].index : k \in DOMAIN frames'}
    BY <1>1, <1>3, <2>1, <2>2
  <2>4. open' \cap finished' = {}
    BY <1>1 DEF FramesAreCalls
  <2> QED BY <2>3, <2>4
<1>7. \A j, k \in DOMAIN frames' : frames'[j].index = frames'[k].index => j = k
  <2> SUFFICES ASSUME NEW j \in 1..(n + 1), NEW k \in 1..(n + 1),
                      frames'[j].index = frames'[k].index
               PROVE  j = k
    BY <1>3
  <2>1. CASE j \in 1..n /\ k \in 1..n
    BY <1>2, <1>3, <2>1 DEF FramesAreCalls
  <2>2. CASE j = n + 1 \/ k = n + 1
    BY <1>2, <1>3, <1>5, <2>2
  <2> QED BY <1>2, <2>1, <2>2
<1>8. ASSUME NEW k \in 1..(n + 1)
      PROVE  /\ \A j \in 1..(frames'[k].next - 1) :
                  j \in DOMAIN Callees(module, frames'[k].index) =>
                    Callees(module, frames'[k].index)[j] \in finished
             /\ k < n + 1 =>
                  /\ frames'[k].next \in DOMAIN Callees(module, frames'[k].index)
                  /\ Callees(module, frames'[k].index)[frames'[k].next] = frames'[k + 1].index
  <2>1. CASE k = n + 1
    <3>1. frames'[k].next - 1 = 0
      BY <1>3, <2>1
    <3> QED BY <1>2, <2>1, <3>1
  <2>2. CASE k = n
    <3>1. k \in 1..n /\ frames'[k] = frames[k] /\ frames'[k + 1].index = c
      BY <1>2, <1>3, <2>2
    <3> QED BY <1>2, <1>4, <2>2, <3>1 DEF FramesAreCalls
  <2>3. CASE k \in 1..n /\ k # n
    <3>1. k + 1 \in 1..n /\ k < n
      BY <1>2, <2>3
    <3>2. frames'[k] = frames[k] /\ frames'[k + 1] = frames[k + 1]
      BY <1>3, <2>3, <3>1
    <3> QED BY <1>2, <2>3, <3>1, <3>2 DEF FramesAreCalls, n
  <2> QED BY <1>2, <2>1, <2>2, <2>3
<1>9. \A k \in DOMAIN frames' :
        /\ \A j \in 1..(frames'[k].next - 1) :
             j \in DOMAIN Callees(module', frames'[k].index) =>
               Callees(module', frames'[k].index)[j] \in finished'
        /\ k < Len(frames') =>
             /\ frames'[k].next \in DOMAIN Callees(module', frames'[k].index)
             /\ Callees(module', frames'[k].index)[frames'[k].next] = frames'[k + 1].index
  BY <1>1, <1>3, <1>8
<1>10. FramesAreCalls'
  BY <1>6, <1>7, <1>9 DEF FramesAreCalls
<1>11. frames' # << >> /\ frames'[1].index = frames[1].index
  BY <1>2, <1>3
<1>12. FinishedIsSafe'
  BY <1>1, <1>11 DEF FinishedIsSafe, Acyclic, CalleesOf
<1> QED BY <1>10, <1>12

(* When walk() returns from the top frame every callee of its function has   *)
(* been passed over, so it may be coloured Done.                             *)
LEMMA ReturnFacts ==
  ASSUME TypeOK, Return, FramesAreCalls, FinishedIsSafe
  PROVE  /\ Top.index \notin finished
         /\ CalleesOf(Top.index) \subseteq finished
         /\ Acyclic(finished')
         /\ \A i \in finished' : CalleesOf(i) \subseteq finished'
<1>1. frames # << >> /\ Top.next > Len(Body) /\ finished' = finished \cup {Top.index}
  BY DEF Return
<1>2. Top.index \notin finished
  BY <1>1, TopFacts DEF FramesAreCalls
<1>3. \A j \in 1..Len(Body) : Body[j] \in finished
  <2> SUFFICES ASSUME NEW j \in 1..Len(Body) PROVE Body[j] \in finished
    OBVIOUS
  <2>1. j \in 1..(frames[Len(frames)].next - 1)
    BY <1>1, TopFacts
  <2>2. Len(frames) \in DOMAIN frames /\ j \in DOMAIN Callees(module, frames[Len(frames)].index)
    BY <1>1, TopFacts DEF Body
  <2> QED BY <1>1, <2>1, <2>2, TopFacts DEF FramesAreCalls, Body
<1>4. CalleesOf(Top.index) \subseteq finished
  BY <1>1, <1>3, TopFacts DEF CalleesOf, Body, ToSet
<1>5. Acyclic(finished) /\ \A i \in finished : CalleesOf(i) \subseteq finished
  BY DEF FinishedIsSafe
<1> QED BY <1>1, <1>2, <1>4, <1>5, AddSafe

LEMMA ReturnKeepsSearch ==
  ASSUME TypeOK, Return, FramesAreCalls, FinishedIsSafe
  PROVE  FramesAreCalls' /\ FinishedIsSafe'
<1> DEFINE n == Len(frames)
           t == Top.index
<1>1. /\ frames # << >>
      /\ frames' = IF n = 1 THEN << >> ELSE Passed(Front(frames))
      /\ open' = open \ {t} /\ finished' = finished \cup {t}
      /\ module' = module /\ entry' = entry
  BY DEF Return, reader
<1>2. n \in Nat \ {0} /\ DOMAIN frames = 1..n /\ t = frames[n].index
  BY <1>1, TopFacts
<1>3. /\ Acyclic(finished') /\ \A i \in finished' : CalleesOf(i) \subseteq finished'
      /\ t \notin finished
  BY ReturnFacts
<1>4. Acyclic(finished)' /\ \A i \in finished' : CalleesOf(i)' \subseteq finished'
  BY <1>1, <1>3 DEF Acyclic, CalleesOf
<1>5. CASE n = 1
  <2>1. frames' = << >> /\ open = {t} /\ t = entry
    BY <1>1, <1>2, <1>5 DEF FramesAreCalls, FinishedIsSafe
  <2>2. FramesAreCalls'
    <3>1. DOMAIN frames' = {} /\ open' = {}
      BY <1>1, <2>1
    <3> QED BY <3>1 DEF FramesAreCalls
  <2>3. FinishedIsSafe'
    BY <1>1, <1>4, <2>1 DEF FinishedIsSafe
  <2> QED BY <2>2, <2>3
<1>6. CASE n # 1
  <2> DEFINE l == n - 1
  <2>1. /\ Front(frames) \in Seq([index : Index, next : Nat \ {0}])
        /\ Len(Front(frames)) = l
        /\ \A k \in 1..l : Front(frames)[k] = frames[k]
    <3>1. frames \in Seq([index : Index, next : Nat \ {0}])
      BY DEF TypeOK
    <3> QED BY <1>1, <3>1, FrontType
  <2>2. l \in Nat \ {0} /\ n = l + 1 /\ Front(frames) # << >>
    BY <1>2, <1>6, <2>1
  <2>3. /\ frames' \in Seq([index : Index, next : Nat \ {0}])
        /\ Len(frames') = l
        /\ \A k \in 1..(l - 1) : frames'[k] = frames[k]
        /\ frames'[l] = [index |-> frames[l].index, next |-> frames[l].next + 1]
    <3>1. frames' = Passed(Front(frames))
      BY <1>1, <1>6
    <3>2. \A k \in 1..(l - 1) : k \in 1..l
      BY <2>2
    <3>3. l \in 1..l
      BY <2>2
    <3> DEFINE g == Front(frames)
    <3>4. /\ g \in Seq([index : Index, next : Nat \ {0}]) /\ g # << >> /\ Len(g) = l
          /\ \A k \in 1..l : g[k] = frames[k]
          /\ frames' = Passed(g)
      BY <2>1, <2>2, <3>1
    <3> HIDE DEF g, l
    <3> QED BY <3>2, <3>3, <3>4, FrameTypes
  <2>4. DOMAIN frames' = 1..l
    BY <2>2, <2>3
  <2> HIDE DEF l, n, t
  <2>5. \A k \in 1..l : frames'[k].index = frames[k].index /\ k \in 1..n
    BY <2>2, <2>3
  <2>6. open' = {frames'[k].index : k \in DOMAIN frames'} /\ open' \cap finished' = {}
    <3>1. open = {frames[k].index : k \in 1..n}
      BY <1>2 DEF FramesAreCalls
    <3>2. \A k \in 1..l : frames[k].index # t
      BY <1>2, <2>2, <2>5 DEF FramesAreCalls
    <3>3. \A k \in 1..n : k \in 1..l \/ k = n
      BY <2>2
    <3>4. open \ {t} = {frames[k].index : k \in 1..l}
      BY <1>2, <2>5, <3>1, <3>2, <3>3
    <3>5. open' = {frames'[k].index : k \in DOMAIN frames'}
      BY <1>1, <2>4, <2>5, <3>4
    <3> QED BY <1>1, <3>5 DEF FramesAreCalls
  <2>7. \A j, k \in DOMAIN frames' : frames'[j].index = frames'[k].index => j = k
    BY <1>2, <2>4, <2>5 DEF FramesAreCalls
  <2>8. ASSUME NEW k \in 1..l
        PROVE  /\ \A j \in 1..(frames'[k].next - 1) :
                    j \in DOMAIN Callees(module, frames[k].index) =>
                      Callees(module, frames[k].index)[j] \in finished'
               /\ k < l =>
                    /\ frames'[k].next \in DOMAIN Callees(module, frames[k].index)
                    /\ Callees(module, frames[k].index)[frames'[k].next] = frames'[k + 1].index
    <3>1. k \in 1..n /\ k < n /\ k + 1 \in 1..n /\ n = Len(frames)
      BY <2>2 DEF n
    <3>2. Callees(module, frames[k].index)[frames[k].next] = frames[k + 1].index
      BY <1>2, <3>1 DEF FramesAreCalls
    <3>3. CASE k = l
      <4>1. frames'[k].next - 1 = frames[k].next /\ frames[k].next \in Nat \ {0}
        <5>1. frames[k].next \in Nat \ {0}
          BY <1>1, <3>1, TopFacts
        <5> QED BY <2>3, <3>3, <5>1
      <4>2. frames[k + 1].index = t
        BY <1>2, <2>2, <3>3
      <4>3. \A j \in 1..(frames[k].next - 1) :
              j \in DOMAIN Callees(module, frames[k].index) =>
                Callees(module, frames[k].index)[j] \in finished
        BY <1>2, <3>1 DEF FramesAreCalls
      <4>4. \A j \in 1..frames[k].next : j \in 1..(frames[k].next - 1) \/ j = frames[k].next
        BY <4>1
      <4> QED BY <1>1, <3>2, <3>3, <4>1, <4>2, <4>3, <4>4
    <3>4. CASE k # l
      <4>1. k \in 1..(l - 1) /\ k + 1 \in 1..l /\ k < l
        BY <2>2, <3>4
      <4>2. frames'[k] = frames[k] /\ frames'[k + 1].index = frames[k + 1].index
        BY <2>3, <2>5, <4>1
      <4> QED BY <1>1, <1>2, <3>1, <3>2, <4>2 DEF FramesAreCalls
    <3> QED BY <3>3, <3>4
  <2>9. \A k \in DOMAIN frames' :
          /\ \A j \in 1..(frames'[k].next - 1) :
               j \in DOMAIN Callees(module', frames'[k].index) =>
                 Callees(module', frames'[k].index)[j] \in finished'
          /\ k < Len(frames') =>
               /\ frames'[k].next \in DOMAIN Callees(module', frames'[k].index)
               /\ Callees(module', frames'[k].index)[frames'[k].next] = frames'[k + 1].index
    BY <1>1, <2>3, <2>4, <2>5, <2>8
  <2>10. FramesAreCalls'
    BY <2>6, <2>7, <2>9 DEF FramesAreCalls
  <2>11. frames' # << >> /\ frames'[1].index = frames[1].index
    BY <2>2, <2>3, <2>5
  <2>12. FinishedIsSafe'
    BY <1>1, <1>4, <2>11 DEF FinishedIsSafe
  <2> QED BY <2>10, <2>12
<1> QED BY <1>5, <1>6

(* At every moment of every search its frames are a chain of calls from the  *)
(* entrypoint, and what is coloured Done calls only what is Done and never   *)
(* in a circle, whatever the call graph of the module.                       *)
THEOREM SearchInvariant == Spec => []SearchInv
<1>1. Init => SearchInv
  BY DEF Init, SearchInv
<1>2. TypeOK /\ SearchInv /\ [Next]_vars => SearchInv'
  <2> SUFFICES ASSUME TypeOK, SearchInv, [Next]_vars, phase' = "cycle"
               PROVE  FramesAreCalls' /\ FinishedIsSafe'
    BY DEF SearchInv
  <2>1. ASSUME phase = "cycle" PROVE FramesAreCalls /\ FinishedIsSafe /\ Parsed
    BY <2>1 DEF SearchInv, TypeOK
  <2>2. CASE ReadModule
    <3>1. ~Parsed
      BY <2>2, ReadingGoesOn DEF Parsed
    <3> QED BY <2>1, <2>2, <3>1 DEF ReadModule, estimator
  <2>3. CASE StartCycleSearch
    BY <2>3, StartSearch
  <2>4. CASE PassFinished
    BY <2>1, <2>4, PassKeepsSearch DEF PassFinished, InCall
  <2>5. CASE Descend
    BY <2>1, <2>5, DescendKeepsSearch DEF Descend, InCall
  <2>6. CASE Return
    BY <2>1, <2>6, ReturnKeepsSearch DEF Return
  <2>7. CASE UNCHANGED vars
    BY <2>1, <2>7 DEF vars, reader, estimator, FramesAreCalls, FinishedIsSafe, Acyclic, CalleesOf
  <2>8. CASE EstimateFromSource \/ StartWalk \/ SkipReached \/ Reach \/ ReportRecursion
               \/ Estimate \/ Detect
    BY <2>8 DEF EstimateFromSource, StartWalk, SkipReached, Reach, ReportRecursion, Estimate,
                Detect, Emit
  <2> QED BY <2>2, <2>3, <2>4, <2>5, <2>6, <2>7, <2>8 DEF Next, Search
<1> QED BY <1>1, <1>2, TypeCorrect, PTL DEF Spec

(* Recursion is reported only when the callee at hand is the function of a   *)
(* frame still open: from there each frame's function calls the next one's,  *)
(* and the last calls the first, a circle of calls the module really has     *)
(* ("recursion detected through function index", budget.rs 496-500).         *)
THEOREM ReportedRecursionIsReal ==
  Spec => [][ReportRecursion =>
               \E k \in DOMAIN frames :
                 /\ Callees(module, Top.index)[Top.next] = frames[k].index
                 /\ \A j \in k..(Len(frames) - 1) :
                      frames[j + 1].index \in CalleesOf(frames[j].index)]_vars
<1>1. ASSUME TypeOK, SearchInv, ReportRecursion
      PROVE  \E k \in DOMAIN frames :
               /\ Callees(module, Top.index)[Top.next] = frames[k].index
               /\ \A j \in k..(Len(frames) - 1) :
                    frames[j + 1].index \in CalleesOf(frames[j].index)
  <2>1. frames # << >> /\ FramesAreCalls /\ Callee \in open
    BY <1>1 DEF ReportRecursion, InCall, CallsBack, SearchInv
  <2>2. PICK k \in DOMAIN frames : Callee = frames[k].index
    BY <2>1 DEF FramesAreCalls
  <2>3. ASSUME NEW j \in k..(Len(frames) - 1)
        PROVE  frames[j + 1].index \in CalleesOf(frames[j].index)
    <3>1. j \in DOMAIN frames /\ j < Len(frames)
      BY <1>1, <2>1, <2>2, TopFacts
    <3> QED BY <2>1, <3>1 DEF FramesAreCalls, CalleesOf, ToSet
  <2> QED BY <2>2, <2>3 DEF Callee, Body
<1> QED BY <1>1, TypeCorrect, SearchInvariant, PTL

(* An estimate is summed up only when no recursion can occur: the entrypoint *)
(* and everything it can lead to is Done, a set closed under calls in which  *)
(* no functions call each other in a circle.                                 *)
THEOREM EstimateOnlyWithoutRecursion ==
  Spec => [][Estimate => /\ entry \in finished
                         /\ \A i \in finished : CalleesOf(i) \subseteq finished
                         /\ Acyclic(finished)]_vars
<1>1. ASSUME SearchInv, Estimate
      PROVE  /\ entry \in finished
             /\ \A i \in finished : CalleesOf(i) \subseteq finished
             /\ Acyclic(finished)
  BY <1>1 DEF SearchInv, Estimate, FinishedIsSafe
<1> QED BY <1>1, SearchInvariant, PTL

-----------------------------------------------------------------------------
(* Once an entrypoint has been estimated the module is settled.              *)
Settled == report # << >> => reading \in {"absent", "parsed"}

LEMMA EmitSettles ==
  ASSUME TypeOK, Settled, \A k \in DOMAIN report : EntryAgrees(module, report[k]),
         EstimateFromSource \/ ReportRecursion \/ Estimate
  PROVE  Settled' /\ \A k \in DOMAIN report' : EntryAgrees(module', report'[k])
<1>1. reading \in {"absent", "parsed"} /\ todo # << >>
  BY DEF EstimateFromSource, ReportRecursion, Estimate, Ready, InCall, TypeOK, Parsed
<1>2. reading' = reading /\ module' = module
  BY DEF EstimateFromSource, ReportRecursion, Estimate, Emit, reader
<1>3. \/ report' = report
      \/ \E b \in EntryBudget : EntryAgrees(module, b) /\ report' = Append(report, b)
  <2>1. CASE EstimateFromSource
    BY <1>1, <2>1, AnswersSound, EmitTypes DEF EstimateFromSource
  <2>2. CASE ReportRecursion
    BY <1>1, <2>2, AnswersSound, EmitTypes DEF ReportRecursion
  <2>3. CASE Estimate
    BY <1>1, <2>3, AnswersSound, EmitTypes DEF Estimate
  <2> QED BY <2>1, <2>2, <2>3
<1>5. \A k \in DOMAIN report' : EntryAgrees(module, report'[k])
  <2>1. CASE report' = report
    BY <2>1
  <2>2. ASSUME NEW b \in EntryBudget, EntryAgrees(module, b), report' = Append(report, b)
        PROVE  \A k \in DOMAIN report' : EntryAgrees(module, report'[k])
    <3>1. report \in Seq(EntryBudget)
      BY DEF TypeOK
    <3>2. /\ DOMAIN report' = 1..(Len(report) + 1)
          /\ \A k \in 1..Len(report) : report'[k] = report[k]
          /\ report'[Len(report) + 1] = b
          /\ DOMAIN report = 1..Len(report) /\ Len(report) \in Nat
      BY <2>2, <3>1, AppendProperties
    <3>3. \A k \in 1..(Len(report) + 1) : k \in 1..Len(report) \/ k = Len(report) + 1
      BY <3>2
    <3> QED BY <2>2, <3>2, <3>3
  <2> QED BY <1>3, <2>1, <2>2
<1> QED BY <1>1, <1>2, <1>5 DEF Settled

(* The figures of an axis never contradict each other, whatever the sums     *)
(* come to: the estimate is no smaller than the lower bound, even when one   *)
(* of the sums wrapped and the other did not, a bound is given exactly where *)
(* nothing is unbounded, and every limit reported broken lies below the      *)
(* estimate (BudgetEstimate, budget.rs 79-138).                              *)
THEOREM EstimatesAgree == Spec => []FiguresAgree
<1> DEFINE Agree == \A k \in DOMAIN report : EntryAgrees(module, report[k])
<1>1. Init => Settled /\ Agree
  BY DEF Init, Settled
<1>2. TypeOK /\ Settled /\ Agree /\ [Next]_vars => Settled' /\ Agree'
  <2> SUFFICES ASSUME TypeOK, Settled, Agree, [Next]_vars PROVE Settled' /\ Agree'
    OBVIOUS
  <2>1. CASE ReadModule
    <3>1. report = << >> /\ report' = report
      BY <2>1, ReadingGoesOn DEF Settled, ReadModule, estimator
    <3> QED BY <3>1 DEF Settled
  <2>2. CASE EstimateFromSource \/ ReportRecursion \/ Estimate
    BY <2>2, EmitSettles
  <2>3. CASE StartWalk \/ SkipReached \/ Reach \/ Search \/ Detect \/ UNCHANGED vars
    <3>1. report' = report /\ module' = module /\ reading' = reading
      BY <2>3 DEF StartWalk, SkipReached, Reach, Search, StartCycleSearch, PassFinished,
                  Descend, Return, Detect, vars, estimator, reader
    <3> QED BY <3>1 DEF Settled
  <2> QED BY <2>1, <2>2, <2>3 DEF Next
<1>3. Agree => FiguresAgree
  BY DEF FiguresAgree, EntryAgrees
<1> QED BY <1>1, <1>2, <1>3, TypeCorrect, PTL DEF Spec

(* Counting one position more.                                               *)
LEMMA CountOneMore ==
  ASSUME NEW A, NEW B, NEW n \in Nat, A \subseteq 1..n
  PROVE  /\ IsFiniteSet(A) /\ Cardinality(A) \in Nat
         /\ B = A \cup {n + 1} => Cardinality(B) = Cardinality(A) + 1 /\ IsFiniteSet(B)
<1>1. IsFiniteSet(1..n)
  BY FS_Interval
<1>2. IsFiniteSet(A)
  BY <1>1, FS_Subset
<1>3. n + 1 \notin A
  OBVIOUS
<1> QED BY <1>2, <1>3, FS_AddElement, FS_CardinalityType

-----------------------------------------------------------------------------
(* What is left of a sequence that is read from its front.                   *)
Suffix(all, rest) ==
  /\ Len(rest) <= Len(all)
  /\ \A k \in 1..Len(rest) : rest[k] = all[Len(all) - Len(rest) + k]

LEMMA SuffixStep ==
  ASSUME NEW S, NEW all \in Seq(S), NEW rest \in Seq(S), Suffix(all, rest), rest # << >>
  PROVE  /\ Len(all) - Len(rest) \in Nat
         /\ Len(all) - Len(Tail(rest)) = Len(all) - Len(rest) + 1
         /\ Len(all) - Len(rest) + 1 \in 1..Len(all)
         /\ Head(rest) = all[Len(all) - Len(rest) + 1]
         /\ Suffix(all, Tail(rest))
<1>1. /\ Len(rest) \in Nat \ {0} /\ Len(all) \in Nat
      /\ Len(Tail(rest)) = Len(rest) - 1
      /\ \A k \in 1..(Len(rest) - 1) : Tail(rest)[k] = rest[k + 1]
      /\ Head(rest) = rest[1]
  BY HeadTailProperties
<1>2. Len(rest) <= Len(all)
  BY DEF Suffix
<1>3. Head(rest) = all[Len(all) - Len(rest) + 1]
  BY <1>1 DEF Suffix
<1>4. \A k \in 1..(Len(rest) - 1) : Tail(rest)[k] = all[Len(all) - (Len(rest) - 1) + k]
  <2> TAKE k \in 1..(Len(rest) - 1)
  <2>1. k + 1 \in 1..Len(rest) /\ Len(all) - Len(rest) + (k + 1) = Len(all) - (Len(rest) - 1) + k
    BY <1>1
  <2> QED BY <1>1, <2>1 DEF Suffix
<1> QED BY <1>1, <1>2, <1>3, <1>4 DEF Suffix

-----------------------------------------------------------------------------
(* The blocks open after r operators of a body: pos holds where each of them *)
(* was opened, outermost first.                                              *)
OpensBlock(body, q) == body[q].op \in {"loop", "block"}

OpenAt(body, r, bs, pos) ==
  /\ \A j \in 1..Len(bs) :
       /\ pos[j] \in 1..r
       /\ bs[j] = (body[pos[j]].op = "loop")
       /\ OpensBlock(body, pos[j])
       /\ StillOpen(body, pos[j], r + 1)
       /\ Opens(body, pos[j], r) - Closes(body, pos[j], r) = Len(bs) - j + 1
  /\ \A q \in 1..r : OpensBlock(body, q) /\ StillOpen(body, q, r + 1)
                       => \E j \in 1..Len(bs) : pos[j] = q

LEMMA DepthStep ==
  ASSUME NEW body, NEW r \in Nat, NEW q \in 1..(r + 1)
  PROVE  /\ Opens(body, q, r) \in Nat /\ Closes(body, q, r) \in Nat
         /\ Opens(body, q, r + 1) = Opens(body, q, r) + (IF OpensBlock(body, r + 1) THEN 1 ELSE 0)
         /\ Closes(body, q, r + 1)
              = Closes(body, q, r) + (IF body[r + 1].op = "end" THEN 1 ELSE 0)
<1> DEFINE O(n) == {i \in q..n : body[i].op \in {"loop", "block"}}
           C(n) == {i \in q..n : body[i].op = "end"}
<1>1. q..(r + 1) = (q..r) \cup {r + 1}
  OBVIOUS
<1>2. O(r) \subseteq 1..r /\ C(r) \subseteq 1..r
  OBVIOUS
<1>3. /\ OpensBlock(body, r + 1) => O(r + 1) = O(r) \cup {r + 1}
      /\ ~OpensBlock(body, r + 1) => O(r + 1) = O(r)
      /\ body[r + 1].op = "end" => C(r + 1) = C(r) \cup {r + 1}
      /\ body[r + 1].op # "end" => C(r + 1) = C(r)
  BY <1>1 DEF OpensBlock
<1>4. /\ Opens(body, q, r) = Cardinality(O(r)) /\ Opens(body, q, r + 1) = Cardinality(O(r + 1))
      /\ Closes(body, q, r) = Cardinality(C(r)) /\ Closes(body, q, r + 1) = Cardinality(C(r + 1))
  BY DEF Opens, Closes
<1> HIDE DEF O, C
<1>5. Cardinality(O(r)) \in Nat /\ Cardinality(C(r)) \in Nat
  BY <1>2, CountOneMore
<1>6. Cardinality(O(r + 1)) = Cardinality(O(r)) + (IF OpensBlock(body, r + 1) THEN 1 ELSE 0)
  <2>1. CASE OpensBlock(body, r + 1)
    <3>1. Cardinality(O(r + 1)) = Cardinality(O(r)) + 1
      BY <1>2, <1>3, <2>1, CountOneMore
    <3> QED BY <2>1, <3>1
  <2>2. CASE ~OpensBlock(body, r + 1)
    BY <1>3, <1>5, <2>2
  <2> QED BY <2>1, <2>2
<1>7. Cardinality(C(r + 1)) = Cardinality(C(r)) + (IF body[r + 1].op = "end" THEN 1 ELSE 0)
  <2>1. CASE body[r + 1].op = "end"
    <3>1. Cardinality(C(r + 1)) = Cardinality(C(r)) + 1
      BY <1>2, <1>3, <2>1, CountOneMore
    <3> QED BY <2>1, <3>1
  <2>2. CASE body[r + 1].op # "end"
    BY <1>3, <1>5, <2>2
  <2> QED BY <2>1, <2>2
<1> QED BY <1>4, <1>5, <1>6, <1>7

LEMMA DepthCases ==
  ASSUME NEW body, NEW r \in Nat, NEW q \in 1..(r + 1)
  PROVE  /\ Opens(body, q, r) \in Nat /\ Closes(body, q, r) \in Nat
         /\ OpensBlock(body, r + 1) => Opens(body, q, r + 1) = Opens(body, q, r) + 1
         /\ ~OpensBlock(body, r + 1) => Opens(body, q, r + 1) = Opens(body, q, r)
         /\ body[r + 1].op = "end" => Closes(body, q, r + 1) = Closes(body, q, r) + 1
         /\ body[r + 1].op # "end" => Closes(body, q, r + 1) = Closes(body, q, r)
<1>1. Opens(body, q, r) \in Nat /\ Closes(body, q, r) \in Nat
  BY DepthStep
<1>2. Opens(body, q, r + 1) = Opens(body, q, r) + (IF OpensBlock(body, r + 1) THEN 1 ELSE 0)
  BY DepthStep
<1>3. Closes(body, q, r + 1) = Closes(body, q, r) + (IF body[r + 1].op = "end" THEN 1 ELSE 0)
  BY DepthStep
<1> QED BY <1>1, <1>2, <1>3

LEMMA StillOpenStep ==
  ASSUME NEW body, NEW r \in Nat
  PROVE  /\ \A q \in 1..r :
              StillOpen(body, q, r + 2) <=>
                StillOpen(body, q, r + 1) /\ Opens(body, q, r + 1) > Closes(body, q, r + 1)
         /\ StillOpen(body, r + 1, r + 2)
<1>1. ASSUME NEW q \in 1..r
      PROVE  (q + 1)..((r + 2) - 1) = ((q + 1)..((r + 1) - 1)) \cup {r + 1}
  OBVIOUS
<1>2. ((r + 1) + 1)..((r + 2) - 1) = {}
  OBVIOUS
<1>3. ASSUME NEW q \in 1..r
      PROVE  StillOpen(body, q, r + 2) <=>
                StillOpen(body, q, r + 1) /\ Opens(body, q, r + 1) > Closes(body, q, r + 1)
  BY <1>1 DEF StillOpen
<1>4. StillOpen(body, r + 1, r + 2)
  BY <1>2 DEF StillOpen
<1> QED BY <1>3, <1>4

(* An operator that neither opens nor closes a block leaves what is open.    *)
LEMMA StackKept ==
  ASSUME NEW body, NEW r \in Nat, NEW bs \in Seq(BOOLEAN), NEW pos, OpenAt(body, r, bs, pos),
         ~OpensBlock(body, r + 1), body[r + 1].op # "end"
  PROVE  OpenAt(body, r + 1, bs, pos)
<1>1. Len(bs) \in Nat
  OBVIOUS
<1>2. \A q \in 1..r : /\ Opens(body, q, r + 1) = Opens(body, q, r)
                      /\ Closes(body, q, r + 1) = Closes(body, q, r)
                      /\ Opens(body, q, r) \in Nat /\ Closes(body, q, r) \in Nat
  <2> TAKE q \in 1..r
  <2>1. q \in 1..(r + 1)
    OBVIOUS
  <2> QED BY <2>1, DepthCases
<1>3. ASSUME NEW j \in 1..Len(bs)
      PROVE  /\ pos[j] \in 1..r /\ pos[j] \in 1..(r + 1)
             /\ bs[j] = (body[pos[j]].op = "loop")
             /\ OpensBlock(body, pos[j])
             /\ StillOpen(body, pos[j], r + 2)
             /\ Opens(body, pos[j], r + 1) - Closes(body, pos[j], r + 1) = Len(bs) - j + 1
  <2>1. /\ pos[j] \in 1..r /\ StillOpen(body, pos[j], r + 1)
        /\ Opens(body, pos[j], r) - Closes(body, pos[j], r) = Len(bs) - j + 1
        /\ bs[j] = (body[pos[j]].op = "loop") /\ OpensBlock(body, pos[j])
    BY DEF OpenAt
  <2>2. Opens(body, pos[j], r + 1) - Closes(body, pos[j], r + 1) = Len(bs) - j + 1
    BY <1>2, <2>1
  <2>3. Opens(body, pos[j], r + 1) > Closes(body, pos[j], r + 1)
    BY <1>1, <1>2, <2>1, <2>2
  <2>4. pos[j] \in 1..(r + 1)
    BY <2>1
  <2>5. StillOpen(body, pos[j], r + 2)
    BY <2>1, <2>3, StillOpenStep
  <2> QED BY <2>1, <2>2, <2>4, <2>5
<1>4. ASSUME NEW q \in 1..(r + 1), OpensBlock(body, q), StillOpen(body, q, r + 2)
      PROVE  \E j \in 1..Len(bs) : pos[j] = q
  <2>1. q \in 1..r
    BY <1>4
  <2> QED BY <1>4, <2>1, StillOpenStep DEF OpenAt
<1>5. (r + 1) + 1 = r + 2
  OBVIOUS
<1> QED BY <1>3, <1>4, <1>5 DEF OpenAt

(* A loop or block is opened inside all that are open.                       *)
LEMMA OneDeeper ==
  ASSUME NEW a \in Nat, NEW b \in Nat, NEW l \in Nat, NEW j \in 1..l, a - b = l - j + 1
  PROVE  (a + 1) - b = (l + 1) - j + 1 /\ a + 1 > b
OBVIOUS

LEMMA OneShallower ==
  ASSUME NEW a \in Nat, NEW b \in Nat, NEW l \in Nat, NEW j \in 1..(l - 1), a - b = l - j + 1
  PROVE  a - (b + 1) = (l - 1) - j + 1 /\ a > b + 1
OBVIOUS

LEMMA StackPushed ==
  ASSUME NEW body, NEW r \in Nat, NEW bs \in Seq(BOOLEAN), NEW pos, OpenAt(body, r, bs, pos),
         OpensBlock(body, r + 1), body[r + 1].op # "end"
  PROVE  \E new : OpenAt(body, r + 1, Append(bs, body[r + 1].op = "loop"), new)
<1> DEFINE l == Len(bs)
           longer == Append(bs, body[r + 1].op = "loop")
           new == [j \in 1..(l + 1) |-> IF j = l + 1 THEN r + 1 ELSE pos[j]]
<1>1. /\ l \in Nat /\ Len(longer) = l + 1
      /\ \A j \in 1..l : longer[j] = bs[j]
      /\ longer[l + 1] = (body[r + 1].op = "loop")
  <2>1. (body[r + 1].op = "loop") \in BOOLEAN
    OBVIOUS
  <2> QED BY <2>1, AppendProperties
<1>2. \A q \in 1..r : /\ Opens(body, q, r + 1) = Opens(body, q, r) + 1
                      /\ Closes(body, q, r + 1) = Closes(body, q, r)
                      /\ Opens(body, q, r) \in Nat /\ Closes(body, q, r) \in Nat
  <2> TAKE q \in 1..r
  <2>1. q \in 1..(r + 1)
    OBVIOUS
  <2> QED BY <2>1, DepthCases
<1>3. Opens(body, r + 1, r + 1) = 1 /\ Closes(body, r + 1, r + 1) = 0
  <2>1. /\ {i \in (r + 1)..r : body[i].op \in {"loop", "block"}} = {}
        /\ {i \in (r + 1)..r : body[i].op = "end"} = {}
    OBVIOUS
  <2>2. Opens(body, r + 1, r) = 0 /\ Closes(body, r + 1, r) = 0
    BY <2>1, FS_EmptySet DEF Opens, Closes
  <2>3. r + 1 \in 1..(r + 1)
    OBVIOUS
  <2>4. /\ Opens(body, r + 1, r + 1) = Opens(body, r + 1, r) + 1
        /\ Closes(body, r + 1, r + 1) = Closes(body, r + 1, r)
    BY <2>3, DepthCases
  <2> QED BY <2>2, <2>4
<1> HIDE DEF longer
<1>4. ASSUME NEW j \in 1..(l + 1)
      PROVE  /\ new[j] \in 1..(r + 1)
             /\ longer[j] = (body[new[j]].op = "loop")
             /\ OpensBlock(body, new[j])
             /\ StillOpen(body, new[j], r + 2)
             /\ Opens(body, new[j], r + 1) - Closes(body, new[j], r + 1) = (l + 1) - j + 1
  <2>1. CASE j = l + 1
    <3>1. new[j] = r + 1 /\ (l + 1) - j + 1 = 1
      BY <1>1, <2>1
    <3> QED BY <1>1, <1>3, <2>1, <3>1, StillOpenStep
  <2>2. CASE j # l + 1
    <3>1. j \in 1..l /\ new[j] = pos[j]
      BY <1>1, <2>2
    <3>2. /\ pos[j] \in 1..r /\ StillOpen(body, pos[j], r + 1)
          /\ Opens(body, pos[j], r) - Closes(body, pos[j], r) = l - j + 1
          /\ bs[j] = (body[pos[j]].op = "loop") /\ OpensBlock(body, pos[j])
      BY <3>1 DEF OpenAt
    <3>0. /\ Opens(body, pos[j], r + 1) = Opens(body, pos[j], r) + 1
          /\ Closes(body, pos[j], r + 1) = Closes(body, pos[j], r)
          /\ Opens(body, pos[j], r) \in Nat /\ Closes(body, pos[j], r) \in Nat
      BY <1>2, <3>2
    <3>3. Opens(body, pos[j], r + 1) - Closes(body, pos[j], r + 1) = (l + 1) - j + 1
      BY <1>1, <3>0, <3>1, <3>2, OneDeeper
    <3>4. Opens(body, pos[j], r + 1) > Closes(body, pos[j], r + 1)
      BY <1>1, <3>0, <3>1, <3>2, OneDeeper
    <3>5. StillOpen(body, pos[j], r + 2)
      BY <3>2, <3>4, StillOpenStep
    <3>6. longer[j] = bs[j] /\ pos[j] \in 1..(r + 1)
      BY <1>1, <3>1, <3>2
    <3> QED BY <3>1, <3>2, <3>3, <3>5, <3>6
  <2> QED BY <2>1, <2>2
<1>5. ASSUME NEW q \in 1..(r + 1), OpensBlock(body, q), StillOpen(body, q, r + 2)
      PROVE  \E j \in 1..(l + 1) : new[j] = q
  <2>1. CASE q = r + 1
    BY <1>1, <2>1
  <2>2. CASE q # r + 1
    <3>1. q \in 1..r
      BY <2>2
    <3>2. PICK j \in 1..l : pos[j] = q
      BY <1>5, <3>1, StillOpenStep DEF OpenAt
    <3>3. j \in 1..(l + 1) /\ new[j] = q
      BY <1>1, <3>2
    <3> QED BY <3>3
  <2> QED BY <2>1, <2>2
<1>6. (r + 1) + 1 = r + 2
  OBVIOUS
<1> HIDE DEF new
<1>7. OpenAt(body, r + 1, longer, new)
  BY <1>1, <1>4, <1>5, <1>6 DEF OpenAt
<1> QED BY <1>7 DEF longer

(* The end of a block closes the innermost one that is open, if any.         *)
LEMMA StackPopped ==
  ASSUME NEW body, NEW r \in Nat, NEW bs \in Seq(BOOLEAN), NEW pos, OpenAt(body, r, bs, pos),
         body[r + 1].op = "end"
  PROVE  OpenAt(body, r + 1, IF bs = << >> THEN << >> ELSE Front(bs), pos)
<1> DEFINE l == Len(bs)
           rest == IF bs = << >> THEN << >> ELSE Front(bs)
<1>1. ~OpensBlock(body, r + 1)
  BY DEF OpensBlock
<1>2. \A q \in 1..r : /\ Opens(body, q, r + 1) = Opens(body, q, r)
                      /\ Closes(body, q, r + 1) = Closes(body, q, r) + 1
                      /\ Opens(body, q, r) \in Nat /\ Closes(body, q, r) \in Nat
  <2> TAKE q \in 1..r
  <2>1. q \in 1..(r + 1)
    OBVIOUS
  <2> QED BY <1>1, <2>1, DepthCases
<1>3. /\ l \in Nat /\ Len(rest) \in Nat
      /\ bs = << >> => Len(rest) = 0 /\ l = 0
      /\ bs # << >> => Len(rest) = l - 1
      /\ \A j \in 1..Len(rest) : j \in 1..l /\ rest[j] = bs[j] /\ Len(rest) = l - 1
  <2>1. CASE bs = << >>
    BY <2>1
  <2>2. CASE bs # << >>
    <3>1. Len(Front(bs)) = l - 1 /\ l \in Nat \ {0} /\ \A k \in 1..(l - 1) : Front(bs)[k] = bs[k]
      BY <2>2, FrontType
    <3> QED BY <2>2, <3>1
  <2> QED BY <2>1, <2>2
<1> HIDE DEF rest
<1>4. ASSUME NEW j \in 1..Len(rest)
      PROVE  /\ pos[j] \in 1..(r + 1)
             /\ rest[j] = (body[pos[j]].op = "loop")
             /\ OpensBlock(body, pos[j])
             /\ StillOpen(body, pos[j], r + 2)
             /\ Opens(body, pos[j], r + 1) - Closes(body, pos[j], r + 1) = Len(rest) - j + 1
  <2>1. j \in 1..l /\ rest[j] = bs[j] /\ Len(rest) = l - 1
    BY <1>3
  <2>2. /\ pos[j] \in 1..r /\ StillOpen(body, pos[j], r + 1)
        /\ Opens(body, pos[j], r) - Closes(body, pos[j], r) = l - j + 1
        /\ bs[j] = (body[pos[j]].op = "loop") /\ OpensBlock(body, pos[j])
    BY <2>1 DEF OpenAt
  <2>0. /\ Opens(body, pos[j], r + 1) = Opens(body, pos[j], r)
        /\ Closes(body, pos[j], r + 1) = Closes(body, pos[j], r) + 1
        /\ Opens(body, pos[j], r) \in Nat /\ Closes(body, pos[j], r) \in Nat
    BY <1>2, <2>2
  <2>a. j \in 1..(l - 1) /\ l \in Nat
    BY <1>3, <2>1
  <2>3. Opens(body, pos[j], r + 1) - Closes(body, pos[j], r + 1) = Len(rest) - j + 1
    BY <2>0, <2>a, <2>1, <2>2, OneShallower
  <2>4. Opens(body, pos[j], r + 1) > Closes(body, pos[j], r + 1)
    BY <2>0, <2>a, <2>1, <2>2, OneShallower
  <2>5. pos[j] \in 1..(r + 1)
    BY <2>2
  <2> QED BY <2>1, <2>2, <2>3, <2>4, <2>5, StillOpenStep
<1>5. ASSUME NEW q \in 1..(r + 1), OpensBlock(body, q), StillOpen(body, q, r + 2)
      PROVE  \E j \in 1..Len(rest) : pos[j] = q
  <2>1. q \in 1..r
    BY <1>1, <1>5
  <2>2. StillOpen(body, q, r + 1) /\ Opens(body, q, r + 1) > Closes(body, q, r + 1)
    BY <1>5, <2>1, StillOpenStep
  <2>3. PICK j \in 1..l : pos[j] = q
    BY <1>5, <2>1, <2>2 DEF OpenAt
  <2>4. Opens(body, q, r) - Closes(body, q, r) = l - j + 1
    BY <2>3 DEF OpenAt
  <2>5. l - j + 1 > 1
    BY <1>2, <1>3, <2>1, <2>2, <2>4
  <2>6. bs # << >>
    BY <1>3, <2>3
  <2>7. j \in 1..Len(rest)
    BY <1>3, <2>5, <2>6
  <2> QED BY <2>3, <2>7
<1>6. (r + 1) + 1 = r + 2
  OBVIOUS
<1>7. OpenAt(body, r + 1, rest, pos)
  BY <1>4, <1>5, <1>6 DEF OpenAt
<1> QED BY <1>7 DEF rest

-----------------------------------------------------------------------------
(* What the profile holds after r operators of a body.                       *)
Looping(body, r) == {p \in 1..r : LoopsAround(body, p) # {}}
CallsUpTo(body, r) == {p \in 1..r : body[p].op = "call"}

CallsListed(body, r, calls) ==
  /\ Len(calls) = Cardinality(CallsUpTo(body, r))
  /\ \A p \in CallsUpTo(body, r) : calls[Cardinality(CallsUpTo(body, p))] = body[p].to

Counts(body, r, f) ==
  /\ f.instruction_count = r
  /\ f.loop_instructions = Cardinality(Looping(body, r))

(* A loop is around the next operator exactly when one is on the stack.      *)
LEMMA InsideSeen ==
  ASSUME NEW body, NEW r \in Nat, NEW bs \in Seq(BOOLEAN), NEW pos, OpenAt(body, r, bs, pos)
  PROVE  LoopsAround(body, r + 1) # {} <=> \E i \in DOMAIN bs : bs[i]
<1>1. DOMAIN bs = 1..Len(bs) /\ 1..((r + 1) - 1) = 1..r
  OBVIOUS
<1>2. ASSUME NEW i \in DOMAIN bs, bs[i] PROVE LoopsAround(body, r + 1) # {}
  <2>1. pos[i] \in 1..r /\ body[pos[i]].op = "loop" /\ StillOpen(body, pos[i], r + 1)
    BY <1>1, <1>2 DEF OpenAt
  <2> QED BY <1>1, <2>1 DEF LoopsAround
<1>3. ASSUME NEW q \in LoopsAround(body, r + 1) PROVE \E i \in DOMAIN bs : bs[i]
  <2>1. q \in 1..r /\ body[q].op = "loop" /\ StillOpen(body, q, r + 1)
    BY <1>1 DEF LoopsAround
  <2>2. PICK j \in 1..Len(bs) : pos[j] = q
    BY <2>1 DEF OpenAt, OpensBlock
  <2>3. bs[j]
    BY <2>1, <2>2 DEF OpenAt
  <2> QED BY <1>1, <2>2, <2>3
<1> QED BY <1>2, <1>3

LEMMA CountsStep ==
  ASSUME NEW body, NEW r \in Nat, NEW f, NEW g, Counts(body, r, f),
         g.instruction_count = f.instruction_count + 1,
         LoopsAround(body, r + 1) # {} => g.loop_instructions = f.loop_instructions + 1,
         LoopsAround(body, r + 1) = {} => g.loop_instructions = f.loop_instructions
  PROVE  Counts(body, r + 1, g)
<1>1. 1..(r + 1) = (1..r) \cup {r + 1}
  OBVIOUS
<1>2. Looping(body, r) \subseteq 1..r
  BY DEF Looping
<1>3. LoopsAround(body, r + 1) # {} => Looping(body, r + 1) = Looping(body, r) \cup {r + 1}
  BY <1>1 DEF Looping
<1>4. LoopsAround(body, r + 1) = {} => Looping(body, r + 1) = Looping(body, r)
  BY <1>1 DEF Looping
<1>5. LoopsAround(body, r + 1) # {} =>
        Cardinality(Looping(body, r + 1)) = Cardinality(Looping(body, r)) + 1
  BY <1>2, <1>3, CountOneMore
<1> QED BY <1>4, <1>5 DEF Counts

LEMMA CallsPassed ==
  ASSUME NEW body, NEW r \in Nat, NEW calls, CallsListed(body, r, calls),
         body[r + 1].op # "call"
  PROVE  CallsListed(body, r + 1, calls)
<1>1. CallsUpTo(body, r + 1) = CallsUpTo(body, r)
  <2>1. 1..(r + 1) = (1..r) \cup {r + 1}
    OBVIOUS
  <2> QED BY <2>1 DEF CallsUpTo
<1> QED BY <1>1 DEF CallsListed

LEMMA CallsAdded ==
  ASSUME NEW body, NEW r \in Nat, NEW S, NEW calls \in Seq(S), NEW i \in S,
         CallsListed(body, r, calls), body[r + 1].op = "call", body[r + 1].to = i
  PROVE  CallsListed(body, r + 1, Append(calls, i))
<1>1. 1..(r + 1) = (1..r) \cup {r + 1}
  OBVIOUS
<1>2. CallsUpTo(body, r + 1) = CallsUpTo(body, r) \cup {r + 1}
  BY <1>1 DEF CallsUpTo
<1>3. CallsUpTo(body, r) \subseteq 1..r
  BY DEF CallsUpTo
<1>4. Cardinality(CallsUpTo(body, r + 1)) = Cardinality(CallsUpTo(body, r)) + 1
  BY <1>2, <1>3, CountOneMore
<1>5. /\ Len(Append(calls, i)) = Len(calls) + 1
      /\ \A k \in 1..Len(calls) : Append(calls, i)[k] = calls[k]
      /\ Append(calls, i)[Len(calls) + 1] = i
      /\ Len(calls) \in Nat
  BY AppendProperties
<1>6. Len(calls) = Cardinality(CallsUpTo(body, r))
  BY DEF CallsListed
<1>7. ASSUME NEW p \in CallsUpTo(body, r + 1)
      PROVE  Append(calls, i)[Cardinality(CallsUpTo(body, p))] = body[p].to
  <2>1. CASE p = r + 1
    BY <1>4, <1>5, <1>6, <2>1
  <2>2. CASE p # r + 1
    <3>1. p \in CallsUpTo(body, r) /\ p \in 1..r
      BY <1>2, <1>3, <2>2
    <3>2. Cardinality(CallsUpTo(body, p)) \in 1..Len(calls)
      <4>1. CallsUpTo(body, p) \subseteq CallsUpTo(body, r) /\ p \in CallsUpTo(body, p)
        BY <3>1 DEF CallsUpTo
      <4>2. IsFiniteSet(CallsUpTo(body, r))
        BY <1>3, CountOneMore
      <4>3. /\ IsFiniteSet(CallsUpTo(body, p))
            /\ Cardinality(CallsUpTo(body, p)) <= Cardinality(CallsUpTo(body, r))
        BY <4>1, <4>2, FS_Subset
      <4>4. Cardinality(CallsUpTo(body, p)) \in Nat /\ Cardinality(CallsUpTo(body, p)) # 0
        BY <4>1, <4>3, FS_CardinalityType, FS_EmptySet
      <4> QED BY <1>5, <1>6, <4>3, <4>4
    <3> QED BY <1>5, <3>1, <3>2 DEF CallsListed
  <2> QED BY <2>1, <2>2
<1> QED BY <1>4, <1>5, <1>6, <1>7 DEF CallsListed

(* Where reading a body stands: the operators left are its tail, and the     *)
(* stack and the profile are what those before have left.                    *)
BodyRead(body, ops, bs, f) ==
  LET r == Len(body) - Len(ops)
  IN /\ Suffix(body, ops)
     /\ \E pos : OpenAt(body, r, bs, pos)
     /\ Counts(body, r, f)
     /\ CallsListed(body, r, f.calls)

LEMMA BodyBegun ==
  ASSUME NEW body \in Seq(Operator), NEW f, f.instruction_count = 0, f.loop_instructions = 0,
         f.calls = << >>
  PROVE  BodyRead(body, body, << >>, f)
<1>1. Len(body) \in Nat /\ Len(body) - Len(body) = 0 /\ 1..0 = {}
  OBVIOUS
<1>2. Suffix(body, body)
  BY DEF Suffix
<1>3. OpenAt(body, 0, << >>, << >>)
  BY DEF OpenAt
<1>4. Looping(body, 0) = {} /\ CallsUpTo(body, 0) = {}
  BY DEF Looping, CallsUpTo
<1>5. Counts(body, 0, f) /\ CallsListed(body, 0, f.calls)
  BY <1>4, FS_EmptySet DEF Counts, CallsListed
<1> QED BY <1>1, <1>2, <1>3, <1>5 DEF BodyRead

LEMMA BodyFinished ==
  ASSUME NEW body \in Seq(Operator), NEW bs, NEW f, BodyRead(body, << >>, bs, f)
  PROVE  Describes(f, body)
<1>1. Len(body) \in Nat /\ Len(body) - Len(<< >>) = Len(body) /\ DOMAIN body = 1..Len(body)
  OBVIOUS
<1>2. Counts(body, Len(body), f) /\ CallsListed(body, Len(body), f.calls)
  BY <1>1 DEF BodyRead
<1>3. /\ Looping(body, Len(body)) = {p \in DOMAIN body : LoopsAround(body, p) # {}}
      /\ CallsUpTo(body, Len(body)) = CallsIn(body)
  BY <1>1 DEF Looping, CallsUpTo, CallsIn
<1>4. ASSUME NEW p \in CallsIn(body)
      PROVE  CallsUpTo(body, p) = {q \in CallsIn(body) : q <= p}
  BY <1>1 DEF CallsUpTo, CallsIn
<1> QED BY <1>2, <1>3, <1>4 DEF Describes, Counts, CallsListed


LEMMA BodyStep ==
  ASSUME NEW body \in Seq(Operator), NEW ops \in Seq(Operator), ops # << >>,
         NEW bs \in Seq(BOOLEAN), NEW f, f.calls \in Seq(Index), BodyRead(body, ops, bs, f),
         NEW g, NEW now,
         g.instruction_count = f.instruction_count + 1,
         (\E i \in DOMAIN bs : bs[i]) => g.loop_instructions = f.loop_instructions + 1,
         ~(\E i \in DOMAIN bs : bs[i]) => g.loop_instructions = f.loop_instructions,
         Head(ops).op = "call" => g.calls = Append(f.calls, Head(ops).to),
         Head(ops).op # "call" => g.calls = f.calls,
         Head(ops).op = "loop" => now = Append(bs, TRUE),
         Head(ops).op = "block" => now = Append(bs, FALSE),
         Head(ops).op = "end" => now = IF bs = << >> THEN << >> ELSE Front(bs),
         Head(ops).op \notin {"loop", "block", "end"} => now = bs
  PROVE  BodyRead(body, Tail(ops), now, g)
<1> DEFINE r == Len(body) - Len(ops)
<1>1. /\ r \in Nat /\ Len(body) - Len(Tail(ops)) = r + 1
      /\ Head(ops) = body[r + 1] /\ Suffix(body, Tail(ops))
  <2>1. Suffix(body, ops)
    BY DEF BodyRead
  <2> QED BY <2>1, SuffixStep
<1>2. Counts(body, r, f) /\ CallsListed(body, r, f.calls)
  BY DEF BodyRead
<1>3. PICK pos : OpenAt(body, r, bs, pos)
  BY DEF BodyRead
<1> HIDE DEF r
<1>4. Counts(body, r + 1, g)
  <2>1. LoopsAround(body, r + 1) # {} <=> \E i \in DOMAIN bs : bs[i]
    BY <1>1, <1>3, InsideSeen
  <2> QED BY <1>1, <1>2, <2>1, CountsStep
<1>5. CallsListed(body, r + 1, g.calls)
  <2>1. CASE body[r + 1].op = "call"
    <3>1. Head(ops) \in Operator
      BY HeadTailProperties
    <3>2. body[r + 1].to \in Index
      BY <1>1, <3>1 DEF Operator
    <3>3. CallsListed(body, r + 1, Append(f.calls, body[r + 1].to))
      BY <1>1, <1>2, <2>1, <3>2, CallsAdded
    <3> QED BY <1>1, <2>1, <3>3
  <2>2. CASE body[r + 1].op # "call"
    BY <1>1, <1>2, <2>2, CallsPassed
  <2> QED BY <2>1, <2>2
<1>6. \E new : OpenAt(body, r + 1, now, new)
  <2>1. CASE body[r + 1].op = "loop"
    <3>1. OpensBlock(body, r + 1) /\ body[r + 1].op # "end" /\ (body[r + 1].op = "loop") = TRUE
      BY <2>1 DEF OpensBlock
    <3>2. \E new : OpenAt(body, r + 1, Append(bs, body[r + 1].op = "loop"), new)
      BY <1>1, <1>3, <3>1, StackPushed
    <3> QED BY <1>1, <2>1, <3>1, <3>2
  <2>2. CASE body[r + 1].op = "block"
    <3>1. OpensBlock(body, r + 1) /\ body[r + 1].op # "end" /\ (body[r + 1].op = "loop") = FALSE
      BY <2>2 DEF OpensBlock
    <3>2. \E new : OpenAt(body, r + 1, Append(bs, body[r + 1].op = "loop"), new)
      BY <1>1, <1>3, <3>1, StackPushed
    <3> QED BY <1>1, <2>2, <3>1, <3>2
  <2>3. CASE body[r + 1].op = "end"
    BY <1>1, <1>3, <2>3, StackPopped
  <2>4. CASE body[r + 1].op \notin {"loop", "block", "end"}
    <3>1. ~OpensBlock(body, r + 1) /\ body[r + 1].op # "end" /\ now = bs
      BY <1>1, <2>4 DEF OpensBlock
    <3> QED BY <1>1, <1>3, <3>1, StackKept
  <2> QED BY <2>1, <2>2, <2>3, <2>4
<1> QED BY <1>1, <1>4, <1>5, <1>6 DEF BodyRead

(* One operator read keeps the profile and the stack what the body says.     *)
LEMMA OperatorsRead ==
  ASSUME ReaderTypeOK, ReadOperator, reading' = "body",
         NEW body \in Seq(Operator), BodyRead(body, operators, blocks, profile)
  PROVE  BodyRead(body, operators', blocks', profile')
<1>1. /\ operators \in Seq(Operator) /\ blocks \in Seq(BOOLEAN) /\ profile.calls \in Seq(Index)
      /\ profile \in Profile
  BY DEF ReaderTypeOK, Profile
<1>2. /\ Counted.instruction_count = profile.instruction_count + 1
      /\ InsideLoop => Counted.loop_instructions = profile.loop_instructions + 1
      /\ ~InsideLoop => Counted.loop_instructions = profile.loop_instructions
      /\ Counted.calls = profile.calls
      /\ Counted \in Profile
  <2>1. Counted \in Profile
    BY CountedType
  <2> QED BY <1>1, <2>1 DEF Counted, Profile
<1>3. /\ operators # << >> /\ operators' = Tail(operators)
      /\ profile'.instruction_count = profile.instruction_count + 1
      /\ InsideLoop => profile'.loop_instructions = profile.loop_instructions + 1
      /\ ~InsideLoop => profile'.loop_instructions = profile.loop_instructions
      /\ Head(operators).op = "call" => profile'.calls = Append(profile.calls, Head(operators).to)
      /\ Head(operators).op # "call" => profile'.calls = profile.calls
      /\ Head(operators).op = "loop" => blocks' = Append(blocks, TRUE)
      /\ Head(operators).op = "block" => blocks' = Append(blocks, FALSE)
      /\ Head(operators).op = "end" =>
           blocks' = IF blocks = << >> THEN << >> ELSE Front(blocks)
      /\ Head(operators).op \notin {"loop", "block", "end"} => blocks' = blocks
  <2> HIDE DEF Counted
  <2>1. CASE EnterLoop
    BY <1>2, <2>1 DEF EnterLoop, Reads, Profile
  <2>2. CASE EnterBlock
    BY <1>2, <2>2 DEF EnterBlock, Reads
  <2>3. CASE LeaveBlock
    BY <1>2, <2>3 DEF LeaveBlock, Reads
  <2>4. CASE RecordCall
    BY <1>2, <2>4 DEF RecordCall, Reads, Profile
  <2>5. CASE RecordFlag
    BY <1>2, <2>5 DEF RecordFlag, Reads, Profile
  <2>6. CASE ReadPlain
    BY <1>2, <2>6 DEF ReadPlain, Reads
  <2>7. CASE ReadMalformedOperator
    BY <2>7 DEF ReadMalformedOperator
  <2> QED BY <2>1, <2>2, <2>3, <2>4, <2>5, <2>6, <2>7 DEF ReadOperator
<1>4. InsideLoop <=> \E i \in DOMAIN blocks : blocks[i]
  BY DEF InsideLoop
<1> QED BY <1>1, <1>3, <1>4, BodyStep

-----------------------------------------------------------------------------
(* What the module holds once the first n payloads have been read.           *)
ImportedIn(P, n) == {s \in 1..n : P[s].section = "import" /\ P[s].function}
CodeIn(P, n) == {s \in 1..n : P[s].section = "code"}

Records(P, n, m) ==
  /\ m.imported_function_count = Cardinality(ImportedIn(P, n))
  /\ Len(m.functions) = Cardinality(CodeIn(P, n))
  /\ \A s \in CodeIn(P, n) :
       /\ Describes(m.functions[Cardinality(CodeIn(P, s - 1)) + 1], P[s].body)
       /\ m.functions[Cardinality(CodeIn(P, s - 1)) + 1].index
            = Cardinality(ImportedIn(P, s - 1)) + Cardinality(CodeIn(P, s - 1))

LEMMA CodeFinite ==
  ASSUME NEW P, NEW n \in Nat
  PROVE  /\ IsFiniteSet(CodeIn(P, n)) /\ Cardinality(CodeIn(P, n)) \in Nat
         /\ IsFiniteSet(ImportedIn(P, n)) /\ Cardinality(ImportedIn(P, n)) \in Nat
<1>1. CodeIn(P, n) \subseteq 1..n /\ ImportedIn(P, n) \subseteq 1..n
  BY DEF CodeIn, ImportedIn
<1> QED BY <1>1, CountOneMore

LEMMA CodeStep ==
  ASSUME NEW P, NEW n \in Nat
  PROVE  /\ P[n + 1].section = "code" =>
              /\ CodeIn(P, n + 1) = CodeIn(P, n) \cup {n + 1}
              /\ Cardinality(CodeIn(P, n + 1)) = Cardinality(CodeIn(P, n)) + 1
         /\ P[n + 1].section # "code" => CodeIn(P, n + 1) = CodeIn(P, n)
         /\ P[n + 1].section = "import" /\ P[n + 1].function =>
              Cardinality(ImportedIn(P, n + 1)) = Cardinality(ImportedIn(P, n)) + 1
         /\ ~(P[n + 1].section = "import" /\ P[n + 1].function) =>
              ImportedIn(P, n + 1) = ImportedIn(P, n)
<1>1. 1..(n + 1) = (1..n) \cup {n + 1}
  OBVIOUS
<1>2. CodeIn(P, n) \subseteq 1..n /\ ImportedIn(P, n) \subseteq 1..n
  BY DEF CodeIn, ImportedIn
<1>3. P[n + 1].section = "code" => CodeIn(P, n + 1) = CodeIn(P, n) \cup {n + 1}
  BY <1>1 DEF CodeIn
<1>4. P[n + 1].section # "code" => CodeIn(P, n + 1) = CodeIn(P, n)
  BY <1>1 DEF CodeIn
<1>5. P[n + 1].section = "import" /\ P[n + 1].function =>
        ImportedIn(P, n + 1) = ImportedIn(P, n) \cup {n + 1}
  BY <1>1 DEF ImportedIn
<1>6. ~(P[n + 1].section = "import" /\ P[n + 1].function) =>
        ImportedIn(P, n + 1) = ImportedIn(P, n)
  BY <1>1 DEF ImportedIn
<1> QED BY <1>2, <1>3, <1>4, <1>5, <1>6, CountOneMore

(* A payload that is neither an imported function nor code changes nothing   *)
(* that is counted; an imported function is counted; a code entry is         *)
(* appended, numbered by what was counted before it.                         *)
LEMMA RecordsKept ==
  ASSUME NEW P, NEW n \in Nat, NEW m, NEW next, Records(P, n, m),
         P[n + 1].section # "code", next.functions = m.functions,
         P[n + 1].section = "import" /\ P[n + 1].function =>
           next.imported_function_count = m.imported_function_count + 1,
         ~(P[n + 1].section = "import" /\ P[n + 1].function) =>
           next.imported_function_count = m.imported_function_count
  PROVE  Records(P, n + 1, next)
<1>1. CodeIn(P, n + 1) = CodeIn(P, n)
  BY CodeStep
<1>2. next.imported_function_count = Cardinality(ImportedIn(P, n + 1))
  BY CodeStep DEF Records
<1> QED BY <1>1, <1>2 DEF Records

LEMMA RecordsAdded ==
  ASSUME NEW P, NEW n \in Nat, NEW m, NEW next, NEW f \in Profile, Records(P, n, m),
         m.functions \in Seq(Profile), P[n + 1].section = "code",
         next.imported_function_count = m.imported_function_count,
         next.functions = Append(m.functions, f), Describes(f, P[n + 1].body),
         f.index = m.imported_function_count + Len(m.functions)
  PROVE  Records(P, n + 1, next)
<1> DEFINE l == Len(m.functions)
<1>1. /\ l \in Nat /\ l = Cardinality(CodeIn(P, n))
      /\ Len(next.functions) = l + 1
      /\ \A k \in 1..l : next.functions[k] = m.functions[k]
      /\ next.functions[l + 1] = f
  BY AppendProperties DEF Records
<1>2. /\ CodeIn(P, n + 1) = CodeIn(P, n) \cup {n + 1}
      /\ Cardinality(CodeIn(P, n + 1)) = l + 1
      /\ ImportedIn(P, n + 1) = ImportedIn(P, n)
  BY <1>1, CodeStep
<1>3. ASSUME NEW s \in CodeIn(P, n + 1)
      PROVE  /\ Describes(next.functions[Cardinality(CodeIn(P, s - 1)) + 1], P[s].body)
             /\ next.functions[Cardinality(CodeIn(P, s - 1)) + 1].index
                  = Cardinality(ImportedIn(P, s - 1)) + Cardinality(CodeIn(P, s - 1))
  <2>1. CASE s = n + 1
    <3>1. s - 1 = n
      BY <2>1
    <3> QED BY <1>1, <2>1, <3>1 DEF Records
  <2>2. CASE s # n + 1
    <3>1. s \in CodeIn(P, n)
      BY <1>2, <2>2
    <3>2. Cardinality(CodeIn(P, s - 1)) + 1 \in 1..l
      <4>1. s - 1 \in Nat /\ s \in 1..n /\ (s - 1) + 1 = s /\ P[s].section = "code"
        BY <3>1 DEF CodeIn
      <4>2. Cardinality(CodeIn(P, s)) = Cardinality(CodeIn(P, s - 1)) + 1
        BY <4>1, CodeStep
      <4>3. CodeIn(P, s) \subseteq CodeIn(P, n)
        BY <4>1 DEF CodeIn
      <4>4. Cardinality(CodeIn(P, s)) <= Cardinality(CodeIn(P, n))
        BY <4>3, CodeFinite, FS_Subset
      <4>5. Cardinality(CodeIn(P, s - 1)) \in Nat
        BY <4>1, CodeFinite
      <4> QED BY <1>1, <4>2, <4>4, <4>5
    <3> QED BY <1>1, <3>1, <3>2 DEF Records
  <2> QED BY <2>1, <2>2
<1> QED BY <1>1, <1>2, <1>3 DEF Records


(* Where reading a module stands.                                            *)
ReadSoFar(P, ps, m, ops, bs, f, rd) ==
  LET n == Len(P) - Len(ps)
  IN /\ Suffix(P, ps)
     /\ rd \in {"payloads", "parsed"} => Records(P, n, m)
     /\ rd = "parsed" => ps = << >>
     /\ rd = "body" =>
          /\ n \in 1..Len(P)
          /\ P[n].section = "code"
          /\ Records(P, n - 1, m)
          /\ BodyRead(P[n].body, ops, bs, f)
          /\ f.index = m.imported_function_count + Len(m.functions)

ReadInv == ReadSoFar(input.payloads, payloads, module, operators, blocks, profile, reading)

LEMMA CodeBody ==
  ASSUME NEW p \in Payload, p.section = "code"
  PROVE  p.body \in Seq(Operator)
BY DEF Payload

LEMMA ReadInit == Init => ReadInv
<1> SUFFICES ASSUME Init PROVE ReadInv
  OBVIOUS
<1> DEFINE P == input.payloads
<1>1. P \in Seq(Payload) /\ payloads = P /\ reading \in {"payloads", "absent"}
      /\ module = EmptyModule
  BY InputsAssumption DEF Init, Input, ReaderInit
<1>2. Len(P) \in Nat /\ Len(P) - Len(P) = 0 /\ 1..0 = {}
  BY <1>1
<1>3. Suffix(P, P)
  BY <1>2 DEF Suffix
<1>4. ImportedIn(P, 0) = {} /\ CodeIn(P, 0) = {}
  BY DEF ImportedIn, CodeIn
<1>5. Records(P, 0, EmptyModule)
  BY <1>4, FS_EmptySet DEF Records, EmptyModule
<1> QED BY <1>1, <1>2, <1>3, <1>5 DEF ReadInv, ReadSoFar

LEMMA ReadStep ==
  ASSUME TypeOK, ReadInv, ReadModule
  PROVE  ReadInv'
<1> DEFINE P == input.payloads
           n == Len(P) - Len(payloads)
<1>1. /\ P \in Seq(Payload) /\ payloads \in Seq(Payload) /\ module \in Module /\ profile \in Profile
      /\ ReaderTypeOK /\ Read /\ input' = input
  BY DEF TypeOK, Input, ReaderTypeOK, ReadModule
<1>2. Suffix(P, payloads)
  BY DEF ReadInv, ReadSoFar
<1>3. ASSUME payloads # << >>, payloads' = Tail(payloads)
      PROVE  /\ n \in Nat /\ Len(P) - Len(payloads') = n + 1 /\ n + 1 \in 1..Len(P)
             /\ Head(payloads) = P[n + 1] /\ Suffix(P, payloads') /\ (n + 1) - 1 = n
             /\ P[n + 1] \in Payload
  <2>1. /\ n \in Nat /\ Len(P) - Len(payloads') = n + 1 /\ n + 1 \in 1..Len(P)
        /\ Head(payloads) = P[n + 1] /\ Suffix(P, payloads')
    BY <1>1, <1>2, <1>3, SuffixStep
  <2>2. P[n + 1] \in Payload
    BY <1>1, <2>1
  <2> QED BY <2>1, <2>2
<1>4. ASSUME payloads # << >>, payloads' = Tail(payloads), reading = "payloads",
             reading' = "payloads", P[n + 1].section # "code",
             module'.functions = module.functions,
             P[n + 1].section = "import" /\ P[n + 1].function =>
               module'.imported_function_count = module.imported_function_count + 1,
             ~(P[n + 1].section = "import" /\ P[n + 1].function) =>
               module'.imported_function_count = module.imported_function_count
      PROVE  ReadInv'
  <2>1. Records(P, n, module)
    BY <1>4 DEF ReadInv, ReadSoFar
  <2>2. Records(P, n + 1, module')
    BY <1>3, <1>4, <2>1, RecordsKept
  <2> QED BY <1>1, <1>3, <1>4, <2>2 DEF ReadInv, ReadSoFar
<1>5. CASE ReadImport
  <2>1. /\ payloads # << >> /\ payloads' = Tail(payloads) /\ reading = "payloads"
        /\ reading' = "payloads" /\ Head(payloads).section = "import"
        /\ module' = [CountImport(module, Head(payloads)) EXCEPT
                        !.imports = Append(@, [function |-> Head(payloads).function,
                                               name |-> Head(payloads).name])]
    BY <1>5 DEF ReadImport, Section
  <2>2. /\ module'.functions = module.functions
        /\ Head(payloads).function =>
             module'.imported_function_count = module.imported_function_count + 1
        /\ ~Head(payloads).function =>
             module'.imported_function_count = module.imported_function_count
    BY <1>1, <2>1 DEF CountImport, Module
  <2> QED BY <1>3, <1>4, <2>1, <2>2
<1>6. CASE ReadMemory \/ ReadExport \/ ReadStart \/ ReadContractSpec \/ ReadOther
  <2>1. /\ payloads # << >> /\ payloads' = Tail(payloads) /\ reading = "payloads"
        /\ reading' = "payloads"
        /\ Head(payloads).section \in {"memory", "export", "start", "contractspec", "other"}
    BY <1>6 DEF ReadMemory, ReadExport, ReadStart, ReadContractSpec, ReadOther, Section
  <2>2. /\ module'.functions = module.functions
        /\ module'.imported_function_count = module.imported_function_count
    BY <1>1, <1>6 DEF ReadMemory, ReadExport, ReadStart, ReadContractSpec, ReadOther, Module
  <2> QED BY <1>3, <1>4, <2>1, <2>2
<1>7. CASE ReadMalformed
  <2>1. /\ payloads # << >> /\ payloads' = Tail(payloads) /\ reading' = "failed"
    BY <1>7 DEF ReadMalformed, Section
  <2> QED BY <1>1, <1>3, <2>1 DEF ReadInv, ReadSoFar
<1>8. CASE OpenBody
  <2>1. /\ payloads # << >> /\ payloads' = Tail(payloads) /\ reading = "payloads"
        /\ reading' = "body" /\ Head(payloads).section = "code" /\ module' = module
        /\ operators' = Head(payloads).body /\ blocks' = << >>
        /\ profile' = [NoProfile EXCEPT
                         !.index = module.imported_function_count + Len(module.functions)]
    BY <1>8 DEF OpenBody, Section
  <2>2. P[n + 1].section = "code" /\ P[n + 1].body \in Seq(Operator) /\ operators' = P[n + 1].body
    BY <1>3, <2>1, CodeBody
  <2>3. /\ profile'.instruction_count = 0 /\ profile'.loop_instructions = 0
        /\ profile'.calls = << >>
        /\ profile'.index = module.imported_function_count + Len(module.functions)
    BY <2>1 DEF NoProfile
  <2>4. BodyRead(P[n + 1].body, operators', blocks', profile')
    BY <2>1, <2>2, <2>3, BodyBegun
  <2>5. Records(P, n, module)
    BY <2>1 DEF ReadInv, ReadSoFar
  <2> QED BY <1>1, <1>3, <2>1, <2>2, <2>3, <2>4, <2>5 DEF ReadInv, ReadSoFar
<1>9. CASE ReadOperator
  <2>1. reading = "body" /\ payloads' = payloads /\ module' = module /\ reading' \in {"body", "failed"}
        /\ (reading' = "body" => profile'.index = profile.index)
    <3>1. Counted.index = profile.index /\ Counted \in Profile
      BY <1>1, CountedType DEF Counted, Profile
    <3> HIDE DEF Counted
    <3> QED BY <1>9, <3>1 DEF ReadOperator, EnterLoop, EnterBlock, LeaveBlock, RecordCall,
             RecordFlag, ReadPlain, ReadMalformedOperator, Reads, Profile
  <2>2. CASE reading' = "failed"
    BY <1>1, <1>2, <2>1, <2>2 DEF ReadInv, ReadSoFar
  <2>3. CASE reading' = "body"
    <3>1. /\ n \in 1..Len(P) /\ P[n].section = "code" /\ Records(P, n - 1, module)
          /\ BodyRead(P[n].body, operators, blocks, profile)
          /\ profile.index = module.imported_function_count + Len(module.functions)
      BY <2>1 DEF ReadInv, ReadSoFar
    <3>2. P[n].body \in Seq(Operator)
      <4>1. P[n] \in Payload
        BY <1>1, <3>1
      <4> QED BY <3>1, <4>1, CodeBody
    <3>3. BodyRead(P[n].body, operators', blocks', profile')
      BY <1>1, <1>9, <2>3, <3>1, <3>2, OperatorsRead
    <3> QED BY <1>1, <1>2, <2>1, <2>3, <3>1, <3>3 DEF ReadInv, ReadSoFar
  <2> QED BY <2>1, <2>2, <2>3
<1>10. CASE CloseBody
  <2>1. /\ reading = "body" /\ operators = << >> /\ reading' = "payloads" /\ payloads' = payloads
        /\ module' = [module EXCEPT !.functions = Append(@, profile)]
    BY <1>10 DEF CloseBody
  <2>2. /\ n \in 1..Len(P) /\ P[n].section = "code" /\ Records(P, n - 1, module)
        /\ BodyRead(P[n].body, << >>, blocks, profile)
        /\ profile.index = module.imported_function_count + Len(module.functions)
    BY <2>1 DEF ReadInv, ReadSoFar
  <2>3. Describes(profile, P[n].body)
    <3>1. P[n] \in Payload
      BY <1>1, <2>2
    <3> QED BY <2>2, <3>1, CodeBody, BodyFinished
  <2>4. /\ module'.functions = Append(module.functions, profile)
        /\ module'.imported_function_count = module.imported_function_count
        /\ module.functions \in Seq(Profile)
    BY <1>1, <2>1 DEF Module
  <2>5. n - 1 \in Nat /\ (n - 1) + 1 = n
    BY <2>2
  <2>6. Records(P, n, module')
    <3> DEFINE k == n - 1
    <3>1. k \in Nat /\ k + 1 = n
      BY <2>5
    <3>2. Records(P, k, module)
      BY <2>2
    <3> HIDE DEF k, n
    <3> QED BY <1>1, <2>2, <2>3, <2>4, <3>1, <3>2, RecordsAdded
  <2> QED BY <1>1, <1>2, <2>1, <2>6 DEF ReadInv, ReadSoFar
<1>11. CASE FinishReading
  <2>1. /\ reading = "payloads" /\ payloads = << >> /\ reading' = "parsed"
        /\ payloads' = payloads /\ module' = module
    BY <1>11 DEF FinishReading
  <2> QED BY <1>1, <1>2, <2>1 DEF ReadInv, ReadSoFar
<1> QED BY <1>1, <1>5, <1>6, <1>7, <1>8, <1>9, <1>10, <1>11 DEF Read

LEMMA ReadInvariant == Spec => []ReadInv
<1>1. TypeOK /\ ReadInv /\ [Next]_vars => ReadInv'
  <2> SUFFICES ASSUME TypeOK, ReadInv, [Next]_vars PROVE ReadInv'
    OBVIOUS
  <2>1. CASE ReadModule
    BY <2>1, ReadStep
  <2>2. CASE EstimateFromSource \/ StartWalk \/ SkipReached \/ Reach \/ Search
               \/ ReportRecursion \/ Estimate \/ Detect \/ UNCHANGED vars
    <3>1. UNCHANGED <<input, reader>>
      BY <2>2 DEF EstimateFromSource, StartWalk, SkipReached, Reach, Search, StartCycleSearch,
                  PassFinished, Descend, Return, ReportRecursion, Estimate, Detect, vars, Emit
    <3> QED BY <3>1 DEF ReadInv, reader
  <2> QED BY <2>1, <2>2 DEF Next
<1> QED BY <1>1, ReadInit, TypeCorrect, PTL DEF Spec


(* Of a finite set of positions there is a first, a second and so on up to   *)
(* as many as it has.                                                        *)
Below(A, p) == {q \in A : q <= p}

LEMMA BelowIs ==
  ASSUME NEW A, NEW p, NEW q
  PROVE  q \in Below(A, p) <=> q \in A /\ q <= p
BY DEF Below

LEMMA BelowStep ==
  ASSUME NEW n \in Nat, NEW A, A \subseteq 1..n, NEW p \in Nat
  PROVE  /\ Cardinality(Below(A, p)) \in Nat
         /\ Cardinality(Below(A, p)) <= Cardinality(A)
         /\ p + 1 \in A => Cardinality(Below(A, p + 1)) = Cardinality(Below(A, p)) + 1
         /\ p + 1 \notin A => Below(A, p + 1) = Below(A, p)
<1>0. \A q \in A : q \in 1..n
  OBVIOUS
<1>1. ASSUME NEW q \in Below(A, p) PROVE q \in 1..p /\ q \in A
  <2>1. q \in A /\ q <= p
    BY BelowIs
  <2>2. q \in 1..n
    BY <1>0, <2>1
  <2> QED BY <2>1, <2>2
<1>2. Cardinality(Below(A, p)) <= Cardinality(A)
  <2>1. IsFiniteSet(A)
    BY CountOneMore
  <2>2. Below(A, p) \subseteq A
    BY <1>1
  <2> HIDE DEF Below
  <2> QED BY ONLY <2>1, <2>2, FS_Subset
<1>3. ASSUME NEW q PROVE q \in Below(A, p + 1) <=> q \in Below(A, p) \/ (q = p + 1 /\ q \in A)
  <2>1. q \in Below(A, p + 1) <=> q \in A /\ q <= p + 1
    BY BelowIs
  <2>2. q \in Below(A, p) <=> q \in A /\ q <= p
    BY BelowIs
  <2>3. q \in A => (q <= p + 1 <=> q <= p \/ q = p + 1)
    BY <1>0
  <2> QED BY <2>1, <2>2, <2>3
<1>4. p + 1 \notin Below(A, p)
  <2>1. ~(p + 1 <= p)
    OBVIOUS
  <2> QED BY <2>1, BelowIs
<1>5. IsFiniteSet(Below(A, p)) /\ Cardinality(Below(A, p)) \in Nat
  <2>1. Below(A, p) \subseteq 1..p
    BY <1>1
  <2> HIDE DEF Below
  <2> QED BY <2>1, CountOneMore
<1>6. ASSUME p + 1 \in A
      PROVE  Cardinality(Below(A, p + 1)) = Cardinality(Below(A, p)) + 1
  <2>1. \A q \in Below(A, p + 1) : q \in Below(A, p) \cup {p + 1}
    BY <1>3
  <2>2. \A q \in Below(A, p) \cup {p + 1} : q \in Below(A, p + 1)
    BY <1>3, <1>6
  <2> HIDE DEF Below
  <2>3. Below(A, p + 1) = Below(A, p) \cup {p + 1}
    BY <2>1, <2>2
  <2> QED BY <1>4, <1>5, <2>3, FS_AddElement
<1>7. ASSUME p + 1 \notin A PROVE Below(A, p + 1) = Below(A, p)
  <2>1. \A q \in Below(A, p + 1) : q \in Below(A, p)
    BY <1>3, <1>7
  <2>2. \A q \in Below(A, p) : q \in Below(A, p + 1)
    BY <1>3
  <2> HIDE DEF Below
  <2> QED BY <2>1, <2>2
<1> QED BY <1>2, <1>5, <1>6, <1>7

LEMMA NthElement ==
  ASSUME NEW n \in Nat, NEW A, A \subseteq 1..n, NEW k \in 1..Cardinality(A)
  PROVE  \E p \in A : Cardinality(Below(A, p)) = k
<1>0. \A q \in A : q \in Nat /\ 1 <= q /\ q <= n
  OBVIOUS
<1> DEFINE T == {p \in Nat : Cardinality(Below(A, p)) >= k}
<1>1. n \in T
  <2>1. Below(A, n) = A
    <3>1. ASSUME NEW q PROVE q \in Below(A, n) <=> q \in A
      BY <1>0, BelowIs
    <3> HIDE DEF Below
    <3> QED BY <3>1
  <2>2. Cardinality(A) \in Nat
    BY CountOneMore
  <2> QED BY <2>1, <2>2
<1>2. PICK p \in T : \A q \in T : p <= q
  BY <1>1, LeastElement
<1>3. p # 0
  <2>1. Below(A, 0) = {}
    <3>1. ASSUME NEW q PROVE q \notin Below(A, 0)
      <4>1. q \in A => ~(q <= 0)
        BY <1>0
      <4> QED BY <4>1, BelowIs
    <3> HIDE DEF Below
    <3> QED BY <3>1
  <2>2. Cardinality(Below(A, 0)) = 0
    BY <2>1, FS_EmptySet
  <2> QED BY <1>2, <2>2
<1> DEFINE o == p - 1
<1>4. o \in Nat /\ o + 1 = p /\ o \notin T
  BY <1>2, <1>3
<1>5. Cardinality(Below(A, o)) < k /\ Cardinality(Below(A, o)) \in Nat
  <2>1. o \in Nat /\ o \notin T
    BY <1>4
  <2>2. ~(Cardinality(Below(A, o)) >= k)
    BY <2>1
  <2> HIDE DEF o
  <2>3. Cardinality(Below(A, o)) \in Nat
    BY <2>1, BelowStep
  <2> QED BY <2>2, <2>3
<1>6. Cardinality(Below(A, p)) >= k /\ Cardinality(Below(A, p)) \in Nat
  BY <1>2, BelowStep
<1> HIDE DEF o, T
<1>7. p \in A
  <2>1. p \notin A => Below(A, p) = Below(A, o)
    BY <1>4, BelowStep
  <2> QED BY <2>1, <1>5, <1>6
<1>8. Cardinality(Below(A, p)) = Cardinality(Below(A, o)) + 1
  BY <1>4, <1>7, BelowStep
<1> QED BY <1>5, <1>6, <1>7, <1>8

-----------------------------------------------------------------------------
(* What the module holds once it has been read through.                      *)
LEMMA ModuleRead ==
  ASSUME TypeOK, ReadInv, Parsed
  PROVE  /\ FunctionImports = module.imported_function_count
         /\ module.imported_function_count \in Nat
         /\ Len(module.functions) = Cardinality(CodeSections)
         /\ CodeSections \subseteq 1..Len(input.payloads) /\ Len(input.payloads) \in Nat
         /\ \A s \in CodeSections :
              /\ NumberOf(s) - FunctionImports \in 0..(Cardinality(CodeSections) - 1)
              /\ Cardinality(Below(CodeSections, s)) = NumberOf(s) - FunctionImports + 1
              /\ Describes(module.functions[NumberOf(s) - FunctionImports + 1],
                           input.payloads[s].body)
              /\ ImportsFirst =>
                   module.functions[NumberOf(s) - FunctionImports + 1].index = NumberOf(s)
<1> DEFINE P == input.payloads
           l == Len(P)
<1>1. P \in Seq(Payload) /\ l \in Nat /\ DOMAIN P = 1..l /\ module \in Module
  BY DEF TypeOK, Input, ReaderTypeOK
<1>2. Records(P, l, module)
  <2>1. payloads = << >> /\ Records(P, l - Len(payloads), module)
    BY DEF ReadInv, ReadSoFar, Parsed
  <2>2. l - Len(payloads) = l
    BY <1>1, <2>1
  <2> QED BY <2>1, <2>2
<1>3. CodeSections = CodeIn(P, l)
  BY <1>1 DEF CodeSections, CodeIn
<1>4. FunctionImports = Cardinality(ImportedIn(P, l))
  BY <1>1 DEF FunctionImports, ImportedIn
<1>5. FunctionImports = module.imported_function_count /\ FunctionImports \in Nat
      /\ Len(module.functions) = Cardinality(CodeSections)
  BY <1>1, <1>2, <1>3, <1>4, ModuleFields DEF Records
<1>6. CodeSections \subseteq 1..l
  BY <1>3 DEF CodeIn
<1>7. ASSUME NEW s \in CodeSections
      PROVE  /\ NumberOf(s) - FunctionImports \in 0..(Cardinality(CodeSections) - 1)
             /\ Cardinality(Below(CodeSections, s)) = NumberOf(s) - FunctionImports + 1
             /\ Describes(module.functions[NumberOf(s) - FunctionImports + 1], P[s].body)
             /\ ImportsFirst =>
                  module.functions[NumberOf(s) - FunctionImports + 1].index = NumberOf(s)
  <2> DEFINE o == s - 1
  <2>1. o \in Nat /\ o + 1 = s /\ s \in 1..l
    BY <1>6
  <2>2. {t \in CodeSections : t < s} = CodeIn(P, o) /\ CodeIn(P, o) = Below(CodeSections, o)
    BY <1>1, <1>3, <2>1 DEF CodeIn, Below
  <2>3. NumberOf(s) = FunctionImports + Cardinality(CodeIn(P, o))
    BY <2>2 DEF NumberOf
  <2>4. /\ Cardinality(CodeIn(P, o)) \in Nat
        /\ Cardinality(Below(CodeSections, s)) = Cardinality(CodeIn(P, o)) + 1
        /\ Cardinality(Below(CodeSections, s)) <= Cardinality(CodeSections)
        /\ Cardinality(CodeSections) \in Nat
    <3>1. Cardinality(CodeSections) \in Nat
      BY <1>1, <1>6, CountOneMore
    <3>2. Cardinality(Below(CodeSections, s)) <= Cardinality(CodeSections)
      <4>1. s \in Nat
        BY <2>1
      <4> HIDE DEF o, l
      <4> QED BY <1>1, <1>6, <4>1, BelowStep
    <3> HIDE DEF o, l
    <3>3. /\ Cardinality(Below(CodeSections, o)) \in Nat
          /\ Cardinality(Below(CodeSections, o + 1)) = Cardinality(Below(CodeSections, o)) + 1
      BY <1>1, <1>6, <2>1, BelowStep
    <3> QED BY <2>1, <2>2, <3>1, <3>2, <3>3
  <2>5. NumberOf(s) - FunctionImports = Cardinality(CodeIn(P, o))
    BY <1>5, <2>3, <2>4
  <2>6. /\ Describes(module.functions[Cardinality(CodeIn(P, o)) + 1], P[s].body)
        /\ module.functions[Cardinality(CodeIn(P, o)) + 1].index
             = Cardinality(ImportedIn(P, o)) + Cardinality(CodeIn(P, o))
    BY <1>2, <1>3 DEF Records
  <2>7. ASSUME ImportsFirst PROVE ImportedIn(P, o) = ImportedIn(P, l)
    <3>1. P[s].section = "code"
      BY <1>3 DEF CodeIn
    <3>2. ASSUME NEW t \in ImportedIn(P, l) PROVE t \in ImportedIn(P, o)
      <4>1. t \in 1..l /\ P[t].section = "import" /\ P[t].function
        BY DEF ImportedIn
      <4>2. t < s
        BY <1>1, <2>1, <2>7, <3>1, <4>1 DEF ImportsFirst
      <4> QED BY <2>1, <4>1, <4>2 DEF ImportedIn
    <3>3. ImportedIn(P, o) \subseteq ImportedIn(P, l)
      BY <1>1, <2>1 DEF ImportedIn
    <3> QED BY <3>2, <3>3
  <2>8. Cardinality(CodeIn(P, o)) \in 0..(Cardinality(CodeSections) - 1)
    BY <2>4
  <2> HIDE DEF o
  <2> QED BY <1>4, <2>3, <2>4, <2>5, <2>6, <2>7, <2>8
<1> QED BY <1>1, <1>5, <1>6, <1>7

LEMMA DefinedHasCode ==
  ASSUME TypeOK, ReadInv, Parsed, NEW i \in Nat
  PROVE  /\ Defined(module, i) <=> HasCode(i)
         /\ \A s \in SectionOf(i) : Describes(Function(module, i), input.payloads[s].body)
<1>1. ASSUME NEW s \in SectionOf(i)
      PROVE  /\ Defined(module, i)
             /\ Describes(Function(module, i), input.payloads[s].body)
  <2>1. s \in CodeSections /\ NumberOf(s) = i
    BY DEF SectionOf
  <2>2. /\ FunctionImports = module.imported_function_count
        /\ module.imported_function_count \in Nat
        /\ Len(module.functions) = Cardinality(CodeSections)
        /\ i - FunctionImports \in 0..(Cardinality(CodeSections) - 1)
        /\ Describes(module.functions[i - FunctionImports + 1], input.payloads[s].body)
    BY <2>1, ModuleRead
  <2>3. Len(module.functions) \in Nat
    BY ModuleFields DEF TypeOK, ReaderTypeOK
  <2> QED BY <2>2, <2>3 DEF Defined, Function
<1>2. ASSUME Defined(module, i) PROVE HasCode(i)
  <2>1. /\ FunctionImports = module.imported_function_count
        /\ module.imported_function_count \in Nat
        /\ Len(module.functions) = Cardinality(CodeSections)
        /\ CodeSections \subseteq 1..Len(input.payloads) /\ Len(input.payloads) \in Nat
    BY ModuleRead
  <2> DEFINE k == i - FunctionImports + 1
  <2>2. k \in 1..Cardinality(CodeSections)
    BY <1>2, <2>1 DEF Defined
  <2> HIDE DEF k
  <2>3. PICK s \in CodeSections : Cardinality(Below(CodeSections, s)) = k
    <3> DEFINE l == Len(input.payloads)
    <3>1. CodeSections \subseteq 1..l /\ l \in Nat
      BY <2>1
    <3> HIDE DEF l, CodeSections, Below
    <3> QED BY <2>2, <3>1, NthElement
  <2>4. NumberOf(s) - FunctionImports \in 0..(Cardinality(CodeSections) - 1)
        /\ k = NumberOf(s) - FunctionImports + 1
    BY <2>3, ModuleRead
  <2>5. NumberOf(s) \in Nat
    <3>1. {t \in CodeSections : t < s} \subseteq CodeSections
      OBVIOUS
    <3>2. Cardinality({t \in CodeSections : t < s}) \in Nat
      BY <2>1, <3>1, CountOneMore, FS_Subset, FS_CardinalityType
    <3> QED BY <2>1, <3>2 DEF NumberOf
  <2>6. NumberOf(s) = i
    BY <2>1, <2>4, <2>5 DEF k
  <2> QED BY <2>6 DEF HasCode, SectionOf
<1>3. HasCode(i) => Defined(module, i)
  BY <1>1 DEF HasCode
<1> QED BY <1>1, <1>2, <1>3

(* Whatever a binary holds, in whatever order, the module that was read has  *)
(* a profile for every code entry under the number wasm gives it, and none   *)
(* under another, and every profile counts what its body says: a loop is     *)
(* taken to be around an operator exactly when it has not been closed, and   *)
(* the callees are those of the calls in their order (wasm.rs 431-475).      *)
THEOREM ProfilesAreFaithful == Spec => []ProfileFaithful
<1>1. TypeOK /\ ReadInv => ProfileFaithful
  <2> SUFFICES ASSUME TypeOK, ReadInv, Parsed PROVE ProfileFaithful
    BY DEF ProfileFaithful
  <2>1. \A i \in Index : Defined(module, i) <=> HasCode(i)
    BY SizesAssumption, DefinedHasCode DEF Index
  <2>2. ASSUME NEW s \in CodeSections
        PROVE  /\ Defined(module, NumberOf(s))
               /\ ImportsFirst => Function(module, NumberOf(s)).index = NumberOf(s)
               /\ Describes(Function(module, NumberOf(s)), input.payloads[s].body)
    <3>1. /\ FunctionImports = module.imported_function_count
          /\ NumberOf(s) - FunctionImports \in 0..(Cardinality(CodeSections) - 1)
          /\ module.imported_function_count \in Nat
          /\ CodeSections \subseteq 1..Len(input.payloads) /\ Len(input.payloads) \in Nat
          /\ ImportsFirst =>
               module.functions[NumberOf(s) - FunctionImports + 1].index = NumberOf(s)
      BY ModuleRead
    <3>2. NumberOf(s) \in Nat
      <4>1. {t \in CodeSections : t < s} \subseteq CodeSections
        OBVIOUS
      <4>2. Cardinality({t \in CodeSections : t < s}) \in Nat
        BY <3>1, <4>1, CountOneMore, FS_Subset, FS_CardinalityType
      <4> QED BY <3>1, <4>2 DEF NumberOf
    <3>3. s \in SectionOf(NumberOf(s))
      BY DEF SectionOf
    <3>4. HasCode(NumberOf(s))
      BY <3>3 DEF HasCode
    <3> QED BY <3>1, <3>2, <3>3, <3>4, DefinedHasCode DEF Function
  <2> QED BY <2>1, <2>2 DEF ProfileFaithful
<1> QED BY <1>1, TypeCorrect, ReadInvariant, PTL

-----------------------------------------------------------------------------
(* What a function calls by its body is what the module that was read says.  *)
LEMMA CalledByIs ==
  ASSUME TypeOK, ReadInv, Parsed, NEW i \in Index
  PROVE  CalledBy(i) = CalleesOf(i) /\ CalledBy(i) \subseteq Index
<1>0. Callees(module, i) \in Seq(Index)
  BY CalleesType DEF TypeOK
<1>1. CASE HasCode(i)
  <2> DEFINE s == CHOOSE t \in SectionOf(i) : TRUE
             body == input.payloads[s].body
             f == Function(module, i)
             C == CallsIn(body)
  <2>1. s \in SectionOf(i)
    BY <1>1 DEF HasCode
  <2>2. Defined(module, i) /\ Describes(f, body)
    BY <1>1, <2>1, DefinedHasCode, SizesAssumption DEF Index
  <2>3. CalledBy(i) = {body[p].to : p \in C}
    BY <1>1 DEF CalledBy, CallsAt, CodeAt
  <2>4. CalleesOf(i) = ToSet(f.calls)
    BY <2>2 DEF CalleesOf, Callees
  <2>5. f.calls \in Seq(Index)
    BY <1>0, <2>2 DEF Callees
  <2>6. body \in Seq(Operator)
    <3>1. s \in DOMAIN input.payloads
      BY <2>1 DEF SectionOf, CodeSections
    <3>2. input.payloads \in Seq(Payload) /\ input.payloads[s].section = "code"
      BY <2>1 DEF TypeOK, Input, SectionOf, CodeSections
    <3> QED BY <3>1, <3>2, CodeBody
  <2> HIDE DEF s, f, body
  <2>7. C \subseteq 1..Len(body) /\ Len(body) \in Nat
    BY <2>6 DEF CallsIn
  <2>8. Len(f.calls) = Cardinality(C)
    BY <2>2 DEF Describes
  <2>9. \A p \in C : f.calls[Cardinality(Below(C, p))] = body[p].to
    BY <2>2 DEF Describes, Below
  <2> HIDE DEF C
  <2>10. ASSUME NEW p \in C PROVE body[p].to \in ToSet(f.calls)
    <3>1. Cardinality(Below(C, p)) \in 1..Len(f.calls)
      <4>1. p \in 1..Len(body)
        BY <2>7
      <4>2. Below(C, p) # {} /\ p \in Nat
        BY <4>1, BelowIs
      <4>3. Cardinality(Below(C, p)) \in Nat /\ Cardinality(Below(C, p)) <= Cardinality(C)
        BY <2>7, <4>2, BelowStep
      <4>4. IsFiniteSet(Below(C, p))
        <5>1. Below(C, p) \subseteq C
          BY BelowIs
        <5>2. IsFiniteSet(C)
          BY <2>7, CountOneMore
        <5> QED BY <5>1, <5>2, FS_Subset
      <4>5. Cardinality(Below(C, p)) # 0
        BY <4>2, <4>4, FS_EmptySet
      <4>6. Cardinality(C) \in Nat
        BY <2>7, CountOneMore
      <4> QED BY <2>8, <4>3, <4>5, <4>6
    <3>2. DOMAIN f.calls = 1..Len(f.calls)
      BY <2>5
    <3> QED BY <2>9, <3>1, <3>2 DEF ToSet
  <2>11. ASSUME NEW k \in DOMAIN f.calls PROVE \E p \in C : f.calls[k] = body[p].to
    <3>1. k \in 1..Cardinality(C)
      BY <2>5, <2>8
    <3>2. PICK p \in C : Cardinality(Below(C, p)) = k
      <4> DEFINE n == Len(body)
      <4>1. n \in Nat /\ C \subseteq 1..n
        BY <2>7
      <4> HIDE DEF n
      <4> QED BY <3>1, <4>1, NthElement
    <3> QED BY <2>9, <3>2
  <2>12. ASSUME NEW x \in ToSet(f.calls) PROVE x \in {body[p].to : p \in C}
    BY <2>11 DEF ToSet
  <2>13. \A x \in {body[p].to : p \in C} : x \in ToSet(f.calls)
    BY <2>10
  <2>14. ToSet(f.calls) \subseteq Index
    BY <2>5 DEF ToSet
  <2> HIDE DEF ToSet
  <2>15. {body[p].to : p \in C} = ToSet(f.calls)
    BY <2>12, <2>13
  <2> QED BY <2>3, <2>4, <2>14, <2>15
<1>2. CASE ~HasCode(i)
  <2>1. ~Defined(module, i)
    BY <1>2, DefinedHasCode, SizesAssumption DEF Index
  <2>2. CalledBy(i) = {} /\ CalleesOf(i) = {}
    BY <1>2, <2>1 DEF CalledBy, CallsAt, CalleesOf, Callees, ToSet
  <2> QED BY <2>2
<1> QED BY <1>1, <1>2

(* What a function can lead to holds its callees and is closed under calls.  *)
LEMMA DescendantsClosed ==
  ASSUME \A k \in Index : CalledBy(k) \subseteq Index, NEW i \in Index
  PROVE  /\ Descendants(i) \subseteq Index
         /\ CalledBy(i) \subseteq Descendants(i)
         /\ \A k \in Descendants(i) : CalledBy(k) \subseteq Descendants(i)
         /\ \A S \in SUBSET Index :
              CalledBy(i) \subseteq S /\ (\A k \in S : CalledBy(k) \subseteq S)
                => Descendants(i) \subseteq S
<1>1. Descendants(i) \subseteq Index
  BY DEF Descendants
<1>2. ASSUME NEW j \in CalledBy(i) PROVE j \in Descendants(i)
  BY <1>2 DEF Descendants
<1>3. ASSUME NEW k \in Descendants(i), NEW j \in CalledBy(k) PROVE j \in Descendants(i)
  <2>1. j \in Index
    BY <1>1, <1>3
  <2>2. ASSUME NEW S \in SUBSET Index, CalledBy(i) \subseteq S,
               \A m \in S : CalledBy(m) \subseteq S
        PROVE  j \in S
    <3>1. k \in S
      BY <1>3, <2>2 DEF Descendants
    <3> QED BY <1>3, <2>2, <3>1
  <2> QED BY <2>1, <2>2 DEF Descendants
<1>4. ASSUME NEW S \in SUBSET Index, CalledBy(i) \subseteq S,
             \A k \in S : CalledBy(k) \subseteq S
      PROVE  Descendants(i) \subseteq S
  BY <1>4 DEF Descendants
<1> QED BY <1>1, <1>2, <1>3, <1>4

(* Whatever a function leads to, it leads to by way of one of its callees.   *)
LEMMA FirstCall ==
  ASSUME \A k \in Index : CalledBy(k) \subseteq Index, NEW i \in Index,
         NEW j \in Descendants(i)
  PROVE  \E y \in CalledBy(i) : j = y \/ j \in Descendants(y)
<1> DEFINE S == {x \in Index : \E y \in CalledBy(i) : x = y \/ x \in Descendants(y)}
<1>1. CalledBy(i) \subseteq S
  OBVIOUS
<1>2. ASSUME NEW k \in S, NEW m \in CalledBy(k) PROVE m \in S
  <2>1. PICK y \in CalledBy(i) : k = y \/ k \in Descendants(y)
    BY <1>2
  <2>2. y \in Index /\ k \in Index /\ m \in Index
    BY <1>2, <2>1
  <2>3. m \in Descendants(y)
    BY <1>2, <2>1, <2>2, DescendantsClosed
  <2> QED BY <2>1, <2>2, <2>3
<1>3. S \in SUBSET Index
  OBVIOUS
<1> HIDE DEF S
<1>4. Descendants(i) \subseteq S
  BY <1>1, <1>2, <1>3, DescendantsClosed
<1> QED BY <1>4 DEF S

(* A callee that is InProgress closes a circle: every frame leads to those   *)
(* above it, the last one to the callee.                                     *)
LEMMA CircleIsRecursion ==
  ASSUME TypeOK, ReadInv, SearchInv, InCall, CallsBack(Callee)
  PROVE  Recursive(entry)
<1> DEFINE n == Len(frames)
           c == Callee
           D(k) == Descendants(frames[k].index)
<1>1. /\ frames # << >> /\ Top.next <= Len(Body) /\ c \in open /\ Parsed
      /\ FramesAreCalls /\ frames[1].index = entry
  BY DEF InCall, CallsBack, SearchInv, TypeOK, FinishedIsSafe
<1>2. /\ n \in Nat \ {0} /\ DOMAIN frames = 1..n /\ Top = frames[n]
      /\ \A k \in 1..n : frames[k].index \in Index /\ frames[k].next \in Nat \ {0}
      /\ DOMAIN Body = 1..Len(Body) /\ Len(Body) \in Nat
  BY <1>1, TopFacts
<1>3. \A k \in Index : CalledBy(k) = CalleesOf(k) /\ CalledBy(k) \subseteq Index
  BY <1>1, CalledByIs
<1>4. c \in CalledBy(frames[n].index)
  <2>1. Top.next \in DOMAIN Body
    BY <1>1, <1>2
  <2>2. c \in ToSet(Body)
    BY <2>1 DEF ToSet, Callee
  <2>3. CalledBy(frames[n].index) = ToSet(Body)
    BY <1>2, <1>3 DEF CalleesOf, Body
  <2> QED BY <2>2, <2>3
<1>5. ASSUME NEW k \in 1..(n - 1)
      PROVE  frames[k + 1].index \in CalledBy(frames[k].index)
  <2>1. k \in 1..n /\ k < n /\ k \in DOMAIN frames
    BY <1>2
  <2>2. /\ frames[k].next \in DOMAIN Callees(module, frames[k].index)
        /\ Callees(module, frames[k].index)[frames[k].next] = frames[k + 1].index
    BY <1>1, <2>1 DEF FramesAreCalls
  <2> QED BY <1>2, <1>3, <2>1, <2>2 DEF CalleesOf, ToSet
<1> HIDE DEF c, n
<1>6. ASSUME NEW m \in 1..n
      PROVE  /\ \A k \in 1..n : m < k => frames[k].index \in D(m)
             /\ c \in D(m)
  <2>0. /\ CalledBy(frames[m].index) \subseteq D(m)
        /\ \A k \in D(m) : CalledBy(k) \subseteq D(m)
    BY <1>2, <1>3, DescendantsClosed
  <2> HIDE DEF D
  <2>1. ASSUME NEW k \in 1..n, m < k PROVE frames[k].index \in D(m)
    <3> DEFINE T == {j \in Nat : j <= n /\ m < j /\ frames[j].index \notin D(m)}
    <3> SUFFICES ASSUME frames[k].index \notin D(m) PROVE FALSE
      OBVIOUS
    <3>1. T \subseteq Nat /\ T # {}
      BY <1>2, <2>1
    <3>2. PICK j \in T : \A x \in T : j <= x
      BY <3>1, LeastElement
    <3> DEFINE i == j - 1
    <3>3. i \in 1..(n - 1) /\ i + 1 = j /\ m <= i /\ i <= n /\ i \in Nat /\ frames[j].index \notin D(m)
      BY <1>2, <3>2
    <3>4. i \notin T
      BY <3>2, <3>3
    <3> HIDE DEF i
    <3>5. i = m \/ frames[i].index \in D(m)
      BY <3>3, <3>4
    <3>6. frames[j].index \in CalledBy(frames[i].index)
      BY <1>5, <3>3
    <3> QED BY <2>0, <3>3, <3>5, <3>6
  <2>2. m = n \/ frames[n].index \in D(m)
    BY <1>2, <2>1
  <2> QED BY <1>4, <2>0, <2>1, <2>2
<1>7. PICK m \in 1..n : frames[m].index = c
  BY <1>1, <1>2 DEF FramesAreCalls
<1>8. c \in D(m) /\ D(m) = Descendants(c)
  BY <1>6, <1>7
<1>9. m = 1 \/ c \in D(1)
  BY <1>2, <1>6, <1>7
<1>10. c = entry \/ c \in Descendants(entry)
  BY <1>1, <1>7, <1>9
<1> QED BY <1>8, <1>10 DEF Recursive

(* What is Done is closed and without a circle, so nothing in it leads to    *)
(* itself.                                                                   *)
LEMMA DoneIsNoRecursion ==
  ASSUME TypeOK, ReadInv, SearchInv, phase = "cycle", frames = << >>
  PROVE  ~Recursive(entry)
<1>1. /\ Parsed /\ entry \in finished /\ finished \subseteq Index
      /\ \A i \in finished : CalleesOf(i) \subseteq finished
      /\ Acyclic(finished)
  BY DEF SearchInv, TypeOK, FinishedIsSafe
<1>2. \A k \in Index : CalledBy(k) = CalleesOf(k) /\ CalledBy(k) \subseteq Index
  BY <1>1, CalledByIs
<1>3. ASSUME NEW i \in finished PROVE Descendants(i) \subseteq finished
  BY <1>1, <1>2, DescendantsClosed
<1>4. ASSUME NEW j \in {entry} \cup Descendants(entry), j \in Descendants(j) PROVE FALSE
  <2>1. j \in finished
    BY <1>1, <1>3
  <2> DEFINE s == {x \in Descendants(j) : j \in Descendants(x)}
  <2>2. s \in SUBSET finished /\ s # {}
    BY <1>3, <1>4, <2>1
  <2>3. PICK i \in s : CalleesOf(i) \cap s = {}
    BY <1>1, <2>2 DEF Acyclic
  <2>4. i \in Index /\ i \in Descendants(j) /\ j \in Descendants(i)
    BY <1>1, <2>2, <2>3
  <2>5. PICK y \in CalledBy(i) : j = y \/ j \in Descendants(y)
    BY <1>2, <2>4, FirstCall
  <2>6. y \in Descendants(j)
    BY <1>1, <1>2, <2>1, <2>4, DescendantsClosed
  <2>7. j \in Descendants(y)
    BY <1>4, <2>5
  <2> QED BY <1>2, <2>3, <2>4, <2>5, <2>6, <2>7
<1> QED BY <1>4 DEF Recursive

(* Which function is being estimated, and what has been answered.            *)
AnswerInv ==
  /\ phase \in {"reach", "cycle"} => entry = ExportIndex(Current)
  /\ \A k \in DOMAIN report : report[k].instructions_from_wasm => Parsed
  /\ RecursionExact

(* What the code is and leads to depends on the input alone.                 *)
LEMMA CodeKept ==
  ASSUME input' = input
  PROVE  \A j : /\ HasCode(j)' <=> HasCode(j)
                /\ CodeAt(j)' = CodeAt(j)
                /\ CallsAt(j)' = CallsAt(j)
                /\ CalledBy(j)' = CalledBy(j)
                /\ Descendants(j)' = Descendants(j)
<1>1. \A j : SectionOf(j)' = SectionOf(j)
  BY DEF SectionOf, NumberOf, FunctionImports, CodeSections
<1>2. \A j : (HasCode(j)' <=> HasCode(j)) /\ CodeAt(j)' = CodeAt(j)
  BY <1>1 DEF HasCode, CodeAt
<1>3. \A j : CallsAt(j)' = CallsAt(j)
  BY <1>2 DEF CallsAt
<1>4. \A j : CalledBy(j)' = CalledBy(j)
  BY <1>2, <1>3 DEF CalledBy
<1>5. \A j : Descendants(j)' = Descendants(j)
  BY <1>4 DEF Descendants
<1> QED BY <1>2, <1>3, <1>4, <1>5

LEMMA RecursiveKept ==
  ASSUME input' = input, NEW i
  PROVE  Recursive(i)' <=> Recursive(i)
<1>1. \A j : Descendants(j)' = Descendants(j)
  BY CodeKept
<1> QED BY <1>1 DEF Recursive

LEMMA AnswerAdded ==
  ASSUME TypeOK, AnswerInv, NEW e, NEW c \in BOOLEAN, NEW o, Emit(e, c, o),
         c => Parsed /\ (e.reason = "recursion" <=> Recursive(ExportIndex(Current)))
  PROVE  AnswerInv'
<1>1. /\ phase' \in {"idle", "panicked"} /\ input' = input /\ module' = module
      /\ reading' = reading
      /\ report' = report \/ report' = Append(report, BudgetOf(Current, e, c))
  BY DEF Emit, reader
<1>2. \A i : Recursive(i)' <=> Recursive(i)
  BY <1>1, RecursiveKept
<1>3. \A n : ExportIndex(n)' = ExportIndex(n)
  BY <1>1 DEF ExportIndex, ExportsOf
<1> DEFINE b == BudgetOf(Current, e, c)
<1>4. b.name = Current /\ b.instructions = e /\ b.instructions_from_wasm = c
  BY DEF BudgetOf
<1> HIDE DEF b
<1>5. ASSUME NEW k \in DOMAIN report'
      PROVE  report'[k].instructions_from_wasm =>
               /\ Parsed
               /\ report'[k].instructions.reason = "recursion"
                    <=> Recursive(ExportIndex(report'[k].name))
  <2>1. CASE report' = report
    BY <2>1, <1>5 DEF AnswerInv, RecursionExact
  <2>2. CASE report' = Append(report, b)
    <3>1. report \in Seq(EntryBudget)
      BY DEF TypeOK
    <3>2. /\ DOMAIN report' = 1..(Len(report) + 1)
          /\ \A i \in 1..Len(report) : report'[i] = report[i]
          /\ report'[Len(report) + 1] = b
          /\ DOMAIN report = 1..Len(report) /\ Len(report) \in Nat
      BY <2>2, <3>1, AppendProperties
    <3>3. k \in 1..Len(report) \/ k = Len(report) + 1
      BY <1>5, <3>2
    <3>4. CASE k \in DOMAIN report /\ report'[k] = report[k]
      BY <3>4 DEF AnswerInv, RecursionExact
    <3>5. CASE report'[k] = b
      BY <3>5, <1>4
    <3> QED BY <3>2, <3>3, <3>4, <3>5
  <2> QED BY <1>1, <2>1, <2>2 DEF b
<1> QED BY <1>1, <1>2, <1>3, <1>5 DEF AnswerInv, RecursionExact, Parsed

LEMMA AnswerInvariant == Spec => []AnswerInv
<1>1. Init => AnswerInv
  BY DEF Init, AnswerInv, RecursionExact
<1>2. TypeOK /\ ReadInv /\ SearchInv /\ AnswerInv /\ [Next]_vars => AnswerInv'
  <2> SUFFICES ASSUME TypeOK, ReadInv, SearchInv, AnswerInv, [Next]_vars
               PROVE  AnswerInv'
    OBVIOUS
  <2>0. ASSUME report' = report, input' = input, module' = module, reading' = reading,
               phase' \in {"reach", "cycle"} => entry' = ExportIndex(Current)'
        PROVE  AnswerInv'
    <3>1. \A i : Recursive(i)' <=> Recursive(i)
      BY <2>0, RecursiveKept
    <3>2. \A n : ExportIndex(n)' = ExportIndex(n)
      BY <2>0 DEF ExportIndex, ExportsOf
    <3>3. DOMAIN report' = DOMAIN report /\ (Parsed' <=> Parsed)
      BY <2>0 DEF Parsed
    <3>4. \A k \in DOMAIN report' : report'[k].instructions_from_wasm => Parsed'
      BY <2>0, <3>3 DEF AnswerInv
    <3>5. RecursionExact'
      BY <2>0, <3>1, <3>2, <3>3 DEF AnswerInv, RecursionExact
    <3> QED BY <2>0, <3>4, <3>5 DEF AnswerInv
  <2>1. CASE ReadModule
    <3>1. reading \in {"payloads", "body"} /\ UNCHANGED <<input, estimator>>
      BY <2>1, ReadingGoesOn DEF ReadModule
    <3>2. ~Parsed /\ report' = report /\ phase' = phase
      BY <3>1 DEF Parsed, estimator
    <3>3. phase' \notin {"reach", "cycle"}
      BY <3>2 DEF TypeOK
    <3>4. \A k \in DOMAIN report' : ~report'[k].instructions_from_wasm
      BY <3>2 DEF AnswerInv
    <3> QED BY <3>3, <3>4 DEF AnswerInv, RecursionExact
  <2>2. CASE EstimateFromSource
    BY <2>2, AnswerAdded DEF EstimateFromSource
  <2>3. CASE StartWalk
    <3>1. PICK i \in ExportsOf(Current) :
            /\ \A j \in ExportsOf(Current) : i <= j
            /\ entry' = module.exports[i].index
      BY <2>3 DEF StartWalk
    <3>2. report' = report /\ input' = input /\ module' = module /\ reading' = reading
          /\ todo' = todo
      BY <2>3 DEF StartWalk, reader
    <3>3. ExportsOf(Current) \subseteq Nat
      BY ModuleFields DEF ExportsOf, TypeOK, ReaderTypeOK
    <3>4. Min(ExportsOf(Current)) = i
      <4> DEFINE E == ExportsOf(Current)
      <4>1. i \in E /\ E \subseteq Nat /\ \A j \in E : i <= j
        BY <3>1, <3>3
      <4> HIDE DEF E
      <4>2. \A x \in E : (\A y \in E : x <= y) => x = i
        BY <4>1
      <4>3. Min(E) = i
        BY <4>1, <4>2 DEF Min
      <4> QED BY <4>3 DEF E
    <3>5. entry' = ExportIndex(Current)
      BY <3>1, <3>4 DEF ExportIndex
    <3>6. ExportIndex(Current)' = ExportIndex(Current)
      BY <3>2 DEF ExportIndex, ExportsOf, Current
    <3> QED BY <2>0, <3>2, <3>5, <3>6
  <2>4. CASE SkipReached \/ Reach \/ Search
    <3>1. /\ report' = report /\ input' = input /\ module' = module /\ reading' = reading
          /\ todo' = todo /\ entry' = entry /\ phase \in {"reach", "cycle"}
      BY <2>4 DEF SkipReached, Reach, Search, StartCycleSearch, PassFinished, Descend, Return,
                  InCall, reader
    <3>2. ExportIndex(Current)' = ExportIndex(Current)
      BY <3>1 DEF ExportIndex, ExportsOf, Current
    <3> QED BY <2>0, <3>1, <3>2 DEF AnswerInv
  <2>5. CASE ReportRecursion
    <3>1. phase = "cycle" /\ InCall /\ CallsBack(Callee) /\ Emit(Unknown("recursion"), TRUE, FALSE)
      BY <2>5 DEF ReportRecursion, InCall
    <3>2. Recursive(ExportIndex(Current)) /\ Parsed
      BY <3>1, CircleIsRecursion DEF AnswerInv, TypeOK
    <3>3. Unknown("recursion").reason = "recursion"
      BY DEF Unknown
    <3> QED BY <3>1, <3>2, <3>3, AnswerAdded
  <2>6. CASE Estimate
    <3>1. phase = "cycle" /\ frames = << >>
          /\ Emit(InstructionEstimate, TRUE, InstructionOverflows)
      BY <2>6 DEF Estimate
    <3>2. ~Recursive(ExportIndex(Current)) /\ Parsed
      BY <3>1, DoneIsNoRecursion DEF AnswerInv, TypeOK
    <3>3. InstructionEstimate.reason # "recursion"
      BY DEF InstructionEstimate, Unbounded, Exact
    <3> QED BY <3>1, <3>2, <3>3, AnswerAdded
  <2>7. CASE Detect
    <3>1. report' = report /\ input' = input /\ module' = module /\ reading' = reading
          /\ phase' = "done"
      BY <2>7 DEF Detect, reader
    <3> QED BY <2>0, <3>1
  <2>8. CASE UNCHANGED vars
    <3>1. report' = report /\ input' = input /\ module' = module /\ reading' = reading
          /\ phase' = phase /\ todo' = todo /\ entry' = entry
      BY <2>8 DEF vars, reader, estimator
    <3>2. ExportIndex(Current)' = ExportIndex(Current)
      BY <3>1 DEF ExportIndex, ExportsOf, Current
    <3> QED BY <2>0, <3>1, <3>2 DEF AnswerInv
  <2> QED BY <2>1, <2>2, <2>3, <2>4, <2>5, <2>6, <2>7, <2>8 DEF Next
<1> QED BY <1>1, <1>2, TypeCorrect, ReadInvariant, SearchInvariant, PTL DEF Spec

(* Recursion is reported for an entrypoint exactly when what it calls can    *)
(* call itself again, whatever the module's calls look like and in whatever  *)
(* order find_cycle follows them (budget.rs 496-500, 543-574).               *)
THEOREM RecursionIsExact == Spec => []RecursionExact
<1>1. AnswerInv => RecursionExact
  BY DEF AnswerInv
<1> QED BY <1>1, AnswerInvariant, PTL

-----------------------------------------------------------------------------
(* What fails for some subset of a finite set fails for one that is empty or *)
(* for which it holds without the member a fold takes out.                   *)
LEMMA LeastSubset ==
  ASSUME NEW S, IsFiniteSet(S), NEW B \in SUBSET (SUBSET S), B # {}
  PROVE  \E s \in B : s # {} => s \ {Chosen(s)} \notin B
<1> DEFINE sizes == {Cardinality(s) : s \in B}
<1>1. \A s \in B : Cardinality(s) \in Nat
  BY FS_Subset, FS_CardinalityType
<1>2. PICK n \in sizes : \A m \in sizes : n <= m
  <2>1. sizes \subseteq Nat /\ sizes # {}
    BY <1>1
  <2> HIDE DEF sizes
  <2> QED BY <2>1, LeastElement
<1>3. PICK s \in B : n = Cardinality(s)
  BY <1>2
<1>4. ASSUME s # {}, s \ {Chosen(s)} \in B PROVE FALSE
  <2>1. Cardinality(s \ {Chosen(s)}) = n - 1 /\ n \in Nat
    BY <1>3, <1>4, ChosenIn
  <2>2. n - 1 \in sizes
    BY <1>4, <2>1
  <2> HIDE DEF sizes
  <2> QED BY <1>2, <2>1, <2>2
<1> QED BY <1>4

(* A fold that is a sum, on every subset of its domain.                      *)
Sums(g, f, S) ==
  \A s \in SUBSET S : g[s] = IF s = {} THEN 0 ELSE f[Chosen(s)] + g[s \ {Chosen(s)}]

LEMMA SumsUnique ==
  ASSUME NEW S, IsFiniteSet(S), NEW f, NEW g, NEW h, Sums(g, f, S), Sums(h, f, S)
  PROVE  g[S] = h[S]
<1> DEFINE Bad == {s \in SUBSET S : g[s] # h[s]}
<1>1. SUFFICES ASSUME Bad # {} PROVE FALSE
  OBVIOUS
<1>2. PICK s \in Bad : s # {} => s \ {Chosen(s)} \notin Bad
  BY <1>1, LeastSubset
<1>3. s # {}
  BY <1>2 DEF Sums
<1>4. s \ {Chosen(s)} \in SUBSET S
  OBVIOUS
<1> QED BY <1>2, <1>3, <1>4 DEF Sums

LEMMA SumExists ==
  ASSUME NEW S, IsFiniteSet(S), NEW f \in [S -> Int]
  PROVE  \E g \in [SUBSET S -> Int] : Sums(g, f, S) /\ SumFunction(f) = g[S]
<1> DEFINE adding == [p \in S \X Int |-> f[p[1]] + p[2]]
           Iterates(i) == i = [s \in SUBSET S |->
                           IF s = {} THEN 0 ELSE f[Chosen(s)] + i[s \ {Chosen(s)}]]
           iter == CHOOSE i : Iterates(i)
<1>1. PICK g \in [SUBSET S -> Int] : Folds(g, SUBSET S, adding, 0)
  <2>1. adding \in [S \X Int -> Int] /\ 0 \in Int
    OBVIOUS
  <2> DEFINE I == Int
  <2>2. adding \in [S \X I -> I] /\ 0 \in I
    BY <2>1
  <2> HIDE DEF adding, Iterates, I
  <2>3. \E g \in [SUBSET S -> I] : Folds(g, SUBSET S, adding, 0)
    BY <2>2, FoldExists
  <2> QED BY <2>3 DEF I
<1>2. Sums(g, f, S)
  <2>1. ASSUME NEW s \in SUBSET S, s # {}
        PROVE  g[s] = f[Chosen(s)] + g[s \ {Chosen(s)}]
    BY <1>1, <2>1, ChosenIn DEF Folds
  <2>2. g[{}] = 0
    BY <1>1 DEF Folds
  <2> QED BY <2>1, <2>2 DEF Sums
<1>3. Iterates(g)
  BY <1>2 DEF Sums
<1>4. Iterates(iter)
  BY <1>3
<1>5. Sums(iter, f, S)
  <2> HIDE DEF iter
  <2> QED BY <1>4 DEF Sums
<1>6. SumFunction(f) = iter[S]
  BY DEF SumFunction, SumFunctionOnSet, FoldFunctionOnSet, MapThenFoldSet, Chosen
<1> HIDE DEF iter, Iterates
<1>7. iter[S] = g[S]
  BY <1>2, <1>5, SumsUnique
<1> QED BY <1>2, <1>6, <1>7

(* No term is larger than a sum of natural numbers.                          *)
LEMMA SumBounds ==
  ASSUME NEW S, IsFiniteSet(S), NEW f \in [S -> Nat]
  PROVE  SumFunction(f) \in Nat /\ \A x \in S : f[x] <= SumFunction(f)
<1>1. PICK g \in [SUBSET S -> Int] : Sums(g, f, S) /\ SumFunction(f) = g[S]
  <2>1. f \in [S -> Int]
    OBVIOUS
  <2> QED BY <2>1, SumExists
<1> DEFINE Holds(s) == g[s] \in Nat /\ \A x \in s : f[x] <= g[s]
           Bad == {s \in SUBSET S : ~Holds(s)}
<1>2. Bad = {}
  <2> SUFFICES ASSUME Bad # {} PROVE FALSE
    OBVIOUS
  <2>1. PICK s \in Bad : s # {} => s \ {Chosen(s)} \notin Bad
    BY LeastSubset
  <2>2. s # {}
    <3>1. g[{}] = 0
      BY <1>1 DEF Sums
    <3>2. Holds({})
      BY <3>1
    <3> HIDE DEF Holds
    <3> QED BY <2>1, <3>2
  <2> DEFINE c == Chosen(s)
             r == s \ {c}
  <2>3. c \in s /\ r \in SUBSET S
    BY <2>2, ChosenIn
  <2>4. Holds(r)
    <3> HIDE DEF Holds
    <3> QED BY <2>1, <2>2, <2>3
  <2>5. g[s] = f[c] + g[r] /\ f[c] \in Nat
    BY <1>1, <2>2, <2>3 DEF Sums
  <2>6. \A x \in s : f[x] \in Nat /\ (x = c \/ x \in r)
    OBVIOUS
  <2> HIDE DEF c, r
  <2>7. g[s] \in Nat /\ \A x \in s : f[x] <= g[s]
    BY <2>4, <2>5, <2>6
  <2> QED BY <2>1, <2>7
<1>3. Holds(S)
  <2> HIDE DEF Holds
  <2> QED BY <1>2
<1> QED BY <1>1, <1>3

(* Counting the members and adding what each is worth beyond one is adding   *)
(* what each is worth.                                                       *)
LEMMA SumOfExtras ==
  ASSUME NEW S, IsFiniteSet(S), NEW f \in [S -> Int], NEW e \in [S -> Int],
         \A x \in S : f[x] = e[x] + 1
  PROVE  Cardinality(S) + SumFunction(e) = SumFunction(f)
<1>1. PICK g \in [SUBSET S -> Int] : Sums(g, f, S) /\ SumFunction(f) = g[S]
  BY SumExists
<1>2. PICK h \in [SUBSET S -> Int] : Sums(h, e, S) /\ SumFunction(e) = h[S]
  BY SumExists
<1> DEFINE Holds(s) == Cardinality(s) + h[s] = g[s]
           Bad == {s \in SUBSET S : ~Holds(s)}
<1>3. Bad = {}
  <2> SUFFICES ASSUME Bad # {} PROVE FALSE
    OBVIOUS
  <2>1. PICK s \in Bad : s # {} => s \ {Chosen(s)} \notin Bad
    BY LeastSubset
  <2>2. s # {}
    <3>1. g[{}] = 0 /\ h[{}] = 0 /\ Cardinality({}) = 0
      BY <1>1, <1>2, FS_EmptySet DEF Sums
    <3>2. Holds({})
      BY <3>1
    <3> HIDE DEF Holds
    <3> QED BY <2>1, <3>2
  <2> DEFINE c == Chosen(s)
             r == s \ {c}
  <2>3. /\ c \in S /\ r \in SUBSET S /\ Cardinality(r) \in Nat
        /\ Cardinality(r) = Cardinality(s) - 1 /\ Cardinality(s) \in Nat
    BY <2>2, ChosenIn
  <2>4. Holds(r)
    <3> HIDE DEF Holds
    <3> QED BY <2>1, <2>2, <2>3
  <2>5. g[s] = f[c] + g[r] /\ h[s] = e[c] + h[r]
    BY <1>1, <1>2, <2>2 DEF Sums
  <2>6. f[c] = e[c] + 1 /\ e[c] \in Int /\ g[r] \in Int /\ h[r] \in Int
    BY <2>3
  <2> HIDE DEF c, r
  <2> QED BY <2>1, <2>3, <2>4, <2>5, <2>6
<1>4. Holds(S)
  <2> HIDE DEF Holds
  <2> QED BY <1>3
<1> QED BY <1>1, <1>2, <1>4

(* The points of a box whose sides have the lengths f: there is one for each *)
(* point of the box without side x and each step along x.                    *)
Box(f, M, s) == {v \in [s -> 1..M] : \A i \in s : v[i] <= f[i]}

LEMMA BoxGrows ==
  ASSUME NEW f, NEW M \in Nat, NEW s, NEW x \in s, f[x] \in 1..M,
         IsFiniteSet(Box(f, M, s \ {x}))
  PROVE  /\ IsFiniteSet(Box(f, M, s))
         /\ Cardinality(Box(f, M, s)) = Cardinality(Box(f, M, s \ {x})) * f[x]
<1> DEFINE r == s \ {x}
           pairs == Box(f, M, r) \X (1..f[x])
           up == [p \in pairs |-> [i \in s |-> IF i = x THEN p[2] ELSE p[1][i]]]
<1>1. ASSUME NEW p \in pairs PROVE up[p] \in Box(f, M, s)
  <2>1. p[1] \in [r -> 1..M] /\ (\A i \in r : p[1][i] <= f[i]) /\ p[2] \in 1..f[x]
    BY DEF Box
  <2>2. p[2] \in 1..M /\ p[2] <= f[x]
    BY <2>1
  <2>3. \A i \in s : i = x \/ i \in r
    OBVIOUS
  <2> HIDE DEF pairs, r
  <2>4. \A i \in s : (IF i = x THEN p[2] ELSE p[1][i]) \in 1..M
                     /\ (IF i = x THEN p[2] ELSE p[1][i]) <= f[i]
    BY <2>1, <2>2, <2>3
  <2> QED BY <2>4 DEF Box
<1>2. ASSUME NEW p \in pairs, NEW q \in pairs, up[p] = up[q] PROVE p = q
  <2>1. /\ p = <<p[1], p[2]>> /\ q = <<q[1], q[2]>>
        /\ p[1] \in [r -> 1..M] /\ q[1] \in [r -> 1..M]
    BY DEF Box
  <2>2. p[2] = q[2]
    <3>1. up[p][x] = p[2] /\ up[q][x] = q[2]
      OBVIOUS
    <3> QED BY <1>2, <3>1
  <2>3. \A i \in r : p[1][i] = q[1][i]
    <3>1. \A i \in r : up[p][i] = p[1][i] /\ up[q][i] = q[1][i]
      OBVIOUS
    <3> QED BY <1>2, <3>1
  <2>4. p[1] = q[1]
    <3> HIDE DEF r
    <3> QED BY <2>1, <2>3
  <2> QED BY <2>1, <2>2, <2>4
<1>3. ASSUME NEW v \in Box(f, M, s) PROVE \E p \in pairs : up[p] = v
  <2> DEFINE w == [i \in r |-> v[i]]
  <2>1. v \in [s -> 1..M] /\ \A i \in s : v[i] <= f[i]
    BY DEF Box
  <2>2. w \in Box(f, M, r) /\ v[x] \in 1..f[x]
    BY <2>1 DEF Box
  <2>3. <<w, v[x]>> \in pairs
    BY <2>2
  <2>4. up[<<w, v[x]>>] = [i \in s |-> IF i = x THEN v[x] ELSE w[i]]
    BY <2>3
  <2>5. \A i \in s : (IF i = x THEN v[x] ELSE w[i]) = v[i]
    OBVIOUS
  <2>6. v = [i \in s |-> v[i]]
    BY <2>1
  <2>7. up[<<w, v[x]>>] = v
    <3> HIDE DEF w, up
    <3> QED BY <2>4, <2>5, <2>6
  <2> QED BY <2>3, <2>7
<1>4. up \in Bijection(pairs, Box(f, M, s))
  <2>1. up \in [pairs -> Box(f, M, s)]
    BY <1>1
  <2> HIDE DEF up, pairs
  <2> QED BY <1>2, <1>3, <2>1 DEF Bijection, Injection, Surjection, IsInjective
<1>5. IsFiniteSet(1..f[x]) /\ Cardinality(1..f[x]) = f[x]
  BY FS_Interval
<1>6. IsFiniteSet(pairs) /\ Cardinality(pairs) = Cardinality(Box(f, M, r)) * f[x]
  BY <1>5, FS_Product
<1> HIDE DEF up, pairs
<1>7. ExistsBijection(pairs, Box(f, M, s))
  BY <1>4 DEF ExistsBijection
<1> QED BY <1>6, <1>7, FS_Bijection

LEMMA SaturateIs ==
  ASSUME NEW n \in Nat
  PROVE  Saturate(n) = IF n <= Largest THEN n ELSE Largest
<1>1. Largest \in Nat
  BY WidthsAssumption DEF Largest
<1>2. \E x \in {n, Largest} : \A y \in {n, Largest} : x <= y
  BY <1>1
<1>3. Min({n, Largest}) \in {n, Largest} /\ \A y \in {n, Largest} : Min({n, Largest}) <= y
  BY <1>2 DEF Min
<1> QED BY <1>1, <1>3 DEF Saturate

(* Cutting a factor to the width does not change a product that is cut.      *)
LEMMA SaturateTwice ==
  ASSUME NEW a \in Nat \ {0}, NEW b \in Nat
  PROVE  Saturate(a * Saturate(b)) = Saturate(b * a)
<1>1. Largest \in Nat
  BY WidthsAssumption DEF Largest
<1>2. CASE b <= Largest
  <2>1. Saturate(b) = b
    BY <1>2, SaturateIs
  <2>2. a * b = b * a
    OBVIOUS
  <2> QED BY <2>1, <2>2
<1>3. CASE b > Largest
  <2>1. Saturate(b) = Largest
    BY <1>1, <1>3, SaturateIs
  <2>2. a * Largest \in Nat /\ b * a \in Nat
    BY <1>1
  <2>3. a * Largest >= Largest /\ b * a >= b
    BY <1>1
  <2>4. Saturate(a * Largest) = Largest
    BY <1>1, <2>2, <2>3, SaturateIs
  <2>5. Saturate(b * a) = Largest
    BY <1>1, <1>3, <2>2, <2>3, SaturateIs
  <2> QED BY <2>1, <2>4, <2>5
<1> QED BY <1>1, <1>2, <1>3

(* A product cut to the width at every step is the size of a box that fits.  *)
LEMMA WeightIs ==
  ASSUME NEW S, IsFiniteSet(S), NEW M \in Nat, NEW f \in [S -> 1..M]
  PROVE  /\ IsFiniteSet(Box(f, M, S)) /\ Cardinality(Box(f, M, S)) \in Nat \ {0}
         /\ Cardinality(Box(f, M, S)) <= Largest =>
              FoldFunction(LAMBDA a, b : Saturate(a * b), 1, f) = Cardinality(Box(f, M, S))
<1> DEFINE size(s) == Cardinality(Box(f, M, s))
           Holds(s) == IsFiniteSet(Box(f, M, s)) /\ size(s) \in Nat \ {0}
           Bad == {s \in SUBSET S : ~Holds(s)}
<1> DEFINE Iterates(i) == i = [s \in SUBSET S |->
                           IF s = {} THEN 1 ELSE Saturate(f[Chosen(s)] * i[s \ {Chosen(s)}])]
           iter == CHOOSE i : Iterates(i)
<1>1. IsFiniteSet(Box(f, M, {})) /\ size({}) = 1
  <2>1. Box(f, M, {}) = {[i \in {} |-> i]}
    <3>1. \A v, w \in [{} -> 1..M] : v = w
      OBVIOUS
    <3>2. [i \in {} |-> i] \in [{} -> 1..M]
      OBVIOUS
    <3> QED BY <3>1, <3>2 DEF Box
  <2> QED BY <2>1, FS_Singleton
<1>2. ASSUME NEW s \in SUBSET S, s # {}, Holds(s \ {Chosen(s)})
      PROVE  Holds(s) /\ size(s) = size(s \ {Chosen(s)}) * f[Chosen(s)]
  <2>1. Chosen(s) \in s /\ f[Chosen(s)] \in 1..M
    BY <1>2, ChosenIn
  <2>2. IsFiniteSet(Box(f, M, s)) /\ size(s) = size(s \ {Chosen(s)}) * f[Chosen(s)]
    BY <1>2, <2>1, BoxGrows
  <2> DEFINE a == size(s \ {Chosen(s)})
             b == f[Chosen(s)]
  <2>3. a \in Nat \ {0} /\ b \in Nat \ {0} /\ size(s) = a * b
    BY <1>2, <2>1, <2>2
  <2> HIDE DEF a, b
  <2>4. a * b \in Nat \ {0}
    BY <2>3
  <2> QED BY <2>2, <2>3, <2>4
<1>3. Bad = {}
  <2> SUFFICES ASSUME Bad # {} PROVE FALSE
    OBVIOUS
  <2>1. PICK s \in Bad : s # {} => s \ {Chosen(s)} \notin Bad
    BY LeastSubset
  <2>2. s # {}
    <3>1. Holds({})
      BY <1>1
    <3> HIDE DEF Holds
    <3> QED BY <2>1, <3>1
  <2>3. s \ {Chosen(s)} \in SUBSET S
    OBVIOUS
  <2> HIDE DEF Holds
  <2> QED BY <1>2, <2>1, <2>2, <2>3
<1>4. \A s \in SUBSET S : Holds(s)
  <2> HIDE DEF Holds
  <2> QED BY <1>3
<1> DEFINE g == [s \in SUBSET S |-> IF s = {} THEN 1 ELSE Saturate(size(s))]
<1>5. ASSUME NEW s \in SUBSET S, s # {}
      PROVE  g[s] = Saturate(f[Chosen(s)] * g[s \ {Chosen(s)}])
  <2> DEFINE c == Chosen(s)
             r == s \ {c}
             a == f[c]
             b == size(r)
  <2>1. c \in s /\ r \in SUBSET S /\ a \in Nat \ {0}
    BY <1>5, ChosenIn
  <2>2. b \in Nat \ {0}
    BY <1>4, <2>1
  <2>3. g[s] = Saturate(b * a)
    BY <1>2, <1>4, <1>5, <2>1
  <2>4. CASE r = {}
    <3>1. b = 1 /\ g[r] = 1
      BY <1>1, <2>4
    <3> HIDE DEF a, b, r, g
    <3>2. a * 1 = 1 * a
      BY <2>1
    <3> QED BY <2>3, <3>1, <3>2 DEF a, r
  <2>5. CASE r # {}
    <3>1. g[r] = Saturate(b)
      BY <2>1, <2>5
    <3> HIDE DEF a, b, r, g
    <3>2. Saturate(a * Saturate(b)) = Saturate(b * a)
      BY <2>1, <2>2, SaturateTwice
    <3> QED BY <2>3, <3>1, <3>2 DEF a, r
  <2> QED BY <2>4, <2>5
<1>6. Iterates(g)
  <2>1. g[{}] = 1
    OBVIOUS
  <2>2. \A s \in SUBSET S :
          g[s] = IF s = {} THEN 1 ELSE Saturate(f[Chosen(s)] * g[s \ {Chosen(s)}])
    BY <1>5, <2>1
  <2>3. g = [s \in SUBSET S |-> g[s]]
    OBVIOUS
  <2> HIDE DEF g
  <2> QED BY <2>2, <2>3
<1>7. Iterates(iter)
  <2> HIDE DEF g, Iterates
  <2> QED BY <1>6
<1>8. iter[S] = g[S]
  <2> HIDE DEF g, iter
  <2>1. \A s \in SUBSET S :
          g[s] = IF s = {} THEN 1 ELSE Saturate(f[Chosen(s)] * g[s \ {Chosen(s)}])
    BY <1>6
  <2>2. \A s \in SUBSET S :
          iter[s] = IF s = {} THEN 1 ELSE Saturate(f[Chosen(s)] * iter[s \ {Chosen(s)}])
    BY <1>7
  <2> DEFINE Unlike == {s \in SUBSET S : iter[s] # g[s]}
  <2>3. SUFFICES ASSUME Unlike # {} PROVE FALSE
    OBVIOUS
  <2>4. PICK s \in Unlike : s # {} => s \ {Chosen(s)} \notin Unlike
    BY <2>3, LeastSubset
  <2>5. s # {}
    BY <2>1, <2>2, <2>4
  <2>6. s \ {Chosen(s)} \in SUBSET S
    OBVIOUS
  <2> QED BY <2>1, <2>2, <2>4, <2>5, <2>6
<1>9. FoldFunction(LAMBDA a, b : Saturate(a * b), 1, f) = iter[S]
  BY DEF FoldFunction, FoldFunctionOnSet, MapThenFoldSet, Chosen
<1>10. Holds(S)
  <2> HIDE DEF Holds
  <2> QED BY <1>4
<1>11. size(S) <= Largest => g[S] = size(S)
  BY <1>1, <1>10, SaturateIs
<1> HIDE DEF iter, Iterates, g
<1> QED BY <1>8, <1>9, <1>10, <1>11

(* The largest of a bounded set of numbers.                                  *)
LEMMA MaxIs ==
  ASSUME NEW B \in Nat, NEW T \in SUBSET (0..B), T # {}
  PROVE  Max(T) \in T /\ \A y \in T : Max(T) >= y
<1> DEFINE below == {B - y : y \in T}
<1>1. below \subseteq Nat /\ below # {}
  <2>1. \A y \in T : B - y \in Nat
    OBVIOUS
  <2> QED BY <2>1
<1>2. PICK n \in below : \A m \in below : n <= m
  <2> HIDE DEF below
  <2> QED BY <1>1, LeastElement
<1>3. PICK x \in T : n = B - x
  BY <1>2
<1>4. \A y \in T : x >= y
  <2> TAKE y \in T
  <2>1. B - y \in below /\ x \in Nat /\ y \in Nat
    OBVIOUS
  <2> HIDE DEF below
  <2> QED BY <1>2, <1>3, <2>1
<1> QED BY <1>4 DEF Max

(* The accesses of a function are executed once for each point of the box    *)
(* its literal loops span, and that is what loop_weight multiplies out.      *)
Countable(op) ==
  /\ Around(op) = Enclosing(op)
  /\ \A l \in Around(op) : input.loops[l].literal /\ input.loops[l].count > 0

LEMMA ExecutionsWeigh ==
  ASSUME TypeOK, NEW op, Countable(op)
  PROVE  /\ Cardinality(Executions(op)) \in Nat \ {0}
         /\ Cardinality(Executions(op)) <= Largest => LoopWeight(op) = Cardinality(Executions(op))
<1> DEFINE counts == {input.loops[i].count : i \in Around(op)} \cup {1}
           M == Max(counts)
           f == [i \in Enclosing(op) |-> input.loops[i].count]
<1>1. IsFiniteSet(Enclosing(op)) /\ Enclosing(op) \subseteq DOMAIN input.loops
      /\ \A i \in Enclosing(op) : input.loops[i].count \in 0..Largest
  <2>1. input.loops \in Seq(Loop)
    BY DEF TypeOK, Input
  <2>2. DOMAIN input.loops = 1..Len(input.loops) /\ Len(input.loops) \in Nat
    BY <2>1
  <2>3. IsFiniteSet(DOMAIN input.loops)
    BY <2>2, FS_Interval
  <2>4. Enclosing(op) \subseteq DOMAIN input.loops
    BY DEF Enclosing
  <2>5. \A i \in DOMAIN input.loops : input.loops[i] \in Loop
    BY <2>1
  <2>6. \A i \in DOMAIN input.loops : input.loops[i].count \in 0..Largest
    BY <2>5 DEF Loop, U64
  <2> QED BY <2>3, <2>4, <2>6, FS_Subset
<1>2. Largest + 1 \in Nat /\ Largest \in Nat
  BY WidthsAssumption DEF Largest
<1>3. M \in counts /\ \A y \in counts : M >= y
  <2>1. counts \in SUBSET (0..(Largest + 1)) /\ counts # {}
    BY <1>1, <1>2 DEF Countable
  <2> HIDE DEF counts
  <2> QED BY <1>2, <2>1, MaxIs
<1>4. \A i \in Enclosing(op) : input.loops[i].count \in counts /\ input.loops[i].count > 0
  BY DEF Countable
<1>5. counts \subseteq Nat
  BY <1>1, <1>2 DEF Countable
<1>6. M \in Nat /\ \A i \in Enclosing(op) : input.loops[i].count \in 1..M
  <2> HIDE DEF counts
  <2>1. M \in Nat
    BY <1>3, <1>5
  <2> HIDE DEF M
  <2>2. ASSUME NEW i \in Enclosing(op) PROVE input.loops[i].count \in 1..M
    <3> DEFINE y == input.loops[i].count
    <3>1. y \in counts /\ y > 0
      BY <1>4
    <3> HIDE DEF y
    <3>2. y \in Nat /\ M >= y
      BY <1>3, <1>5, <3>1
    <3>3. y \in 1..M
      BY <2>1, <3>1, <3>2
    <3> QED BY <3>3 DEF y
  <2> QED BY <2>1, <2>2
<1>7. Executions(op) = Box(f, M, Enclosing(op))
  BY DEF Executions, Box, Countable
<1>8. f \in [Enclosing(op) -> 1..M]
  <2> HIDE DEF M
  <2> QED BY <1>6
<1>9. LoopWeight(op) = FoldFunction(LAMBDA a, b : Saturate(a * b), 1, f)
  BY DEF LoopWeight
<1> HIDE DEF f, M
<1> QED BY <1>1, <1>6, <1>7, <1>8, <1>9, WeightIs

(* How often the accesses A are executed: the sum LedgerExact compares with. *)
TimesExecuted(A) == MapThenSumSet(LAMBDA i : Cardinality(Executions(input.storage_ops[i])), A)

LEMMA TimesExecutedIs ==
  ASSUME NEW A, IsFiniteSet(A), NEW c \in [A -> Int],
         \A i \in A : c[i] = Cardinality(Executions(input.storage_ops[i]))
  PROVE  TimesExecuted(A) = SumFunction(c)
<1> DEFINE Iterates(i) ==
             i = [s \in SUBSET A |->
                    IF s = {} THEN 0
                    ELSE Cardinality(Executions(input.storage_ops[Chosen(s)]))
                           + i[s \ {Chosen(s)}]]
           iter == CHOOSE i : Iterates(i)
<1>1. PICK g \in [SUBSET A -> Int] : Sums(g, c, A) /\ SumFunction(c) = g[A]
  BY SumExists
<1>2. \A s \in SUBSET A : s # {} => Chosen(s) \in A
  BY ChosenIn
<1>3. Iterates(g)
  <2>1. \A s \in SUBSET A :
          g[s] = IF s = {} THEN 0
                 ELSE Cardinality(Executions(input.storage_ops[Chosen(s)])) + g[s \ {Chosen(s)}]
    BY <1>1, <1>2 DEF Sums
  <2> QED BY <2>1
<1>4. Iterates(iter)
  <2> HIDE DEF Iterates
  <2> QED BY <1>3
<1>5. Sums(iter, c, A)
  <2> HIDE DEF iter
  <2> QED BY <1>2, <1>4 DEF Sums
<1>6. TimesExecuted(A) = iter[A]
  BY DEF TimesExecuted, MapThenSumSet, MapThenFoldSet, Chosen
<1> HIDE DEF iter, Iterates
<1>7. iter[A] = g[A]
  BY <1>1, <1>5, SumsUnique
<1> QED BY <1>1, <1>6, <1>7

LEMMA LedgerIsExact ==
  ASSUME TypeOK, NEW A, A \subseteq DOMAIN input.storage_ops,
         \A i \in A : Countable(input.storage_ops[i]), TimesExecuted(A) <= Largest
  PROVE  LedgerEstimate(A) = Exact(TimesExecuted(A))
<1> DEFINE c == [i \in A |-> Cardinality(Executions(input.storage_ops[i]))]
           e == [i \in A |-> Extra(input.storage_ops[i])]
<1>1. IsFiniteSet(A)
  BY AccessesFinite
<1>2. \A i \in A : Cardinality(Executions(input.storage_ops[i])) \in Nat \ {0}
  BY ExecutionsWeigh
<1>3. c \in [A -> Nat] /\ \A i \in A : c[i] \in Nat \ {0}
  BY <1>2
<1>4. TimesExecuted(A) = SumFunction(c)
  BY <1>1, <1>3, TimesExecutedIs
<1>5. SumFunction(c) \in Nat /\ \A i \in A : c[i] <= SumFunction(c)
  <2> HIDE DEF c
  <2> QED BY <1>1, <1>3, SumBounds
<1>6. Largest \in Nat /\ Largest + 1 = Width /\ Width \in Nat
  BY WidthsAssumption DEF Largest
<1>7. ASSUME NEW i \in A PROVE c[i] = e[i] + 1 /\ e[i] \in Int
  <2>1. Cardinality(Executions(input.storage_ops[i])) <= Largest
    <3>1. c[i] = Cardinality(Executions(input.storage_ops[i]))
      OBVIOUS
    <3> HIDE DEF c
    <3> QED BY <1>3, <1>4, <1>5, <1>6, <3>1
  <2>2. LoopWeight(input.storage_ops[i]) = Cardinality(Executions(input.storage_ops[i]))
    BY <2>1, ExecutionsWeigh
  <2> QED BY <1>2, <2>2 DEF Extra
<1>8. BoundedIn(A) = A
  BY DEF BoundedIn, Bounded, Countable
<1>9. LedgerBase(A) = SumFunction(c)
  <2>1. LedgerBase(A) = Cardinality(A) + SumFunction(e)
    BY <1>8 DEF LedgerBase
  <2>2. c \in [A -> Int] /\ e \in [A -> Int]
    BY <1>3, <1>7
  <2> HIDE DEF c, e
  <2> QED BY <1>1, <1>7, <2>1, <2>2, SumOfExtras
<1>10. Wrap(SumFunction(c)) = SumFunction(c)
  <2> HIDE DEF c
  <2>1. SumFunction(c) \in 0..(Width - 1)
    BY <1>4, <1>5, <1>6
  <2> QED BY <1>6, <2>1 DEF Wrap
<1> HIDE DEF c
<1> QED BY <1>4, <1>8, <1>9, <1>10 DEF LedgerEstimate

(* What loop_weight folds: a figure of the loops' counts.                     *)
Weighed(f) == FoldFunction(LAMBDA a, b : Saturate(a * b), 1, f)
Counts0(op) == [i \in Enclosing(op) |-> input.loops[i].count]
WeighedInv == \A op : LoopWeight(op) = Weighed(Counts0(op))

LEMMA WeightsAreWeighed == WeighedInv
BY DEF WeighedInv, LoopWeight, Weighed, Counts0

(* The ledger figures in the report are those of the entrypoint's accesses.  *)
LedgerInv ==
  \A k \in DOMAIN report :
    /\ report[k].reads = LedgerEstimate(ReadsOf(report[k].name))
    /\ report[k].writes = LedgerEstimate(WritesOf(report[k].name))

LEMMA LedgerKept ==
  ASSUME input' = input, WeighedInv, WeighedInv'
  PROVE  \A name : /\ LedgerEstimate(ReadsOf(name))' = LedgerEstimate(ReadsOf(name))
                   /\ LedgerEstimate(WritesOf(name))' = LedgerEstimate(WritesOf(name))
<1>1. \A op : Enclosing(op)' = Enclosing(op) /\ (Bounded(op)' <=> Bounded(op))
  BY DEF Enclosing, Bounded
<1>2. \A op : Counts0(op)' = Counts0(op)
  BY DEF Enclosing, Counts0
<1>3. \A op : LoopWeight(op)' = LoopWeight(op)
  BY <1>2 DEF WeighedInv
<1>4. \A op : Extra(op)' = Extra(op)
  BY <1>3 DEF Extra
<1>5. ASSUME NEW A PROVE LedgerEstimate(A)' = LedgerEstimate(A)
  <2>1. BoundedIn(A)' = BoundedIn(A)
    BY <1>1 DEF BoundedIn
  <2>2. LedgerBase(A)' = LedgerBase(A)
    <3> DEFINE extras == [i \in BoundedIn(A) |-> Extra(input.storage_ops[i])]
    <3>1. extras' = extras
      <4>1. \A i : Extra(input.storage_ops[i])' = Extra(input.storage_ops[i])
        BY <1>4
      <4> QED BY <2>1, <4>1
    <3>2. LedgerBase(A) = Cardinality(A) + SumFunction(extras)
      BY DEF LedgerBase
    <3>3. LedgerBase(A)' = Cardinality(A) + SumFunction(extras')
      BY DEF LedgerBase
    <3> HIDE DEF extras
    <3> QED BY <3>1, <3>2, <3>3
  <2> QED BY <2>1, <2>2 DEF LedgerEstimate, LedgerSum
<1>6. \A name : ReadsOf(name)' = ReadsOf(name) /\ WritesOf(name)' = WritesOf(name)
  BY DEF ReadsOf, WritesOf, Accesses
<1> QED BY <1>5, <1>6

LEMMA LedgersReported == Spec => []LedgerInv
<1>1. Init => LedgerInv
  BY DEF Init, LedgerInv
<1>2. TypeOK /\ WeighedInv /\ WeighedInv' /\ LedgerInv /\ [Next]_vars => LedgerInv'
  <2> SUFFICES ASSUME TypeOK, WeighedInv, WeighedInv', LedgerInv, [Next]_vars PROVE LedgerInv'
    OBVIOUS
  <2>1. input' = input
    BY DEF Next, vars, ReadModule, EstimateFromSource, StartWalk, SkipReached, Reach, Search,
           StartCycleSearch, PassFinished, Descend, Return, ReportRecursion, Estimate, Emit, Detect
  <2>2. \A name : /\ LedgerEstimate(ReadsOf(name))' = LedgerEstimate(ReadsOf(name))
                  /\ LedgerEstimate(WritesOf(name))' = LedgerEstimate(WritesOf(name))
    BY <2>1, LedgerKept
  <2>3. \/ report' = report
        \/ \E e, b : report' = Append(report, BudgetOf(Current, e, b))
    BY DEF Next, vars, ReadModule, EstimateFromSource, StartWalk, SkipReached, Reach, Search,
           StartCycleSearch, PassFinished, Descend, Return, ReportRecursion, Estimate, Emit, Detect,
           estimator
  <2>4. CASE report' = report
    BY <2>2, <2>4 DEF LedgerInv
  <2>5. ASSUME NEW e, NEW b, report' = Append(report, BudgetOf(Current, e, b))
        PROVE  LedgerInv'
    <3> DEFINE new == BudgetOf(Current, e, b)
    <3>1. /\ new.name = Current
          /\ new.reads = LedgerEstimate(ReadsOf(Current))
          /\ new.writes = LedgerEstimate(WritesOf(Current))
      BY DEF BudgetOf
    <3>2. Len(report) \in Nat /\ DOMAIN report = 1..Len(report)
      BY DEF TypeOK
    <3> HIDE DEF new
    <3>3. /\ DOMAIN report' = 1..(Len(report) + 1)
          /\ \A k \in 1..Len(report) : report'[k] = report[k]
          /\ report'[Len(report) + 1] = new
      <4>1. report' = Append(report, new) /\ report \in Seq(EntryBudget)
        BY <2>5 DEF new, TypeOK
      <4> QED BY <3>2, <4>1
    <3>4. \A k \in DOMAIN report' : k \in DOMAIN report \/ k = Len(report) + 1
      BY <3>2, <3>3
    <3>5. ASSUME NEW k \in DOMAIN report'
          PROVE  /\ report'[k].reads = LedgerEstimate(ReadsOf(report'[k].name))
                 /\ report'[k].writes = LedgerEstimate(WritesOf(report'[k].name))
      BY <3>1, <3>2, <3>3, <3>4 DEF LedgerInv
    <3> QED BY <2>2, <3>5 DEF LedgerInv
  <2> QED BY <2>3, <2>4, <2>5
<1>3. WeighedInv
  BY WeightsAreWeighed
<1> QED BY <1>1, <1>2, <1>3, TypeCorrect, PTL DEF Spec

(* Storage accesses in literal loops, nested ones too, are counted execution *)
(* by execution (source_ledger_usage and loop_weight, budget.rs:393-478):    *)
(* when every access of an entrypoint stands in such loops only and the sum  *)
(* fits the width, the ledger figures are the exact number of executions.    *)
THEOREM LedgersAreExact == Spec => []LedgerExact
<1>1. TypeOK /\ LedgerInv => LedgerExact
  <2> SUFFICES ASSUME TypeOK, LedgerInv, NEW k \in DOMAIN report
               PROVE  /\ LET A == ReadsOf(report[k].name)
                         IN /\ \A i \in A : Countable(input.storage_ops[i])
                            /\ TimesExecuted(A) <= Largest
                            => report[k].reads = Exact(TimesExecuted(A))
                      /\ LET A == WritesOf(report[k].name)
                         IN /\ \A i \in A : Countable(input.storage_ops[i])
                            /\ TimesExecuted(A) <= Largest
                            => report[k].writes = Exact(TimesExecuted(A))
    BY DEF LedgerExact, Countable, TimesExecuted
  <2>1. /\ ReadsOf(report[k].name) \subseteq DOMAIN input.storage_ops
        /\ WritesOf(report[k].name) \subseteq DOMAIN input.storage_ops
    BY DEF ReadsOf, WritesOf, Accesses
  <2> QED BY <2>1, LedgerIsExact DEF LedgerInv
<1> QED BY <1>1, TypeCorrect, LedgersReported, PTL

-----------------------------------------------------------------------------
(* What fails for some subset of a finite set fails for a smallest one.      *)
LEMMA SmallestSubset ==
  ASSUME NEW S, IsFiniteSet(S), NEW B \in SUBSET (SUBSET S), B # {}
  PROVE  \E s \in B : \A t \in SUBSET s : t # s => t \notin B
<1> DEFINE sizes == {Cardinality(s) : s \in B}
<1>1. \A s \in B : IsFiniteSet(s) /\ Cardinality(s) \in Nat
  BY FS_Subset, FS_CardinalityType
<1>2. PICK n \in sizes : \A m \in sizes : n <= m
  <2>1. sizes \subseteq Nat /\ sizes # {}
    BY <1>1
  <2> HIDE DEF sizes
  <2> QED BY <2>1, LeastElement
<1>3. PICK s \in B : n = Cardinality(s)
  BY <1>2
<1>4. ASSUME NEW t \in SUBSET s, t # s, t \in B PROVE FALSE
  <2>1. Cardinality(t) < n /\ n \in Nat /\ Cardinality(t) \in Nat
    BY <1>1, <1>3, <1>4, FS_Subset
  <2>2. Cardinality(t) \in sizes
    BY <1>4
  <2> HIDE DEF sizes
  <2> QED BY <1>2, <2>1, <2>2
<1> QED BY <1>4

(* A sum over every subset of S.                                             *)
AddsUp(g, f, S) == f \in [S -> Int] /\ g \in [SUBSET S -> Int] /\ Sums(g, f, S)

(* A sum may take out any member first.                                      *)
Picks(g, f, S) == \A s \in SUBSET S : \A x \in s : g[s] = f[x] + g[s \ {x}]

LEMMA SumPicks ==
  ASSUME NEW S, IsFiniteSet(S), NEW f, NEW g,
         AddsUp(g, f, S)
  PROVE  Picks(g, f, S)
<1> f \in [S -> Int] /\ g \in [SUBSET S -> Int] /\ Sums(g, f, S)
  BY DEF AddsUp
<1> DEFINE Bad == {t \in SUBSET S : \E y \in t : g[t] # f[y] + g[t \ {y}]}
<1>1. SUFFICES ASSUME Bad # {} PROVE FALSE
  BY DEF Picks
<1>2. PICK t \in Bad : \A r \in SUBSET t : r # t => r \notin Bad
  <2>1. Bad \in SUBSET (SUBSET S)
    OBVIOUS
  <2> HIDE DEF Bad
  <2> QED BY <1>1, <2>1, SmallestSubset
<1>3. PICK y \in t : g[t] # f[y] + g[t \ {y}]
  BY <1>2
<1> DEFINE c == Chosen(t)
           both == (t \ {c}) \ {y}
<1>4. t \in SUBSET S /\ c \in t /\ g[t] = f[c] + g[t \ {c}]
  BY <1>2, <1>3, ChosenIn DEF Sums
<1> HIDE DEF c
<1>5. c # y
  BY <1>3, <1>4
<1>6. t \ {c} \notin Bad /\ t \ {y} \notin Bad
  <2> HIDE DEF Bad
  <2> QED BY <1>2, <1>3, <1>4
<1>7. g[t \ {c}] = f[y] + g[both]
  BY <1>3, <1>4, <1>5, <1>6
<1>8. (t \ {y}) \ {c} = both
  OBVIOUS
<1>9. g[t \ {y}] = f[c] + g[(t \ {y}) \ {c}]
  BY <1>3, <1>4, <1>5, <1>6
<1>10. f[c] \in Int /\ f[y] \in Int /\ g[both] \in Int
  BY <1>3, <1>4
<1>11. g[t] = f[c] + (f[y] + g[both]) /\ g[t \ {y}] = f[c] + g[both]
  BY <1>4, <1>7, <1>8, <1>9
<1>12. g[t] # f[y] + g[t \ {y}]
  BY <1>3
<1> HIDE DEF both, Bad
<1>13. g[t] = f[y] + (f[c] + g[both])
  BY <1>10, <1>11
<1> QED BY <1>11, <1>12, <1>13

(* Adding up over a part is the sum the part has.                            *)
LEMMA SumRestricts ==
  ASSUME NEW S, IsFiniteSet(S), NEW f, NEW g,
         AddsUp(g, f, S), NEW T \in SUBSET S, NEW e, e = [x \in T |-> f[x]]
  PROVE  SumFunction(e) = g[T]
<1> f \in [S -> Int] /\ g \in [SUBSET S -> Int] /\ Sums(g, f, S)
  BY DEF AddsUp
<1>1. IsFiniteSet(T) /\ e \in [T -> Int]
  BY FS_Subset
<1>2. PICK h \in [SUBSET T -> Int] : Sums(h, e, T) /\ SumFunction(e) = h[T]
  BY <1>1, SumExists
<1>3. \A s \in SUBSET T : s # {} => Chosen(s) \in T
  BY <1>1, ChosenIn
<1>4. Sums(g, e, T)
  <2>1. ASSUME NEW s \in SUBSET T, s # {} PROVE g[s] = e[Chosen(s)] + g[s \ {Chosen(s)}]
    <3>1. e[Chosen(s)] = f[Chosen(s)] /\ s \in SUBSET S
      BY <1>3, <2>1
    <3> QED BY <2>1, <3>1 DEF Sums
  <2>2. g[{}] = 0
    BY DEF Sums
  <2> QED BY <2>1, <2>2 DEF Sums
<1> QED BY <1>1, <1>2, <1>4, SumsUnique

(* Sums over sets that have nothing in common add up.                        *)
LEMMA SumJoins ==
  ASSUME NEW S, IsFiniteSet(S), NEW f, NEW g,
         AddsUp(g, f, S)
  PROVE  \A T, U \in SUBSET S : T \cap U = {} => g[T \cup U] = g[T] + g[U]
<1>a. Picks(g, f, S)
  BY SumPicks
<1> f \in [S -> Int] /\ g \in [SUBSET S -> Int] /\ Sums(g, f, S)
  BY DEF AddsUp
<1>0. SUFFICES ASSUME NEW T \in SUBSET S, NEW U \in SUBSET S, T \cap U = {}
               PROVE  g[T \cup U] = g[T] + g[U]
  OBVIOUS
<1> DEFINE Holds(u) == g[T \cup u] = g[T] + g[u]
           Bad == {u \in SUBSET U : ~Holds(u)}
<1>1. Bad = {}
  <2> SUFFICES ASSUME Bad # {} PROVE FALSE
    OBVIOUS
  <2>0. IsFiniteSet(U)
    BY FS_Subset
  <2>1. PICK u \in Bad : u # {} => u \ {Chosen(u)} \notin Bad
    <3>1. Bad \in SUBSET (SUBSET U)
      OBVIOUS
    <3> HIDE DEF Bad
    <3> QED BY <2>0, <3>1, LeastSubset
  <2>2. u # {}
    <3>1. g[{}] = 0 /\ T \cup {} = T /\ g[T] \in Int
      BY DEF Sums
    <3>2. Holds({})
      BY <3>1
    <3> HIDE DEF Holds
    <3> QED BY <2>1, <3>2
  <2> DEFINE c == Chosen(u)
             r == u \ {c}
  <2>3. c \in u /\ u \in SUBSET U /\ r \in SUBSET U
    BY <2>0, <2>2, ChosenIn
  <2>4. Holds(r)
    <3> HIDE DEF Holds
    <3> QED BY <2>1, <2>2, <2>3
  <2> HIDE DEF c
  <2>5. (T \cup u) \ {c} = T \cup r
    BY <1>0, <2>3
  <2>6. g[T \cup u] = f[c] + g[T \cup r] /\ g[u] = f[c] + g[r]
    <3>1. c \in T \cup u /\ T \cup u \in SUBSET S /\ u \in SUBSET S
      BY <2>3
    <3>2. g[T \cup u] = f[c] + g[(T \cup u) \ {c}]
      BY <1>a, <3>1 DEF Picks
    <3>3. g[u] = f[c] + g[u \ {c}]
      BY <1>a, <2>3, <3>1 DEF Picks
    <3> QED BY <2>5, <3>2, <3>3
  <2>7. f[c] \in Int /\ g[r] \in Int /\ g[T] \in Int
    BY <2>3
  <2> HIDE DEF r
  <2>8. Holds(u)
    BY <2>4, <2>6, <2>7
  <2> HIDE DEF Holds
  <2> QED BY <2>1, <2>8
<1>2. Holds(U)
  <2> HIDE DEF Holds
  <2> QED BY <1>1
<1> QED BY <1>2

(* Of natural numbers, a part sums up to no more than the whole, and two     *)
(* sets that may share members to no more than each on its own.              *)
LEMMA SumShrinks ==
  ASSUME NEW S, IsFiniteSet(S), NEW f, NEW g,
         AddsUp(g, f, S), \A x \in S : f[x] \in Nat, NEW T \in SUBSET S, NEW U \in SUBSET S
  PROVE  /\ g[T] \in Nat
         /\ T \subseteq U => g[T] <= g[U]
         /\ g[T \cup U] <= g[T] + g[U]
<1>a. \A V, W \in SUBSET S : V \cap W = {} => g[V \cup W] = g[V] + g[W]
  BY SumJoins
<1> f \in [S -> Int] /\ g \in [SUBSET S -> Int] /\ Sums(g, f, S)
  BY DEF AddsUp
<1>1. ASSUME NEW V \in SUBSET S PROVE g[V] \in Nat
  <2> DEFINE e == [x \in V |-> f[x]]
  <2>1. e \in [V -> Nat] /\ IsFiniteSet(V)
    BY FS_Subset
  <2>2. SumFunction(e) = g[V]
    <3> HIDE DEF e
    <3> QED BY SumRestricts DEF e
  <2> HIDE DEF e
  <2> QED BY <2>1, <2>2, SumBounds
<1>2. ASSUME NEW V \in SUBSET S, NEW W \in SUBSET S, V \subseteq W PROVE g[V] <= g[W]
  <2> DEFINE R == W \ V
  <2>1. V \cap R = {} /\ R \in SUBSET S
    OBVIOUS
  <2>2. W = V \cup R
    BY <1>2
  <2> HIDE DEF R
  <2>3. g[V \cup R] = g[V] + g[R]
    BY <1>a, <2>1
  <2>4. g[V] \in Nat /\ g[R] \in Nat
    BY <1>1, <2>1
  <2> QED BY <2>2, <2>3, <2>4
<1>3. ASSUME NEW V \in SUBSET S, NEW W \in SUBSET S PROVE g[V \cup W] <= g[V] + g[W]
  <2> DEFINE R == W \ V
  <2>1. V \cap R = {} /\ R \in SUBSET S
    OBVIOUS
  <2>2. V \cup W = V \cup R
    OBVIOUS
  <2>3. R \subseteq W
    OBVIOUS
  <2> HIDE DEF R
  <2>4. g[V \cup R] = g[V] + g[R]
    BY <1>a, <2>1
  <2>5. g[R] <= g[W]
    BY <1>2, <2>1, <2>3
  <2>6. g[V] \in Nat /\ g[R] \in Nat /\ g[W] \in Nat
    BY <1>1, <2>1
  <2>7. g[V \cup W] = g[V \cup R]
    BY <2>2
  <2> QED BY <2>4, <2>5, <2>6, <2>7
<1> QED BY <1>1, <1>2, <1>3

(* Sums are added member by member.                                          *)
LEMMA SumAdds ==
  ASSUME NEW S, IsFiniteSet(S), NEW a \in [S -> Int], NEW b \in [S -> Int], NEW f \in [S -> Int],
         \A x \in S : f[x] = a[x] + b[x]
  PROVE  SumFunction(f) = SumFunction(a) + SumFunction(b)
<1>1. PICK g \in [SUBSET S -> Int] : Sums(g, a, S) /\ SumFunction(a) = g[S]
  BY SumExists
<1>2. PICK h \in [SUBSET S -> Int] : Sums(h, b, S) /\ SumFunction(b) = h[S]
  BY SumExists
<1>3. PICK i \in [SUBSET S -> Int] : Sums(i, f, S) /\ SumFunction(f) = i[S]
  BY SumExists
<1> DEFINE j == [s \in SUBSET S |-> g[s] + h[s]]
<1>4. Sums(j, f, S)
  <2>1. ASSUME NEW s \in SUBSET S, s # {} PROVE j[s] = f[Chosen(s)] + j[s \ {Chosen(s)}]
    <3> DEFINE c == Chosen(s)
    <3>1. c \in S /\ s \ {c} \in SUBSET S
      BY <2>1, ChosenIn
    <3>2. g[s] = a[c] + g[s \ {c}] /\ h[s] = b[c] + h[s \ {c}]
      BY <1>1, <1>2, <2>1 DEF Sums
    <3> HIDE DEF c
    <3>3. a[c] \in Int /\ b[c] \in Int /\ g[s \ {c}] \in Int /\ h[s \ {c}] \in Int
      BY <3>1
    <3> QED BY <3>1, <3>2, <3>3 DEF c
  <2>2. j[{}] = 0
    <3>1. g[{}] = 0 /\ h[{}] = 0 /\ {} \in SUBSET S
      BY <1>1, <1>2 DEF Sums
    <3> QED BY <3>1
  <2> HIDE DEF j
  <2> QED BY <2>1, <2>2 DEF Sums
<1>5. j[S] = g[S] + h[S]
  OBVIOUS
<1> HIDE DEF j
<1>6. i[S] = j[S]
  BY <1>3, <1>4, SumsUnique
<1> QED BY <1>1, <1>2, <1>3, <1>5, <1>6

(* Where every member counts for nothing, so does the sum.                   *)
LEMMA SumOfNothing ==
  ASSUME NEW S, IsFiniteSet(S), NEW f, NEW g,
         AddsUp(g, f, S), NEW T \in SUBSET S, \A x \in T : f[x] = 0
  PROVE  g[T] = 0
<1> f \in [S -> Int] /\ g \in [SUBSET S -> Int] /\ Sums(g, f, S)
  BY DEF AddsUp
<1> DEFINE Bad == {s \in SUBSET T : g[s] # 0}
<1>1. SUFFICES ASSUME Bad # {} PROVE FALSE
  OBVIOUS
<1>2. IsFiniteSet(T)
  BY FS_Subset
<1>3. PICK s \in Bad : s # {} => s \ {Chosen(s)} \notin Bad
  BY <1>1, <1>2, LeastSubset
<1>4. s # {}
  BY <1>3 DEF Sums
<1>5. Chosen(s) \in T /\ s \ {Chosen(s)} \in SUBSET T /\ s \in SUBSET S
  BY <1>2, <1>3, <1>4, ChosenIn
<1>6. g[s] = f[Chosen(s)] + g[s \ {Chosen(s)}]
  BY <1>4, <1>5 DEF Sums
<1>7. g[s \ {Chosen(s)}] = 0
  BY <1>3, <1>4, <1>5
<1> QED BY <1>3, <1>5, <1>6, <1>7

(* A sum over any set of functions, as far as joining such sets goes.        *)
Measures(g, S) ==
  /\ g[{}] = 0
  /\ \A T, U \in SUBSET S : /\ g[T \cup U] <= g[T] + g[U]
                            /\ T \cap U = {} => g[T \cup U] = g[T] + g[U]

(* Numbers that are never negative measure sets.                             *)
LEMMA SumMeasures ==
  ASSUME NEW S, IsFiniteSet(S), NEW w, NEW g, AddsUp(g, w, S), \A x \in S : w[x] \in Nat
  PROVE  Measures(g, S)
<1>1. g[{}] = 0
  BY DEF AddsUp, Sums
<1>2. ASSUME NEW T \in SUBSET S, NEW U \in SUBSET S
      PROVE  g[T \cup U] <= g[T] + g[U]
  BY SumShrinks
<1>3. ASSUME NEW T \in SUBSET S, NEW U \in SUBSET S, T \cap U = {}
      PROVE  g[T \cup U] = g[T] + g[U]
  <2>1. \A V, W \in SUBSET S : V \cap W = {} => g[V \cup W] = g[V] + g[W]
    BY SumJoins
  <2> QED BY <1>3, <2>1
<1> QED BY <1>1, <1>2, <1>3 DEF Measures

(* The calls P of one body: a call p leads to the functions A[p], for which  *)
(* the cost t[p] is reckoned and k more for the call, f[p] together.         *)
Branches(g, S, P, A, U, t, k, f) ==
  /\ g \in [SUBSET S -> Int] /\ Measures(g, S)
  /\ IsFiniteSet(P)
  /\ A \in [P -> SUBSET S] /\ U = UNION {A[p] : p \in P}
  /\ t \in [P -> Int] /\ k \in Nat
  /\ f \in [P -> Int] /\ \A p \in P : f[p] = k + t[p]

(* What the calls of one body add up to, against the sum over all that they  *)
(* lead to: no less than it, each call paid for, and just as much when no    *)
(* two of them lead to the same.                                             *)
LEMMA CallsAddUp ==
  ASSUME NEW g, NEW S, NEW P, NEW A, NEW U, NEW t, NEW k, NEW f,
         Branches(g, S, P, A, U, t, k, f)
  PROVE  /\ (\A p \in P : g[A[p]] <= t[p]) => Cardinality(P) * k + g[U] <= SumFunction(f)
         /\ (\A p \in P : g[A[p]] = t[p])
              /\ (\A p, q \in P : p # q => A[p] \cap A[q] = {})
              => Cardinality(P) * k + g[U] = SumFunction(f)
<1> /\ g \in [SUBSET S -> Int] /\ Measures(g, S) /\ IsFiniteSet(P)
    /\ A \in [P -> SUBSET S] /\ t \in [P -> Int] /\ k \in Nat
    /\ f \in [P -> Int] /\ \A p \in P : f[p] = k + t[p]
  BY DEF Branches
<1> DEFINE Under(s) == UNION {A[p] : p \in s}
<1>1. PICK h \in [SUBSET P -> Int] : Sums(h, f, P) /\ SumFunction(f) = h[P]
  BY SumExists
<1> DEFINE Least(s) == Cardinality(s) * k + g[Under(s)] <= h[s]
           Same(s) == Cardinality(s) * k + g[Under(s)] = h[s]
<1>2. Cardinality({}) * k + g[Under({})] = 0 /\ h[{}] = 0
  <2>1. Under({}) = {} /\ g[{}] = 0 /\ h[{}] = 0 /\ Cardinality({}) = 0
    BY <1>1, FS_EmptySet DEF Sums, Measures
  <2>2. 0 * k = 0
    OBVIOUS
  <2> HIDE DEF Under
  <2>3. Cardinality({}) * k = 0 /\ g[Under({})] = 0
    BY <2>1, <2>2
  <2> QED BY <2>1, <2>3
<1>3. ASSUME NEW s \in SUBSET P, s # {}
      PROVE  LET c == Chosen(s)
                 r == s \ {c}
             IN /\ c \in P /\ r \in SUBSET P /\ c \notin r /\ r \in SUBSET s
                /\ Cardinality(s) * k = Cardinality(r) * k + k /\ Cardinality(r) * k \in Int
                /\ h[s] = (k + t[c]) + h[r] /\ t[c] \in Int /\ h[r] \in Int
                /\ A[c] \in SUBSET S /\ Under(r) \in SUBSET S
                /\ Under(s) = A[c] \cup Under(r)
  <2> DEFINE c == Chosen(s)
             r == s \ {c}
  <2>1. c \in s /\ r \in SUBSET s /\ Cardinality(r) = Cardinality(s) - 1
        /\ Cardinality(s) \in Nat /\ Cardinality(r) \in Nat
    BY <1>3, ChosenIn
  <2>2. h[s] = f[c] + h[r]
    BY <1>1, <1>3 DEF Sums
  <2> HIDE DEF c
  <2>3. c \in P /\ r \in SUBSET P /\ c \notin r /\ s = {c} \cup r
    BY <2>1
  <2>4. A[c] \in SUBSET S /\ Under(r) \in SUBSET S
    BY <2>3
  <2>5. Under(s) = A[c] \cup Under(r)
    BY <2>3
  <2> HIDE DEF r, Under
  <2>6. Cardinality(s) * k = Cardinality(r) * k + k /\ Cardinality(r) * k \in Int
    <3> DEFINE m == Cardinality(r)
    <3>1. m \in Nat /\ Cardinality(s) = m + 1
      BY <2>1
    <3> HIDE DEF m
    <3>2. (m + 1) * k = m * k + k /\ m * k \in Int
      BY <3>1
    <3> QED BY <3>1, <3>2 DEF m
  <2>7. f[c] = k + t[c] /\ t[c] \in Int /\ h[r] \in Int
    BY <2>3
  <2> QED BY <2>1, <2>2, <2>3, <2>4, <2>5, <2>6, <2>7 DEF c, r
<1>4. ASSUME \A p \in P : g[A[p]] <= t[p] PROVE Least(P)
  <2> DEFINE Bad == {s \in SUBSET P : ~Least(s)}
  <2>1. SUFFICES ASSUME Bad # {} PROVE FALSE
    OBVIOUS
  <2>2. PICK s \in Bad : s # {} => s \ {Chosen(s)} \notin Bad
    <3>1. Bad \in SUBSET (SUBSET P)
      OBVIOUS
    <3> HIDE DEF Bad
    <3> QED BY <2>1, <3>1, LeastSubset
  <2>3. s # {}
    <3>1. Least({})
      <4> HIDE DEF Under
      <4> QED BY <1>2
    <3> HIDE DEF Least
    <3> QED BY <2>2, <3>1
  <2> DEFINE c == Chosen(s)
             r == s \ {c}
  <2>4. /\ c \in P /\ r \in SUBSET P
        /\ Cardinality(s) * k = Cardinality(r) * k + k /\ Cardinality(r) * k \in Int
        /\ h[s] = (k + t[c]) + h[r] /\ t[c] \in Int /\ h[r] \in Int
        /\ A[c] \in SUBSET S /\ Under(r) \in SUBSET S
        /\ Under(s) = A[c] \cup Under(r)
    <3> HIDE DEF Under, Least
    <3> QED BY <1>3, <2>2, <2>3
  <2>5. Least(r)
    <3> HIDE DEF Least
    <3> QED BY <2>2, <2>3, <2>4
  <2> HIDE DEF c, r, Under
  <2>6. g[A[c] \cup Under(r)] <= g[A[c]] + g[Under(r)] /\ g[A[c]] <= t[c]
    <3> DEFINE T == A[c]
               R == Under(r)
    <3>1. T \in SUBSET S /\ R \in SUBSET S
      BY <2>4
    <3>2. g[A[c]] <= t[c]
      BY <1>4, <2>4
    <3> HIDE DEF T, R
    <3>3. g[T \cup R] <= g[T] + g[R]
      BY <3>1 DEF Measures
    <3> QED BY <3>2, <3>3 DEF T, R
  <2>7. g[A[c]] \in Int /\ g[Under(r)] \in Int /\ g[Under(s)] \in Int
    BY <2>4
  <2>8. g[Under(s)] <= t[c] + g[Under(r)]
    BY <2>4, <2>6, <2>7
  <2>9. Least(s)
    BY <2>4, <2>5, <2>7, <2>8
  <2> HIDE DEF Least
  <2> QED BY <2>2, <2>9
<1>5. ASSUME \A p \in P : g[A[p]] = t[p], \A p, q \in P : p # q => A[p] \cap A[q] = {}
      PROVE  Same(P)
  <2> DEFINE Bad == {s \in SUBSET P : ~Same(s)}
  <2>1. SUFFICES ASSUME Bad # {} PROVE FALSE
    OBVIOUS
  <2>2. PICK s \in Bad : s # {} => s \ {Chosen(s)} \notin Bad
    <3>1. Bad \in SUBSET (SUBSET P)
      OBVIOUS
    <3> HIDE DEF Bad
    <3> QED BY <2>1, <3>1, LeastSubset
  <2>3. s # {}
    <3>1. Same({})
      <4> HIDE DEF Under
      <4> QED BY <1>2
    <3> HIDE DEF Same
    <3> QED BY <2>2, <3>1
  <2> DEFINE c == Chosen(s)
             r == s \ {c}
  <2>4. /\ c \in P /\ r \in SUBSET P /\ c \notin r
        /\ Cardinality(s) * k = Cardinality(r) * k + k /\ Cardinality(r) * k \in Int
        /\ h[s] = (k + t[c]) + h[r] /\ t[c] \in Int /\ h[r] \in Int
        /\ A[c] \in SUBSET S /\ Under(r) \in SUBSET S
        /\ Under(s) = A[c] \cup Under(r)
    <3> HIDE DEF Under, Same
    <3> QED BY <1>3, <2>2, <2>3
  <2>5. Same(r)
    <3> HIDE DEF Same
    <3> QED BY <2>2, <2>3, <2>4
  <2> HIDE DEF c
  <2>6. A[c] \cap Under(r) = {}
    <3>1. \A p \in r : p \in P /\ p # c
      BY <2>4
    <3> HIDE DEF r
    <3> QED BY <1>5, <2>4, <3>1
  <2> HIDE DEF r, Under
  <2>7. g[A[c] \cup Under(r)] = g[A[c]] + g[Under(r)]
    <3> DEFINE T == A[c]
               R == Under(r)
    <3>1. T \in SUBSET S /\ R \in SUBSET S /\ T \cap R = {}
      BY <2>4, <2>6
    <3> HIDE DEF T, R
    <3>2. g[T \cup R] = g[T] + g[R]
      BY <3>1 DEF Measures
    <3> QED BY <3>2 DEF T, R
  <2>8. g[A[c]] = t[c] /\ g[Under(r)] \in Int
    BY <1>5, <2>4
  <2>9. g[Under(s)] = t[c] + g[Under(r)]
    BY <2>4, <2>7, <2>8
  <2>10. Same(s)
    BY <2>4, <2>5, <2>8, <2>9
  <2> HIDE DEF Same
  <2> QED BY <2>2, <2>10
<1>6. Under(P) = U
  BY DEF Branches
<1> HIDE DEF Under
<1> QED BY <1>1, <1>4, <1>5, <1>6

(* A body is a sequence of operators; its calls are finitely many and each   *)
(* calls an index.                                                           *)
LEMMA CodeType ==
  ASSUME TypeOK, NEW j
  PROVE  /\ HasCode(j) => Len(CodeAt(j)) \in Nat
         /\ IsFiniteSet(CallsAt(j)) /\ Cardinality(CallsAt(j)) \in Nat
         /\ \A p \in CallsAt(j) : CodeAt(j)[p].to \in Index
         /\ CalledBy(j) \subseteq Index
<1>1. CASE ~HasCode(j)
  <2>1. CallsAt(j) = {}
    BY <1>1 DEF CallsAt
  <2> QED BY <1>1, <2>1, FS_EmptySet DEF CalledBy
<1>2. CASE HasCode(j)
  <2> DEFINE s == CHOOSE t \in SectionOf(j) : TRUE
  <2>1. s \in SectionOf(j)
    BY <1>2 DEF HasCode
  <2>2. s \in DOMAIN input.payloads /\ input.payloads[s].section = "code"
        /\ input.payloads \in Seq(Payload)
    BY <2>1 DEF SectionOf, CodeSections, TypeOK, Input
  <2>3. CodeAt(j) \in Seq(Operator)
    BY <2>2, CodeBody DEF CodeAt
  <2> DEFINE body == CodeAt(j)
  <2>4. CallsAt(j) = {p \in DOMAIN body : body[p].op = "call"}
    BY <1>2 DEF CallsAt, CallsIn
  <2> HIDE DEF body
  <2>5. DOMAIN body = 1..Len(body) /\ Len(body) \in Nat
        /\ \A p \in DOMAIN body : body[p].to \in Index
    <3>1. body \in Seq(Operator)
      BY <2>3 DEF body
    <3>2. DOMAIN body = 1..Len(body) /\ Len(body) \in Nat
          /\ \A p \in DOMAIN body : body[p] \in Operator
      BY <3>1
    <3> QED BY <3>2 DEF Operator
  <2>6. CallsAt(j) \subseteq 1..Len(body) /\ IsFiniteSet(1..Len(body))
    BY <2>4, <2>5, FS_Interval
  <2>7. IsFiniteSet(CallsAt(j)) /\ Cardinality(CallsAt(j)) \in Nat
    BY <2>6, FS_Subset, FS_CardinalityType
  <2>8. \A p \in CallsAt(j) : body[p].to \in Index
    BY <2>4, <2>5
  <2> QED BY <2>5, <2>7, <2>8 DEF CalledBy, body
<1> QED BY <1>1, <1>2

(* A function together with all it can lead to.                              *)
Leads(i) == {i} \cup Descendants(i)

(* What a callee leads to, its caller leads to.                              *)
LEMMA LeadsInto ==
  ASSUME \A k \in Index : CalledBy(k) \subseteq Index, NEW i \in Index, NEW k \in Descendants(i)
  PROVE  k \in Index /\ Leads(k) \subseteq Descendants(i)
<1>1. k \in Index /\ CalledBy(k) \subseteq Descendants(i) /\ Descendants(i) \in SUBSET Index
      /\ \A m \in Descendants(i) : CalledBy(m) \subseteq Descendants(i)
  BY DescendantsClosed
<1>2. Descendants(k) \subseteq Descendants(i)
  BY <1>1, DescendantsClosed
<1> QED BY <1>1, <1>2 DEF Leads

(* Whatever it leads to is called by a function it leads to, or by itself.   *)
LEMMA LastCall ==
  ASSUME \A k \in Index : CalledBy(k) \subseteq Index, NEW i \in Index,
         NEW j \in Descendants(i)
  PROVE  \E y \in Leads(i) : j \in CalledBy(y)
<1> DEFINE S == {x \in Descendants(i) : \E y \in Leads(i) : x \in CalledBy(y)}
<1>1. Descendants(i) \subseteq Index /\ CalledBy(i) \subseteq Descendants(i)
      /\ \A k \in Descendants(i) : CalledBy(k) \subseteq Descendants(i)
  BY DescendantsClosed
<1>2. S \in SUBSET Index /\ CalledBy(i) \subseteq S /\ \A k \in S : CalledBy(k) \subseteq S
  BY <1>1 DEF Leads
<1> HIDE DEF S
<1>3. Descendants(i) \subseteq S
  BY <1>2, DescendantsClosed
<1> QED BY <1>3 DEF S

(* Without recursion what a function leads to has less to lead to itself.    *)
LEMMA LeadsToLess ==
  ASSUME \A k \in Index : CalledBy(k) \subseteq Index, NEW i \in Index, ~Recursive(i)
  PROVE  /\ i \notin Descendants(i)
         /\ Cardinality(Descendants(i)) \in 0..(MaxIndex + 1)
         /\ \A k \in Descendants(i) :
              /\ ~Recursive(k)
              /\ Cardinality(Descendants(k)) \in Nat
              /\ Cardinality(Descendants(k)) < Cardinality(Descendants(i))
<1>1. IsFiniteSet(Index) /\ Cardinality(Index) = MaxIndex + 1 /\ MaxIndex \in Nat
  BY SizesAssumption, FS_Interval DEF Index
<1>2. Descendants(i) \subseteq Index
  BY DescendantsClosed
<1>3. i \notin Descendants(i)
  BY DEF Recursive
<1>4. IsFiniteSet(Descendants(i)) /\ Cardinality(Descendants(i)) \in Nat
      /\ Cardinality(Descendants(i)) <= MaxIndex + 1
  BY <1>1, <1>2, FS_Subset, FS_CardinalityType
<1>5. ASSUME NEW k \in Descendants(i)
      PROVE  /\ ~Recursive(k) /\ Cardinality(Descendants(k)) \in Nat
             /\ Cardinality(Descendants(k)) < Cardinality(Descendants(i))
  <2>1. k \in Index /\ Leads(k) \subseteq Descendants(i)
    BY LeadsInto
  <2>2. ~Recursive(k) /\ k \notin Descendants(k)
    BY <2>1 DEF Recursive, Leads
  <2>3. Descendants(k) \subseteq Descendants(i) /\ Descendants(k) # Descendants(i)
    BY <2>1, <2>2 DEF Leads
  <2>4. /\ IsFiniteSet(Descendants(k))
        /\ Cardinality(Descendants(k)) <= Cardinality(Descendants(i))
        /\ Cardinality(Descendants(k)) # Cardinality(Descendants(i))
    BY <1>4, <2>3, FS_Subset
  <2>5. Cardinality(Descendants(k)) \in Nat
    BY <2>4, FS_CardinalityType
  <2> QED BY <1>4, <2>2, <2>4, <2>5
<1> QED BY <1>3, <1>4, <1>5

(* Where no helper is called twice, two calls of one body lead to nothing in *)
(* common: what both lead to with the most below it has one caller, which is *)
(* then in both as well, or is the body's function.                          *)
LEMMA CallsLeadApart ==
  ASSUME TypeOK, NEW i \in Index, ~Recursive(i), CalledOnce(i),
         NEW p \in CallsAt(i), NEW q \in CallsAt(i), p # q
  PROVE  Leads(CodeAt(i)[p].to) \cap Leads(CodeAt(i)[q].to) = {}
<1> DEFINE a == CodeAt(i)[p].to
           b == CodeAt(i)[q].to
           both == Leads(a) \cap Leads(b)
           Site(y, r, x) == y \in Leads(i) /\ r \in CallsAt(y) /\ CodeAt(y)[r].to = x
<1>1. \A k \in Index : CalledBy(k) \subseteq Index
  BY CodeType
<1>2. a \in Index /\ b \in Index /\ a \in CalledBy(i) /\ b \in CalledBy(i)
  BY CodeType DEF CalledBy
<1>3. a \in Descendants(i) /\ b \in Descendants(i)
  BY <1>1, <1>2, DescendantsClosed
<1>4. Leads(a) \subseteq Descendants(i) /\ Leads(b) \subseteq Descendants(i)
  BY <1>1, <1>3, LeadsInto
<1>5. i \notin Descendants(i) /\ \A k \in Descendants(i) : ~Recursive(k)
  BY <1>1, LeadsToLess
<1>6. ASSUME NEW y, NEW r, NEW z, NEW s, NEW x, Site(y, r, x), Site(z, s, x)
      PROVE  y = z /\ r = s
  <2>1. HasCode(y) /\ HasCode(z)
    BY <1>6 DEF CallsAt
  <2>2. <<y, r>> \in CallSites(i) /\ <<z, s>> \in CallSites(i)
    BY <1>6, <2>1 DEF CallSites, Code, Leads
  <2>3. <<y, r>> = <<z, s>>
    BY <1>6, <2>2 DEF CalledOnce
  <2> QED BY <2>3
<1>7. Site(i, p, a) /\ Site(i, q, b)
  BY DEF Leads
<1>8. a # b
  BY <1>6, <1>7
<1>9. ASSUME NEW c \in {a, b}, NEW x \in Leads(c), x # c
      PROVE  \E y \in Leads(c) : \E r : Site(y, r, x) /\ y \in Descendants(i)
  <2>1. c \in Index /\ Leads(c) \subseteq Descendants(i) /\ x \in Descendants(c)
    BY <1>2, <1>4, <1>9 DEF Leads
  <2> HIDE DEF a, b
  <2>2. PICK y \in Leads(c) : x \in CalledBy(y)
    BY <1>1, <2>1, LastCall
  <2>3. PICK r \in CallsAt(y) : CodeAt(y)[r].to = x
    BY <2>2 DEF CalledBy
  <2> QED BY <2>1, <2>2, <2>3 DEF Leads
<1> HIDE DEF a, b, Site
<1>10. SUFFICES ASSUME both # {} PROVE FALSE
  BY DEF a, b
<1> DEFINE ranks == {MaxIndex + 1 - Cardinality(Descendants(x)) : x \in both}
<1>11. \A x \in both : x \in Descendants(i) /\ x \in Index /\ ~Recursive(x)
                       /\ Cardinality(Descendants(x)) \in 0..(MaxIndex + 1)
  <2>1. \A x \in both : x \in Descendants(i) /\ x \in Index /\ ~Recursive(x)
    BY <1>1, <1>4, <1>5, LeadsInto
  <2> QED BY <1>1, <2>1, LeadsToLess
<1>12. PICK x \in both : \A y \in both : Cardinality(Descendants(y)) <= Cardinality(Descendants(x))
  <2>1. ranks \subseteq Nat /\ ranks # {}
    BY <1>10, <1>11, SizesAssumption
  <2>2. PICK n \in ranks : \A m \in ranks : n <= m
    <3> HIDE DEF ranks
    <3> QED BY <2>1, LeastElement
  <2>3. PICK x \in both : n = MaxIndex + 1 - Cardinality(Descendants(x))
    BY <2>2
  <2>4. ASSUME NEW y \in both PROVE Cardinality(Descendants(y)) <= Cardinality(Descendants(x))
    <3>1. n <= MaxIndex + 1 - Cardinality(Descendants(y))
      BY <2>2
    <3>2. Cardinality(Descendants(y)) \in Nat /\ Cardinality(Descendants(x)) \in Nat
      BY <1>11
    <3> QED BY <2>3, <3>1, <3>2, SizesAssumption
  <2> QED BY <2>4
<1>13. ASSUME NEW y \in both, x \in CalledBy(y) PROVE FALSE
  <2>1. x \in Descendants(y)
    BY <1>1, <1>11, <1>13, DescendantsClosed
  <2>2. Cardinality(Descendants(x)) < Cardinality(Descendants(y))
    BY <1>1, <1>11, <2>1, LeadsToLess
  <2> QED BY <1>11, <1>12, <2>2
<1>14. ASSUME NEW y, NEW r, Site(y, r, x) PROVE x \in CalledBy(y)
  BY <1>14 DEF Site, CalledBy
<1>15. CASE x = a
  <2>1. PICK z \in Leads(b) : \E s : Site(z, s, x) /\ z \in Descendants(i)
    BY <1>8, <1>9, <1>12, <1>15
  <2> QED BY <1>5, <1>6, <1>7, <1>15, <2>1
<1>16. CASE x = b
  <2>1. PICK z \in Leads(a) : \E s : Site(z, s, x) /\ z \in Descendants(i)
    BY <1>8, <1>9, <1>12, <1>16
  <2> QED BY <1>5, <1>6, <1>7, <1>16, <2>1
<1>17. CASE x # a /\ x # b
  <2>1. PICK y \in Leads(a) : \E r : Site(y, r, x)
    BY <1>9, <1>12, <1>17
  <2>2. PICK z \in Leads(b) : \E s : Site(z, s, x)
    BY <1>9, <1>12, <1>17
  <2>3. y = z
    BY <1>6, <2>1, <2>2
  <2> QED BY <1>13, <1>14, <2>1, <2>2, <2>3
<1> QED BY <1>15, <1>16, <1>17

(* A function's own operators and calls, and the cost one call deeper.       *)
Flat == [j \in Index |-> IF HasCode(j)
                         THEN Len(CodeAt(j)) * input.cost_per_instruction
                                + Cardinality(CallsAt(j)) * input.cost_per_call
                         ELSE 0]

CostOver(h) ==
  [j \in Index |->
     IF HasCode(j)
     THEN Len(CodeAt(j)) * input.cost_per_instruction
            + SumFunction([p \in CallsAt(j) |-> input.cost_per_call + h[CodeAt(j)[p].to]])
     ELSE 0]

(* What calls cost beyond the depth that is reckoned with.                   *)
Zeros == [j \in Index |-> 0]

(* The costs to each depth up to n.                                          *)
IsTower(g, n) ==
  /\ g \in [0..n -> [Index -> Int]]
  /\ g[0] = CostOver(Zeros)
  /\ \A d \in 1..n : g[d] = CostOver(g[d - 1])

(* The rates and a function's own cost are numbers.                          *)
LEMMA CostTypes ==
  ASSUME TypeOK
  PROVE  /\ input.cost_per_instruction \in Nat /\ input.cost_per_call \in Nat
         /\ Flat \in [Index -> Int] /\ \A j \in Index : Flat[j] \in Nat
<1>1. input.cost_per_instruction \in Nat /\ input.cost_per_call \in Nat
  BY WidthsAssumption DEF TypeOK, Input, U64, Largest
<1>2. \A j \in Index : Flat[j] \in Nat
  BY <1>1, CodeType DEF Flat
<1>3. Flat = [j \in Index |-> Flat[j]]
  BY DEF Flat
<1>4. Flat \in [Index -> Int]
  BY <1>2, <1>3
<1> QED BY <1>1, <1>2, <1>4

(* One level more is again a cost for every function.                        *)
LEMMA CostOverType ==
  ASSUME TypeOK, NEW h \in [Index -> Int]
  PROVE  CostOver(h) \in [Index -> Int]
<1> DEFINE C(j) == IF HasCode(j)
                   THEN Len(CodeAt(j)) * input.cost_per_instruction
                          + SumFunction([p \in CallsAt(j) |->
                              input.cost_per_call + h[CodeAt(j)[p].to]])
                   ELSE 0
<1>1. ASSUME NEW j \in Index PROVE C(j) \in Int
  <2> DEFINE f == [p \in CallsAt(j) |-> input.cost_per_call + h[CodeAt(j)[p].to]]
  <2>1. IsFiniteSet(CallsAt(j)) /\ f \in [CallsAt(j) -> Int]
    BY CodeType, CostTypes
  <2>2. SumFunction(f) \in Int
    <3> HIDE DEF f
    <3> QED BY <2>1, SumType
  <2> HIDE DEF f
  <2>3. HasCode(j) => Len(CodeAt(j)) * input.cost_per_instruction \in Int
    BY CodeType, CostTypes
  <2>4. HasCode(j) => Len(CodeAt(j)) * input.cost_per_instruction + SumFunction(f) \in Int
    BY <2>2, <2>3
  <2> QED BY <2>4 DEF f
<1>2. CostOver(h) = [j \in Index |-> C(j)]
  BY DEF CostOver
<1> HIDE DEF C
<1> QED BY <1>1, <1>2

(* There is such a tower of every height.                                    *)
LEMMA TowerExists ==
  ASSUME TypeOK, NEW n \in Nat
  PROVE  \E g : IsTower(g, n)
<1> DEFINE Bad == {m \in Nat : ~ \E g : IsTower(g, m)}
<1>1. SUFFICES ASSUME Bad # {} PROVE FALSE
  OBVIOUS
<1>2. PICK m \in Bad : \A k \in Bad : m <= k
  <2>1. Bad \subseteq Nat
    OBVIOUS
  <2> HIDE DEF Bad
  <2> QED BY <1>1, <2>1, LeastElement
<1>3. Zeros \in [Index -> Int]
  BY DEF Zeros
<1>4. CASE m = 0
  <2> DEFINE g == [d \in 0..0 |-> CostOver(Zeros)]
  <2>1. g \in [0..0 -> [Index -> Int]] /\ g[0] = CostOver(Zeros)
    BY <1>3, CostOverType
  <2>2. IsTower(g, 0)
    BY <2>1 DEF IsTower
  <2> QED BY <1>2, <1>4, <2>2
<1>5. CASE m # 0
  <2>1. m - 1 \in Nat /\ ~(m <= m - 1)
    BY <1>2, <1>5
  <2>2. PICK h : IsTower(h, m - 1)
    <3>1. m - 1 \notin Bad
      <4> HIDE DEF Bad
      <4> QED BY <1>2, <2>1
    <3> QED BY <2>1, <3>1
  <2> DEFINE g == [d \in 0..m |-> IF d = m THEN CostOver(h[m - 1]) ELSE h[d]]
  <2>3. h \in [0..(m - 1) -> [Index -> Int]] /\ h[0] = CostOver(Zeros)
        /\ \A d \in 1..(m - 1) : h[d] = CostOver(h[d - 1])
    BY <2>2 DEF IsTower
  <2>4. CostOver(h[m - 1]) \in [Index -> Int]
    BY <2>1, <2>3, CostOverType
  <2>5. \A d \in 0..m : d = m \/ d \in 0..(m - 1)
    BY <2>1
  <2>6. g \in [0..m -> [Index -> Int]]
    BY <2>3, <2>4, <2>5
  <2>7. g[0] = CostOver(Zeros)
    BY <1>5, <2>1, <2>3
  <2>8. ASSUME NEW d \in 1..m PROVE g[d] = CostOver(g[d - 1])
    <3>1. d - 1 \in 0..(m - 1) /\ d - 1 # m /\ d \in 0..m /\ d - 1 \in 0..m
      BY <2>1
    <3>2. g[d - 1] = h[d - 1]
      BY <3>1
    <3>3. CASE d = m
      BY <3>1, <3>2, <3>3
    <3>4. CASE d # m
      <4>1. d \in 1..(m - 1)
        BY <2>1, <3>4
      <4> QED BY <2>3, <3>1, <3>2, <3>4, <4>1
    <3> QED BY <3>3, <3>4
  <2> HIDE DEF g
  <2>9. IsTower(g, m)
    BY <2>6, <2>7, <2>8 DEF IsTower
  <2> QED BY <1>2, <2>9
<1> QED BY <1>4, <1>5

(* The reference cost is the top of such a tower.                            *)
LEMMA CostIs ==
  ASSUME TypeOK
  PROVE  \E g : IsTower(g, MaxIndex + 1) /\ \A i : Cost(i) = g[MaxIndex + 1][i]
<1> DEFINE Iterates(at) ==
             at = [depth \in 0..(MaxIndex + 1) |->
                     [j \in Index |->
                        IF HasCode(j)
                        THEN Len(CodeAt(j)) * input.cost_per_instruction
                               + SumFunction([p \in CallsAt(j) |->
                                   input.cost_per_call
                                     + (IF depth = 0 THEN 0 ELSE at[depth - 1][CodeAt(j)[p].to])])
                        ELSE 0]]
           iter == CHOOSE at : Iterates(at)
           Level(at, depth) ==
             [j \in Index |->
                        IF HasCode(j)
                        THEN Len(CodeAt(j)) * input.cost_per_instruction
                               + SumFunction([p \in CallsAt(j) |->
                                   input.cost_per_call
                                     + (IF depth = 0 THEN 0 ELSE at[depth - 1][CodeAt(j)[p].to])])
                        ELSE 0]
<1>1. MaxIndex + 1 \in Nat
  BY SizesAssumption
<1>2. PICK g : IsTower(g, MaxIndex + 1)
  BY <1>1, TowerExists
<1>3. ASSUME NEW at PROVE Level(at, 0) = CostOver(Zeros)
  <2>1. ASSUME NEW j
        PROVE  [p \in CallsAt(j) |-> input.cost_per_call + (IF 0 = 0 THEN 0 ELSE at[0 - 1][CodeAt(j)[p].to])]
                 = [p \in CallsAt(j) |-> input.cost_per_call + Zeros[CodeAt(j)[p].to]]
    <3>1. \A p \in CallsAt(j) : Zeros[CodeAt(j)[p].to] = 0
      BY CodeType DEF Zeros
    <3> QED BY <3>1
  <2> QED BY <2>1 DEF CostOver
<1>4. ASSUME NEW at, NEW depth \in 1..(MaxIndex + 1)
      PROVE  Level(at, depth) = CostOver(at[depth - 1])
  <2>1. depth # 0
    BY <1>1
  <2>2. ASSUME NEW j
        PROVE  [p \in CallsAt(j) |-> input.cost_per_call + (IF depth = 0 THEN 0 ELSE at[depth - 1][CodeAt(j)[p].to])]
                 = [p \in CallsAt(j) |-> input.cost_per_call + at[depth - 1][CodeAt(j)[p].to]]
    BY <2>1
  <2> QED BY <2>2 DEF CostOver
<1>5. \A at : Iterates(at) <=> at = [depth \in 0..(MaxIndex + 1) |-> Level(at, depth)]
  OBVIOUS
<1> HIDE DEF Level
<1>6. \A d \in 0..(MaxIndex + 1) : d = 0 \/ d \in 1..(MaxIndex + 1)
  BY <1>1
<1>7. Iterates(g)
  <2>1. \A d \in 0..(MaxIndex + 1) : g[d] = Level(g, d)
    BY <1>2, <1>3, <1>4, <1>6 DEF IsTower
  <2>2. g = [d \in 0..(MaxIndex + 1) |-> g[d]]
    BY <1>2 DEF IsTower
  <2>3. g = [d \in 0..(MaxIndex + 1) |-> Level(g, d)]
    BY <2>1, <2>2
  <2> HIDE DEF Iterates
  <2> QED BY <1>5, <2>3
<1>8. Iterates(iter)
  <2> HIDE DEF Iterates
  <2> QED BY <1>7
<1>9. \A i : Cost(i) = iter[MaxIndex + 1][i]
  BY DEF Cost
<1> HIDE DEF Iterates, iter
<1>10. \A d \in 0..(MaxIndex + 1) : iter[d] = Level(iter, d)
  BY <1>5, <1>8
<1>11. iter[0] = CostOver(Zeros) /\ \A d \in 1..(MaxIndex + 1) : iter[d] = CostOver(iter[d - 1])
  BY <1>1, <1>3, <1>4, <1>10
<1>12. \A d \in 0..(MaxIndex + 1) : iter[d] = g[d]
  <2> DEFINE Unlike == {d \in 0..(MaxIndex + 1) : iter[d] # g[d]}
  <2>1. SUFFICES ASSUME Unlike # {} PROVE FALSE
    OBVIOUS
  <2>2. PICK d \in Unlike : \A k \in Unlike : d <= k
    <3>1. Unlike \subseteq Nat
      OBVIOUS
    <3> HIDE DEF Unlike
    <3> QED BY <2>1, <3>1, LeastElement
  <2>3. d \in 1..(MaxIndex + 1)
    BY <1>2, <1>6, <1>11, <2>2 DEF IsTower
  <2>4. d - 1 \in 0..(MaxIndex + 1) /\ ~(d <= d - 1)
    BY <1>1, <2>3
  <2>5. iter[d - 1] = g[d - 1]
    BY <2>2, <2>4
  <2> QED BY <1>2, <1>11, <2>2, <2>3, <2>5 DEF IsTower
<1> QED BY <1>1, <1>2, <1>9, <1>12

(* Weighing what functions lead to: what a cost says of the callees of a     *)
(* function, one level more says of the function.                            *)
Covers(W, h, j) ==
  /\ W[Leads(j)] <= h[j]
  /\ CalledOnce(j) => W[Leads(j)] = h[j]

(* What the costs of its callees cover, a function's own cost covers.        *)
LEMMA CostOverCovers ==
  ASSUME TypeOK, NEW h \in [Index -> Int], NEW W, AddsUp(W, Flat, Index),
         NEW j \in Index, ~Recursive(j), \A k \in CalledBy(j) : Covers(W, h, k)
  PROVE  Covers(W, CostOver(h), j)
<1>1. IsFiniteSet(Index)
  BY SizesAssumption, FS_Interval DEF Index
<1>2. Measures(W, Index) /\ Picks(W, Flat, Index)
  BY <1>1, CostTypes, SumMeasures, SumPicks
<1>3. W \in [SUBSET Index -> Int]
  BY DEF AddsUp
<1>4. \A k \in Index : CalledBy(k) \subseteq Index
  BY CodeType
<1>5. Descendants(j) \in SUBSET Index /\ CalledBy(j) \subseteq Descendants(j)
      /\ j \notin Descendants(j)
  BY <1>4, DescendantsClosed, LeadsToLess
<1>6. Leads(j) \in SUBSET Index /\ j \in Leads(j) /\ Leads(j) \ {j} = Descendants(j)
  BY <1>5 DEF Leads
<1>7. W[Leads(j)] = Flat[j] + W[Descendants(j)]
  BY <1>2, <1>6 DEF Picks
<1>8. CASE ~HasCode(j)
  <2>1. CalledBy(j) = {}
    BY <1>8 DEF CalledBy, CallsAt
  <2>2. Descendants(j) = {}
    <3>1. {} \in SUBSET Index /\ CalledBy(j) \subseteq {} /\ \A k \in {} : CalledBy(k) \subseteq {}
      BY <2>1
    <3>2. Descendants(j) \subseteq {}
      BY <1>4, <3>1, DescendantsClosed
    <3> QED BY <3>2
  <2>3. Flat[j] = 0 /\ CostOver(h)[j] = 0
    BY <1>8 DEF Flat, CostOver
  <2>4. W[{}] = 0
    BY <1>2 DEF Measures
  <2>5. W[Leads(j)] = 0
    BY <1>7, <2>2, <2>3, <2>4
  <2> QED BY <2>3, <2>5 DEF Covers
<1>9. CASE HasCode(j)
  <2> DEFINE P == CallsAt(j)
             to == [p \in P |-> CodeAt(j)[p].to]
             A == [p \in P |-> Leads(to[p])]
             t == [p \in P |-> h[to[p]]]
             k == input.cost_per_call
             own == Len(CodeAt(j)) * input.cost_per_instruction
             f == [p \in P |-> k + h[CodeAt(j)[p].to]]
  <2>1. IsFiniteSet(P) /\ Cardinality(P) \in Nat /\ k \in Nat /\ own \in Nat
    BY <1>9, CodeType, CostTypes
  <2>2. ASSUME NEW p \in P
        PROVE  to[p] \in Index /\ to[p] \in CalledBy(j) /\ to[p] \in Descendants(j)
    BY <1>5, CodeType DEF CalledBy
  <2>3. ASSUME NEW p \in P PROVE A[p] \in SUBSET Index /\ A[p] \subseteq Descendants(j)
    <3> HIDE DEF to
    <3>1. Leads(to[p]) \subseteq Descendants(j)
      BY <1>4, <2>2, LeadsInto
    <3> QED BY <1>5, <3>1
  <2>4. A \in [P -> SUBSET Index] /\ t \in [P -> Int] /\ f \in [P -> Int]
        /\ \A p \in P : f[p] = k + t[p]
    <3>1. \A p \in P : t[p] \in Int /\ f[p] = k + t[p] /\ f[p] \in Int
      BY <2>1, <2>2
    <3> HIDE DEF to
    <3> QED BY <2>3, <3>1
  <2>5. UNION {A[p] : p \in P} = Descendants(j)
    <3>1. ASSUME NEW x \in Descendants(j) PROVE \E p \in P : x \in A[p]
      <4>1. PICK y \in CalledBy(j) : x = y \/ x \in Descendants(y)
        BY <1>4, FirstCall
      <4>2. PICK p \in P : y = to[p]
        BY <4>1 DEF CalledBy
      <4> QED BY <4>1, <4>2 DEF Leads
    <3> HIDE DEF A, P
    <3> QED BY <2>3, <3>1
  <2>6. Flat[j] = own + Cardinality(P) * k /\ CostOver(h)[j] = own + SumFunction(f)
    BY <1>9 DEF Flat, CostOver
  <2>7. Cardinality(P) * k \in Int /\ W[Descendants(j)] \in Int /\ SumFunction(f) \in Int
    <3>1. Cardinality(P) * k \in Int
      BY <2>1
    <3>2. SumFunction(f) \in Int
      <4> HIDE DEF f, P
      <4> QED BY <2>1, <2>4, SumType
    <3> QED BY <1>3, <1>5, <3>1, <3>2
  <2>8. \A p \in P : W[A[p]] <= t[p]
    BY <2>2 DEF Covers
  <2>9. ASSUME CalledOnce(j)
        PROVE  /\ \A p \in P : W[A[p]] = t[p]
               /\ \A p, q \in P : p # q => A[p] \cap A[q] = {}
    <3>1. ASSUME NEW p \in P PROVE CalledOnce(to[p])
      <4>1. Leads(to[p]) \subseteq Descendants(j)
        BY <2>3
      <4> HIDE DEF to
      <4>2. Code(to[p]) \subseteq Code(j)
        BY <4>1 DEF Code, Leads
      <4>3. CallSites(to[p]) \subseteq CallSites(j)
        BY <4>2 DEF CallSites
      <4> QED BY <2>9, <4>3 DEF CalledOnce
    <3>2. \A p, q \in P : p # q => A[p] \cap A[q] = {}
      BY <2>9, CallsLeadApart
    <3> QED BY <2>2, <3>1, <3>2 DEF Covers
  <2>10. /\ Cardinality(P) * k + W[Descendants(j)] <= SumFunction(f)
         /\ CalledOnce(j) => Cardinality(P) * k + W[Descendants(j)] = SumFunction(f)
    <3> HIDE DEF A, P, t, k, f, to
    <3>1. Branches(W, Index, P, A, Descendants(j), t, k, f)
      BY <1>2, <1>3, <2>1, <2>4, <2>5 DEF Branches
    <3> QED BY <2>8, <2>9, <3>1, CallsAddUp
  <2> HIDE DEF P, k, f, own
  <2>11. /\ own + Cardinality(P) * k + W[Descendants(j)] <= own + SumFunction(f)
         /\ CalledOnce(j) => own + Cardinality(P) * k + W[Descendants(j)] = own + SumFunction(f)
    BY <2>1, <2>7, <2>10
  <2> QED BY <1>7, <2>6, <2>11 DEF Covers
<1> QED BY <1>8, <1>9

(* To a depth no smaller than the number of functions it can lead to, the    *)
(* cost of a function without recursion is at least what those weigh, and    *)
(* no more where no helper is called twice.                                  *)
LEMMA CostCovers ==
  ASSUME TypeOK, NEW g, IsTower(g, MaxIndex + 1), NEW W, AddsUp(W, Flat, Index),
         NEW i \in Index, ~Recursive(i)
  PROVE  Covers(W, g[MaxIndex + 1], i)
<1> DEFINE Holds(d) == \A j \in Index : ~Recursive(j) /\ Cardinality(Descendants(j)) <= d
                                          => Covers(W, g[d], j)
           Bad == {d \in 0..(MaxIndex + 1) : ~Holds(d)}
<1>1. MaxIndex + 1 \in Nat
  BY SizesAssumption
<1>2. \A k \in Index : CalledBy(k) \subseteq Index
  BY CodeType
<1>3. g \in [0..(MaxIndex + 1) -> [Index -> Int]] /\ g[0] = CostOver(Zeros)
      /\ \A d \in 1..(MaxIndex + 1) : g[d] = CostOver(g[d - 1])
  BY DEF IsTower
<1>4. ASSUME NEW j \in Index, ~Recursive(j)
      PROVE  /\ Cardinality(Descendants(j)) \in Nat
             /\ \A k \in CalledBy(j) : /\ k \in Index /\ ~Recursive(k)
                                       /\ Cardinality(Descendants(k)) \in Nat
                                       /\ Cardinality(Descendants(k)) < Cardinality(Descendants(j))
  <2>1. Cardinality(Descendants(j)) \in Nat
    BY <1>1, <1>2, <1>4, LeadsToLess
  <2>2. CalledBy(j) \subseteq Descendants(j)
    BY <1>2, DescendantsClosed
  <2> QED BY <1>2, <1>4, <2>1, <2>2, LeadsToLess
<1>5. Bad = {}
  <2> SUFFICES ASSUME Bad # {} PROVE FALSE
    OBVIOUS
  <2>1. PICK d \in Bad : \A k \in Bad : d <= k
    <3>1. Bad \subseteq Nat
      OBVIOUS
    <3> HIDE DEF Bad
    <3> QED BY <3>1, LeastElement
  <2>2. PICK j \in Index : ~Recursive(j) /\ Cardinality(Descendants(j)) <= d
                           /\ ~Covers(W, g[d], j)
    BY <2>1
  <2>3. d \in 0..(MaxIndex + 1)
    BY <2>1
  <2>4. CASE d = 0
    <3>1. \A k \in CalledBy(j) : FALSE
      BY <1>4, <2>2, <2>4
    <3>2. Zeros \in [Index -> Int]
      BY DEF Zeros
    <3> QED BY <1>3, <2>2, <2>4, <3>1, <3>2, CostOverCovers
  <2>5. CASE d # 0
    <3>1. d - 1 \in 0..(MaxIndex + 1) /\ d \in 1..(MaxIndex + 1) /\ ~(d <= d - 1)
      BY <1>1, <2>3, <2>5
    <3>2. Holds(d - 1)
      <4> HIDE DEF Holds
      <4> QED BY <2>1, <3>1
    <3>3. ASSUME NEW k \in CalledBy(j) PROVE Covers(W, g[d - 1], k)
      <4>1. k \in Index /\ ~Recursive(k) /\ Cardinality(Descendants(k)) <= d - 1
        BY <1>4, <2>2, <2>3
      <4> QED BY <3>2, <4>1
    <3>4. g[d - 1] \in [Index -> Int] /\ g[d] = CostOver(g[d - 1])
      BY <1>3, <3>1
    <3>5. Covers(W, CostOver(g[d - 1]), j)
      <4> DEFINE h == g[d - 1]
      <4>1. h \in [Index -> Int] /\ \A k \in CalledBy(j) : Covers(W, h, k)
        BY <3>3, <3>4
      <4> HIDE DEF h
      <4>2. Covers(W, CostOver(h), j)
        BY <2>2, <4>1, CostOverCovers
      <4> QED BY <4>2 DEF h
    <3> QED BY <2>2, <3>4, <3>5
  <2> QED BY <2>4, <2>5
<1>6. Holds(MaxIndex + 1)
  <2> HIDE DEF Holds
  <2> QED BY <1>1, <1>5
<1>7. Cardinality(Descendants(i)) <= MaxIndex + 1
  BY <1>1, <1>2, LeadsToLess
<1> QED BY <1>6, <1>7

(* A sum that wraps only gets smaller.                                       *)
LEMMA WrapBelow ==
  ASSUME NEW n \in Nat
  PROVE  Wrap(n) \in Nat /\ Wrap(n) <= n /\ (n <= Largest => Wrap(n) = n)
<1>1. Width \in Nat \ {0} /\ Largest = Width - 1
  BY WidthsAssumption DEF Largest
<1>2. Wrap(n) \in Nat
  BY WrapType
<1>3. n % Width <= n /\ (n <= Width - 1 => n % Width = n)
  BY <1>1
<1> QED BY <1>1, <1>2, <1>3 DEF Wrap

(* What the estimator charges a function for, looping or not, is its own     *)
(* operators and calls.                                                      *)
LEMMA ProfileIsFlat ==
  ASSUME TypeOK, ReadInv, Parsed, NEW i \in Index, Defined(module, i)
  PROVE  LET straight == StraightLine(Function(module, i)) * input.cost_per_instruction
                           + Len(Callees(module, i)) * input.cost_per_call
             looped == Function(module, i).loop_instructions * input.cost_per_instruction
         IN straight \in Nat /\ looped \in Nat /\ Flat[i] = straight + looped
<1> DEFINE s == CHOOSE t \in SectionOf(i) : TRUE
           body == CodeAt(i)
           f == Function(module, i)
           L == {p \in DOMAIN body : LoopsAround(body, p) # {}}
           ci == input.cost_per_instruction
           cc == input.cost_per_call
<1>1. HasCode(i)
  BY DefinedHasCode, SizesAssumption DEF Index
<1>2. s \in SectionOf(i) /\ body = input.payloads[s].body
  BY <1>1 DEF HasCode, CodeAt
<1>3. Describes(f, body)
  BY <1>1, <1>2, DefinedHasCode, SizesAssumption DEF Index
<1>4. Len(body) \in Nat /\ ci \in Nat /\ cc \in Nat /\ Cardinality(CallsAt(i)) \in Nat
  BY <1>1, CodeType, CostTypes
<1>5. Cardinality(L) \in Nat /\ Cardinality(L) <= Len(body)
  <2>1. body \in Seq(Operator)
    <3>1. s \in DOMAIN input.payloads /\ input.payloads[s].section = "code"
          /\ input.payloads \in Seq(Payload)
      BY <1>2 DEF SectionOf, CodeSections, TypeOK, Input
    <3> QED BY <1>2, <3>1, CodeBody
  <2>2. L \subseteq 1..Len(body)
    <3> HIDE DEF body
    <3> QED BY <2>1
  <2>3. IsFiniteSet(1..Len(body)) /\ Cardinality(1..Len(body)) = Len(body)
    <3> DEFINE m == Len(body)
    <3>1. m \in Nat
      BY <1>4
    <3> HIDE DEF m
    <3>2. IsFiniteSet(1..m) /\ Cardinality(1..m) = m
      BY <3>1, FS_Interval
    <3> QED BY <3>2 DEF m
  <2> HIDE DEF L
  <2>4. IsFiniteSet(L) /\ Cardinality(L) <= Cardinality(1..Len(body))
    BY <2>2, <2>3, FS_Subset
  <2> QED BY <2>3, <2>4, FS_CardinalityType
<1>6. f.instruction_count = Len(body) /\ f.loop_instructions = Cardinality(L)
      /\ Len(f.calls) = Cardinality(CallsAt(i))
  BY <1>1, <1>3 DEF Describes, CallsAt
<1>7. Callees(module, i) = f.calls
  BY DEF Callees
<1>8. Flat[i] = Len(body) * ci + Cardinality(CallsAt(i)) * cc
  BY <1>1 DEF Flat
<1> DEFINE n == Len(body)
           l == Cardinality(L)
           c == Cardinality(CallsAt(i))
<1>9. /\ StraightLine(f) = n - l /\ f.loop_instructions = l
      /\ Len(Callees(module, i)) = c /\ Flat[i] = n * ci + c * cc
  BY <1>6, <1>7, <1>8 DEF StraightLine
<1>10. n \in Nat /\ l \in Nat /\ l <= n /\ c \in Nat /\ ci \in Nat /\ cc \in Nat
  BY <1>4, <1>5
<1> HIDE DEF n, l, c, ci, cc, f
<1>11. n - l \in Nat /\ n * ci = (n - l) * ci + l * ci
  BY <1>10
<1>12. (n - l) * ci \in Nat /\ l * ci \in Nat /\ c * cc \in Nat
  BY <1>10, <1>11
<1>13. (n - l) * ci + c * cc \in Nat /\ n * ci + c * cc = ((n - l) * ci + c * cc) + l * ci
  BY <1>11, <1>12
<1> QED BY <1>9, <1>12, <1>13 DEF f, ci, cc

(* What straight and looping code come to together, for all that was reached.*)
LEMMA ReachedWeighs ==
  ASSUME TypeOK, ReadInv, Parsed, NEW W, AddsUp(W, Flat, Index)
  PROVE  /\ StraightCost \in Nat /\ LoopedCost \in Nat
         /\ StraightCost + LoopedCost = W[reached]
<1> DEFINE a == [i \in Reached |->
                   StraightLine(Function(module, i)) * input.cost_per_instruction
                     + Len(Callees(module, i)) * input.cost_per_call]
           b == [i \in Reached |->
                   Function(module, i).loop_instructions * input.cost_per_instruction]
           f == [i \in Reached |-> Flat[i]]
           rest == reached \ Reached
<1>1. IsFiniteSet(Index)
  BY SizesAssumption, FS_Interval DEF Index
<1>2. Reached \in SUBSET Index /\ rest \in SUBSET Index /\ Reached \cap rest = {}
      /\ Reached \cup rest = reached
  BY DEF Reached, TypeOK
<1>3. ASSUME NEW i \in Reached
      PROVE  a[i] \in Nat /\ b[i] \in Nat /\ f[i] = a[i] + b[i]
  BY <1>2, ProfileIsFlat DEF Reached
<1>4. /\ a \in [Reached -> Nat] /\ b \in [Reached -> Nat]
      /\ a \in [Reached -> Int] /\ b \in [Reached -> Int] /\ f \in [Reached -> Int]
      /\ \A i \in Reached : f[i] = a[i] + b[i]
  <2> DEFINE A == a
             B == b
             F == f
  <2>1. /\ A = [i \in Reached |-> A[i]] /\ B = [i \in Reached |-> B[i]]
        /\ F = [i \in Reached |-> F[i]]
    OBVIOUS
  <2>2. \A i \in Reached : A[i] \in Nat /\ B[i] \in Nat /\ F[i] = A[i] + B[i]
    BY <1>3
  <2> HIDE DEF A, B, F, a, b, f
  <2>3. /\ A \in [Reached -> Nat] /\ B \in [Reached -> Nat]
        /\ A \in [Reached -> Int] /\ B \in [Reached -> Int] /\ F \in [Reached -> Int]
    BY <2>1, <2>2
  <2> QED BY <2>2, <2>3 DEF A, B, F
<1>5. StraightCost = SumFunction(a) /\ LoopedCost = SumFunction(b)
  BY DEF StraightCost, LoopedCost
<1>6. SumFunction(f) = W[Reached]
  BY <1>1, <1>2, SumRestricts
<1> HIDE DEF a, b, f
<1>7. IsFiniteSet(Reached)
  BY <1>1, <1>2, FS_Subset
<1>8. SumFunction(a) \in Nat /\ SumFunction(b) \in Nat
  BY <1>4, <1>7, SumBounds
<1>9. SumFunction(f) = SumFunction(a) + SumFunction(b)
  BY <1>4, <1>7, SumAdds
<1>10. W[rest] = 0
  <2>1. \A x \in rest : Flat[x] = 0
    <3>1. \A x \in rest : x \in Index /\ ~Defined(module, x)
      BY <1>2 DEF Reached
    <3>2. \A x \in rest : ~HasCode(x)
      BY <3>1, DefinedHasCode, SizesAssumption DEF Index
    <3> QED BY <3>1, <3>2 DEF Flat
  <2> HIDE DEF rest
  <2> QED BY <1>1, <1>2, <2>1, SumOfNothing
<1>11. W[reached] = W[Reached] + W[rest]
  <2>1. Measures(W, Index)
    BY <1>1, CostTypes, SumMeasures
  <2> HIDE DEF rest
  <2>2. W[Reached \cup rest] = W[Reached] + W[rest]
    BY <1>2, <2>1 DEF Measures
  <2> QED BY <1>2, <2>2
<1>12. W[Reached] \in Int
  BY <1>6, <1>8, <1>9
<1>13. W[reached] = W[Reached]
  BY <1>10, <1>11, <1>12
<1>14. SumFunction(a) + SumFunction(b) = W[reached]
  BY <1>6, <1>9, <1>13
<1> QED BY <1>5, <1>8, <1>14

(* The figures of an entrypoint against a cost of calling it.                *)
Within(e, c, once) ==
  /\ e.lower_bound <= c
  /\ e.reason = "none" => e.upper = {e.lower_bound}
  /\ e.reason = "none" /\ once /\ c <= Largest => e.upper = {c}

(* The estimate of an entrypoint whose functions have all been reached,      *)
(* against the cost of calling it.                                           *)
LEMMA EstimateWithin ==
  ASSUME TypeOK, ReadInv, Parsed, reached = Leads(entry), ~Recursive(entry),
         NEW g, IsTower(g, MaxIndex + 1)
  PROVE  Within(InstructionEstimate, g[MaxIndex + 1][entry], CalledOnce(entry))
<1> DEFINE c == g[MaxIndex + 1][entry]
<1>1. IsFiniteSet(Index) /\ entry \in Index /\ MaxIndex + 1 \in Nat
  BY SizesAssumption, FS_Interval DEF Index, TypeOK
<1>2. Flat \in [Index -> Int]
  BY CostTypes
<1>3. PICK W \in [SUBSET Index -> Int] : Sums(W, Flat, Index)
  BY <1>1, <1>2, SumExists
<1>4. AddsUp(W, Flat, Index)
  BY <1>2, <1>3 DEF AddsUp
<1>5. Covers(W, g[MaxIndex + 1], entry)
  BY <1>1, <1>4, CostCovers
<1>6. c \in Int
  BY <1>1 DEF IsTower
<1> HIDE DEF c
<1>7. /\ StraightCost \in Nat /\ LoopedCost \in Nat
      /\ StraightCost + LoopedCost <= c
      /\ CalledOnce(entry) => StraightCost + LoopedCost = c
  <2>1. StraightCost \in Nat /\ LoopedCost \in Nat /\ StraightCost + LoopedCost = W[reached]
    BY <1>4, ReachedWeighs
  <2>2. W[reached] <= c /\ (CalledOnce(entry) => W[reached] = c)
    BY <1>5 DEF Covers, c
  <2> QED BY <2>1, <2>2
<1>8. Largest \in Nat
  BY WidthsAssumption DEF Largest
<1>9. Wrap(StraightCost) \in Nat /\ Wrap(StraightCost) <= StraightCost
      /\ (StraightCost <= Largest => Wrap(StraightCost) = StraightCost)
      /\ Wrap(LoopedCost) \in Nat
      /\ (LoopedCost <= Largest => Wrap(LoopedCost) = LoopedCost)
  BY <1>7, WrapBelow
<1>10. Wrap(StraightCost) <= c
  BY <1>6, <1>7, <1>9
<1>11. CASE HardToBound
  <2>1. InstructionEstimate.lower_bound = Wrap(StraightCost)
        /\ InstructionEstimate.reason = "construct"
    BY <1>11 DEF InstructionEstimate, Unbounded
  <2> QED BY <1>10, <2>1 DEF Within, c
<1>12. CASE ~HardToBound
  <2>1. /\ InstructionEstimate.lower_bound = Wrap(StraightCost)
        /\ InstructionEstimate.upper = {Wrap(StraightCost)}
    BY <1>12 DEF InstructionEstimate, Exact
  <2>2. Wrap(LoopedCost) = 0
    BY <1>9, <1>12 DEF HardToBound
  <2>3. CalledOnce(entry) /\ c <= Largest => Wrap(StraightCost) = c
    BY <1>6, <1>7, <1>8, <1>9, <2>2
  <2> QED BY <1>10, <2>1, <2>3 DEF Within, c
<1> QED BY <1>11, <1>12

(* What is reached or still to look at is what the entrypoint leads to, as   *)
(* far as it has been followed.                                              *)
Pending == reached \cup ToSet(stack)

ReachInv ==
  /\ phase = "idle" => reached = {} /\ stack = << >>
  /\ phase \in {"reach", "cycle"} =>
       /\ entry \in Pending /\ Pending \subseteq Leads(entry)
       /\ \A k \in reached : CalledBy(k) \subseteq Pending
  /\ phase = "cycle" => stack = << >>

(* Popping the stack parts it into what is left and what is taken.           *)
LEMMA LastOfStack ==
  ASSUME NEW s \in Seq(Index), s # << >>
  PROVE  /\ Front(s) \in Seq(Index) /\ Last(s) \in Index
         /\ ToSet(s) = ToSet(Front(s)) \cup {Last(s)}
<1> DEFINE n == Len(s)
<1>1. n \in Nat \ {0} /\ DOMAIN s = 1..n /\ \A k \in 1..n : s[k] \in Index
  BY EmptySeq
<1>2. Last(s) = s[n] /\ Front(s) = SubSeq(s, 1, n - 1)
  BY DEF Last, Front
<1>3. Front(s) \in Seq(Index)
  BY FrontType
<1>4. DOMAIN Front(s) = 1..(n - 1) /\ \A k \in 1..(n - 1) : Front(s)[k] = s[k]
  BY <1>1, <1>2
<1> HIDE DEF n
<1>5. \A k \in 1..n : k = n \/ k \in 1..(n - 1)
  BY <1>1
<1>6. ToSet(s) = ToSet(Front(s)) \cup {Last(s)}
  <2>1. ASSUME NEW x \in ToSet(s) PROVE x \in ToSet(Front(s)) \cup {Last(s)}
    BY <1>1, <1>2, <1>4, <1>5 DEF ToSet
  <2>2. ASSUME NEW x \in ToSet(Front(s)) PROVE x \in ToSet(s)
    <3>1. \A k \in 1..(n - 1) : k \in 1..n
      BY <1>1
    <3> QED BY <1>1, <1>4, <3>1 DEF ToSet
  <2>3. Last(s) \in ToSet(s)
    BY <1>1, <1>2 DEF ToSet
  <2> QED BY <2>1, <2>2, <2>3
<1> QED BY <1>1, <1>2, <1>3, <1>6

(* Pushing callees adds them to what is on the stack.                        *)
LEMMA JoinedCalls ==
  ASSUME NEW s \in Seq(Index), NEW t \in Seq(Index)
  PROVE  ToSet(s \o t) = ToSet(s) \cup ToSet(t)
<1>1. /\ Len(s) \in Nat /\ Len(t) \in Nat /\ DOMAIN s = 1..Len(s) /\ DOMAIN t = 1..Len(t)
      /\ DOMAIN (s \o t) = 1..(Len(s) + Len(t))
      /\ \A k \in 1..(Len(s) + Len(t)) :
           (s \o t)[k] = IF k <= Len(s) THEN s[k] ELSE t[k - Len(s)]
  OBVIOUS
<1>2. ASSUME NEW x \in ToSet(s \o t) PROVE x \in ToSet(s) \cup ToSet(t)
  <2>1. PICK k \in 1..(Len(s) + Len(t)) : x = (s \o t)[k]
    BY <1>1 DEF ToSet
  <2>2. k \in 1..Len(s) \/ (k - Len(s) \in 1..Len(t) /\ ~(k <= Len(s)))
    BY <1>1
  <2> QED BY <1>1, <2>1, <2>2 DEF ToSet
<1>3. ASSUME NEW x \in ToSet(s) PROVE x \in ToSet(s \o t)
  <2>1. PICK k \in 1..Len(s) : x = s[k]
    BY <1>1 DEF ToSet
  <2>2. k \in 1..(Len(s) + Len(t)) /\ k <= Len(s)
    BY <1>1
  <2> QED BY <1>1, <2>1, <2>2 DEF ToSet
<1>4. ASSUME NEW x \in ToSet(t) PROVE x \in ToSet(s \o t)
  <2>1. PICK k \in 1..Len(t) : x = t[k]
    BY <1>1 DEF ToSet
  <2>2. k + Len(s) \in 1..(Len(s) + Len(t)) /\ ~(k + Len(s) <= Len(s))
        /\ (k + Len(s)) - Len(s) = k
    BY <1>1
  <2>3. (s \o t)[k + Len(s)] = x
    BY <1>1, <2>1, <2>2
  <2> QED BY <1>1, <2>2, <2>3 DEF ToSet
<1> QED BY <1>2, <1>3, <1>4

(* The walk from an entrypoint stays among what that leads to and never      *)
(* drops a callee (budget.rs:481-494).                                       *)
LEMMA ReachInvariant == Spec => []ReachInv
<1>1. Init => ReachInv
  BY DEF Init, ReachInv
<1>2. TypeOK /\ ReadInv /\ ReachInv /\ [Next]_vars => ReachInv'
  <2> SUFFICES ASSUME TypeOK, ReadInv, ReachInv, [Next]_vars PROVE ReachInv'
    OBVIOUS
  <2>0. input' = input
    BY DEF Next, vars, ReadModule, EstimateFromSource, StartWalk, SkipReached, Reach, Search,
           StartCycleSearch, PassFinished, Descend, Return, ReportRecursion, Estimate, Emit, Detect
  <2>1. \A j : CalledBy(j)' = CalledBy(j) /\ Leads(j)' = Leads(j)
    BY <2>0, CodeKept DEF Leads
  <2>2. ASSUME phase' = phase, entry' = entry, stack' = stack, reached' = reached
        PROVE  ReachInv'
    BY <2>1, <2>2 DEF ReachInv, Pending
  <2>3. CASE ReadModule \/ PassFinished \/ Descend \/ Return \/ UNCHANGED vars
    BY <2>2, <2>3 DEF ReadModule, PassFinished, Descend, Return, InCall, vars, estimator
  <2>4. CASE EstimateFromSource \/ ReportRecursion \/ Estimate
    BY <2>4 DEF EstimateFromSource, ReportRecursion, Estimate, Emit, ReachInv
  <2>5. CASE Detect
    BY <2>5 DEF Detect, ReachInv
  <2>6. CASE StartCycleSearch
    <3>1. phase = "reach" /\ phase' = "cycle" /\ stack = << >> /\ stack' = stack
          /\ reached' = reached /\ entry' = entry
      BY <2>6 DEF StartCycleSearch
    <3> QED BY <2>1, <3>1 DEF ReachInv, Pending
  <2>7. CASE StartWalk
    <3>1. phase = "idle" /\ phase' = "reach" /\ stack' = <<entry'>> /\ reached' = reached
      BY <2>7 DEF StartWalk, Ready
    <3>2. reached' = {} /\ ToSet(stack') = {entry'}
      BY <3>1 DEF ReachInv, ToSet
    <3>3. entry' \in Leads(entry')
      BY DEF Leads
    <3>4. Pending' = {entry'}
      BY <3>2 DEF Pending
    <3>5. Leads(entry)' = Leads(entry')
      BY <2>1
    <3> QED BY <3>1, <3>2, <3>3, <3>4, <3>5 DEF ReachInv
  <2>8. CASE SkipReached
    <3>1. /\ phase = "reach" /\ phase' = phase /\ entry' = entry /\ reached' = reached
          /\ stack # << >> /\ stack' = Front(stack) /\ Last(stack) \in reached
      BY <2>8 DEF SkipReached
    <3>2. ToSet(stack) = ToSet(stack') \cup {Last(stack)}
      BY <3>1, LastOfStack DEF TypeOK
    <3>3. Pending' = Pending
      BY <3>1, <3>2 DEF Pending
    <3> QED BY <2>1, <3>1, <3>3 DEF ReachInv
  <2>9. CASE Reach
    <3> DEFINE top == Last(stack)
    <3>1. /\ phase = "reach" /\ phase' = phase /\ entry' = entry /\ reached' = reached \cup {top}
          /\ stack # << >> /\ stack' = Front(stack) \o Callees(module, top)
      BY <2>9 DEF Reach
    <3>2. /\ ToSet(stack) = ToSet(Front(stack)) \cup {top} /\ top \in Index
          /\ Front(stack) \in Seq(Index)
      BY <3>1, LastOfStack DEF TypeOK
    <3>3. Parsed /\ entry \in Index
      BY <3>1 DEF TypeOK
    <3>4. CalledBy(top) = ToSet(Callees(module, top))
      BY <3>2, <3>3, CalledByIs DEF CalleesOf
    <3>5. Callees(module, top) \in Seq(Index)
      BY <3>2, CalleesType DEF TypeOK
    <3>6. ToSet(stack') = ToSet(Front(stack)) \cup CalledBy(top)
      BY <3>1, <3>2, <3>4, <3>5, JoinedCalls
    <3> HIDE DEF top
    <3>7. Pending' = Pending \cup CalledBy(top) /\ top \in Pending
      BY <3>1, <3>2, <3>6 DEF Pending
    <3>8. CalledBy(top) \subseteq Leads(entry)
      <4>1. \A k \in Index : CalledBy(k) \subseteq Index
        BY <3>3, CalledByIs
      <4>2. top \in Leads(entry)
        BY <3>1, <3>7 DEF ReachInv
      <4> QED BY <3>3, <4>1, <4>2, DescendantsClosed DEF Leads
    <3>9. \A k \in reached' : CalledBy(k) \subseteq Pending'
      BY <3>1, <3>7 DEF ReachInv
    <3> QED BY <2>1, <3>1, <3>7, <3>8, <3>9 DEF ReachInv
  <2> QED BY <2>3, <2>4, <2>5, <2>6, <2>7, <2>8, <2>9 DEF Next, Search
<1> QED BY <1>1, <1>2, TypeCorrect, ReadInvariant, PTL DEF Spec

(* Once the stack is empty, all it leads to has been reached.                *)
LEMMA ReachedIsAll ==
  ASSUME TypeOK, ReadInv, ReachInv, phase = "cycle"
  PROVE  reached = Leads(entry)
<1>1. /\ Parsed /\ entry \in Index /\ reached \in SUBSET Index
      /\ ToSet(stack) = {}
  BY DEF TypeOK, ReachInv, ToSet
<1>2. entry \in reached /\ reached \subseteq Leads(entry)
      /\ \A k \in reached : CalledBy(k) \subseteq reached
  BY <1>1 DEF ReachInv, Pending
<1>3. \A k \in Index : CalledBy(k) \subseteq Index
  BY <1>1, CalledByIs
<1>4. Descendants(entry) \subseteq reached
  BY <1>1, <1>2, <1>3, DescendantsClosed
<1> QED BY <1>2, <1>4 DEF Leads

(* The costs depend on the input alone.                                      *)
LEMMA TowerKept ==
  ASSUME input' = input, NEW g, NEW n
  PROVE  IsTower(g, n)' <=> IsTower(g, n)
<1>1. ASSUME NEW h PROVE CostOver(h)' = CostOver(h)
  <2> DEFINE f(j) == [p \in CallsAt(j) |-> input.cost_per_call + h[CodeAt(j)[p].to]]
             C(j) == IF HasCode(j)
                     THEN Len(CodeAt(j)) * input.cost_per_instruction + SumFunction(f(j))
                     ELSE 0
  <2>1. \A j : (HasCode(j)' <=> HasCode(j)) /\ CodeAt(j)' = CodeAt(j) /\ CallsAt(j)' = CallsAt(j)
    BY CodeKept
  <2>2. \A j : f(j)' = f(j)
    BY <2>1
  <2>3. \A j : C(j)' = C(j)
    <3>1. ASSUME NEW j PROVE C(j)' = IF HasCode(j)'
                     THEN Len(CodeAt(j)') * input.cost_per_instruction' + SumFunction(f(j)')
                     ELSE 0
      OBVIOUS
    <3> HIDE DEF f
    <3> QED BY <2>1, <2>2, <3>1
  <2>4. CostOver(h) = [j \in Index |-> C(j)]
    BY DEF CostOver
  <2>5. CostOver(h)' = [j \in Index |-> C(j)']
    BY DEF CostOver
  <2> HIDE DEF C
  <2> QED BY <2>3, <2>4, <2>5
<1> QED BY <1>1 DEF IsTower, Zeros

(* So does whether a helper is called twice.                                 *)
LEMMA CalledOnceKept ==
  ASSUME input' = input, NEW i
  PROVE  CalledOnce(i)' <=> CalledOnce(i)
<1>1. \A j : /\ HasCode(j)' <=> HasCode(j)
             /\ CodeAt(j)' = CodeAt(j)
             /\ CallsAt(j)' = CallsAt(j) /\ Descendants(j)' = Descendants(j)
  BY CodeKept
<1>2. Code(i)' = Code(i)
  BY <1>1 DEF Code
<1>3. CallSites(i)' = CallSites(i)
  BY <1>1, <1>2 DEF CallSites
<1> QED BY <1>1, <1>3 DEF CalledOnce

(* The instructions the report gives an entrypoint are within the cost of    *)
(* calling it, and a certain violation breaks one of its bounds.             *)
IsMeasured(b) == b.instructions.reason \in {"none", "construct"}

Priced(b) ==
  /\ IF IsMeasured(b)
     THEN /\ Parsed /\ ExportIndex(b.name) \in Index
          /\ \A g : IsTower(g, MaxIndex + 1) =>
                Within(b.instructions, g[MaxIndex + 1][ExportIndex(b.name)],
                       CalledOnce(ExportIndex(b.name)))
     ELSE b.instructions.upper = {} /\ b.instructions.lower_bound = 0
  /\ \A v \in b.violations :
       v.axis = "instructions" /\ v.certain =>
         \E bound \in b.instructions.upper \cup {b.instructions.lower_bound} :
            bound > input.limits["instructions"]

CostInv == \A k \in DOMAIN report : Priced(report[k])

(* A finding of SSDK007 stems from a violation in the report.                *)
StemsFrom(f, b) ==
  \E v \in b.violations :
    /\ f.function = b.name /\ f.axis = v.axis
    /\ f.severity = "high" => v.certain

FindingsInv ==
  \A f \in findings : f.rule = "SSDK007" => \E k \in DOMAIN report : StemsFrom(f, report[k])

(* What the report says of an entrypoint stays priced while the binary is.   *)
LEMMA PricedKept ==
  ASSUME input' = input, NEW b, Priced(b),
         (module' = module /\ reading' = reading) \/ ~Parsed
  PROVE  Priced(b)'
<1>1. CASE IsMeasured(b)
  <2>1. Parsed /\ module' = module /\ reading' = reading
    BY <1>1 DEF Priced
  <2>2. Parsed' /\ ExportIndex(b.name)' = ExportIndex(b.name)
    BY <2>1 DEF Parsed, ExportIndex, ExportsOf
  <2>3. \A g : IsTower(g, MaxIndex + 1)' <=> IsTower(g, MaxIndex + 1)
    BY TowerKept
  <2>4. \A i : CalledOnce(i)' <=> CalledOnce(i)
    BY CalledOnceKept
  <2>5. CalledOnce(ExportIndex(b.name))' <=> CalledOnce(ExportIndex(b.name))
    BY <2>2, <2>4 DEF CalledOnce, CallSites
  <2> QED BY <1>1, <2>1, <2>2, <2>3, <2>5 DEF Priced, IsMeasured, Within
<1>2. CASE ~IsMeasured(b)
  BY <1>2 DEF Priced, IsMeasured
<1> QED BY <1>1, <1>2

(* A certain violation of the instruction limit breaks one of the bounds.    *)
LEMMA BreachStems ==
  ASSUME NEW name, NEW e, NEW compiled,
         NEW v \in BudgetOf(name, e, compiled).violations,
         v.axis = "instructions", v.certain
  PROVE  \E bound \in e.upper \cup {e.lower_bound} : bound > input.limits["instructions"]
<1>1. \A axis, x : \A u \in Violation(axis, x) :
        u.axis = axis /\ (u.certain <=> CertainlyExceeds(x, input.limits[axis]))
  BY DEF Violation
<1>2. v \in Violation("instructions", e)
  <2>1. \/ v \in Violation("instructions", e)
        \/ \E x : v \in Violation("memory", x)
        \/ \E x : v \in Violation("read-entries", x)
        \/ \E x : v \in Violation("write-entries", x)
    BY DEF BudgetOf
  <2> QED BY <1>1, <2>1
<1> QED BY <1>1, <1>2 DEF CertainlyExceeds

(* What one emission adds to the report is priced when its instructions are. *)
LEMMA CostAdded ==
  ASSUME TypeOK, CostInv, NEW e, NEW c, NEW o, Emit(e, c, o),
         IF e.reason \in {"none", "construct"}
         THEN /\ Parsed /\ ExportIndex(Current) \in Index
              /\ \A g : IsTower(g, MaxIndex + 1) =>
                    Within(e, g[MaxIndex + 1][ExportIndex(Current)],
                           CalledOnce(ExportIndex(Current)))
         ELSE e.upper = {} /\ e.lower_bound = 0
  PROVE  CostInv'
<1> DEFINE b == BudgetOf(Current, e, c)
<1>1. /\ input' = input /\ module' = module /\ reading' = reading
      /\ report' = report \/ report' = Append(report, b)
  BY DEF Emit, reader
<1>2. b.name = Current /\ b.instructions = e
  BY DEF BudgetOf
<1>3. \A v \in b.violations :
        v.axis = "instructions" /\ v.certain =>
          \E bound \in e.upper \cup {e.lower_bound} : bound > input.limits["instructions"]
  BY BreachStems
<1> HIDE DEF b
<1>4. Priced(b)
  BY <1>2, <1>3 DEF Priced, IsMeasured
<1>5. \A x : Priced(x) => Priced(x)'
  BY <1>1, PricedKept
<1>6. ASSUME NEW k \in DOMAIN report' PROVE Priced(report'[k])
  <2>1. CASE report' = report
    BY <1>6, <2>1 DEF CostInv
  <2>2. CASE report' = Append(report, b)
    <3>1. report \in Seq(EntryBudget)
      BY DEF TypeOK
    <3>2. /\ DOMAIN report' = 1..(Len(report) + 1)
          /\ \A i \in 1..Len(report) : report'[i] = report[i]
          /\ report'[Len(report) + 1] = b
          /\ DOMAIN report = 1..Len(report) /\ Len(report) \in Nat
      BY <2>2, <3>1, AppendProperties
    <3>3. k \in 1..Len(report) \/ k = Len(report) + 1
      BY <1>6, <3>2
    <3> QED BY <1>4, <3>2, <3>3 DEF CostInv
  <2> QED BY <1>1, <2>1, <2>2
<1>7. ASSUME NEW k \in DOMAIN report' PROVE Priced(report[k])'
  <2> DEFINE x == report'[k]
  <2>1. Priced(x)
    BY <1>6
  <2> QED BY <1>1, <2>1, PricedKept DEF Priced
<1> QED BY <1>7 DEF CostInv

(* Every entrypoint in the report is priced.                                 *)
LEMMA CostInvariant == Spec => []CostInv
<1>1. Init => CostInv
  BY DEF Init, CostInv
<1>2. /\ TypeOK /\ ReadInv /\ SearchInv /\ AnswerInv /\ ReachInv /\ CostInv /\ [Next]_vars
      => CostInv'
  <2> SUFFICES ASSUME TypeOK, ReadInv, SearchInv, AnswerInv, ReachInv, CostInv, [Next]_vars
               PROVE  CostInv'
    OBVIOUS
  <2>0. ASSUME report' = report, input' = input,
               (module' = module /\ reading' = reading) \/ ~Parsed
        PROVE  CostInv'
    <3>1. \A b : Priced(b) => Priced(b)'
      BY <2>0, PricedKept
    <3>2. \A k \in DOMAIN report : Priced(report[k])'
      <4> TAKE k \in DOMAIN report
      <4> DEFINE x == report[k]
      <4>1. Priced(x)
        BY DEF CostInv
      <4> QED BY <2>0, <4>1, PricedKept DEF Priced
    <3> QED BY <2>0, <3>2 DEF CostInv
  <2>1. CASE ReadModule
    <3>1. ~Parsed /\ report' = report /\ input' = input
      BY <2>1, ReadingGoesOn DEF ReadModule, Parsed, estimator
    <3> QED BY <2>0, <3>1
  <2>2. CASE EstimateFromSource
    <3>1. PICK r \in {"not exported", "no module"} : Emit(Unknown(r), FALSE, FALSE)
      BY <2>2 DEF EstimateFromSource
    <3>2. /\ Unknown(r).reason \notin {"none", "construct"}
          /\ Unknown(r).upper = {} /\ Unknown(r).lower_bound = 0
      BY DEF Unknown
    <3> QED BY <3>1, <3>2, CostAdded
  <2>3. CASE ReportRecursion
    <3>1. Emit(Unknown("recursion"), TRUE, FALSE)
      BY <2>3 DEF ReportRecursion
    <3>2. LET e == Unknown("recursion")
          IN e.reason \notin {"none", "construct"} /\ e.upper = {} /\ e.lower_bound = 0
      BY DEF Unknown
    <3> QED BY <3>1, <3>2, CostAdded
  <2>4. CASE Estimate
    <3>1. phase = "cycle" /\ frames = << >>
          /\ Emit(InstructionEstimate, TRUE, InstructionOverflows)
      BY <2>4 DEF Estimate
    <3>2. Parsed /\ entry \in Index /\ entry = ExportIndex(Current)
      BY <3>1 DEF TypeOK, AnswerInv
    <3>3. ~Recursive(entry) /\ reached = Leads(entry)
      BY <3>1, DoneIsNoRecursion, ReachedIsAll
    <3>4. ASSUME NEW g, IsTower(g, MaxIndex + 1)
          PROVE  Within(InstructionEstimate, g[MaxIndex + 1][entry], CalledOnce(entry))
      BY <3>2, <3>3, <3>4, EstimateWithin
    <3>5. InstructionEstimate.reason \in {"none", "construct"}
      BY DEF InstructionEstimate, Unbounded, Exact
    <3> QED BY <3>1, <3>2, <3>4, <3>5, CostAdded
  <2>5. CASE StartWalk \/ SkipReached \/ Reach \/ Search \/ Detect \/ UNCHANGED vars
    <3>1. report' = report /\ input' = input /\ module' = module /\ reading' = reading
      BY <2>5 DEF StartWalk, SkipReached, Reach, Search, StartCycleSearch, PassFinished,
                  Descend, Return, Detect, vars, estimator, reader
    <3> QED BY <2>0, <3>1
  <2> QED BY <2>1, <2>2, <2>3, <2>4, <2>5 DEF Next
<1> QED BY <1>1, <1>2, TypeCorrect, ReadInvariant, SearchInvariant, AnswerInvariant,
           ReachInvariant, PTL DEF Spec

(* Every finding of SSDK007 stems from a violation the report has.           *)
LEMMA FindingsStem == Spec => []FindingsInv
<1>1. Init => FindingsInv
  BY DEF Init, FindingsInv
<1>2. TypeOK /\ FindingsInv /\ [Next]_vars => FindingsInv'
  <2> SUFFICES ASSUME TypeOK, FindingsInv, [Next]_vars PROVE FindingsInv'
    OBVIOUS
  <2>1. \A f, b : StemsFrom(f, b)' <=> StemsFrom(f, b)
    BY DEF StemsFrom
  <2>2. CASE Detect
    <3>1. report' = report
          /\ findings' = ResourceBudgetExceeded \cup {[rule |-> r] : r \in ModuleRules}
      BY <2>2 DEF Detect
    <3>2. ASSUME NEW f \in findings', f.rule = "SSDK007"
          PROVE  \E k \in DOMAIN report : StemsFrom(f, report[k])
      <4>1. f \in ResourceBudgetExceeded
        <5>1. \A r \in ModuleRules : [rule |-> r].rule # "SSDK007"
          BY DEF ModuleRules
        <5> QED BY <3>1, <3>2, <5>1
      <4>2. PICK k \in DOMAIN report : \E v \in report[k].violations :
              f = [rule |-> "SSDK007", function |-> report[k].name, axis |-> v.axis,
                   severity |-> IF v.certain THEN "high" ELSE "medium",
                   confidence |-> IF v.certain THEN "high" ELSE "low"]
        BY <4>1 DEF ResourceBudgetExceeded
      <4>5. PICK v \in report[k].violations :
              f = [rule |-> "SSDK007", function |-> report[k].name, axis |-> v.axis,
                   severity |-> IF v.certain THEN "high" ELSE "medium",
                   confidence |-> IF v.certain THEN "high" ELSE "low"]
        BY <4>2
      <4>3. f.function = report[k].name /\ f.axis = v.axis /\ (f.severity = "high" => v.certain)
        BY <4>5
      <4> QED BY <4>3 DEF StemsFrom
    <3> QED BY <3>1, <3>2 DEF FindingsInv, StemsFrom
  <2>3. CASE ~Detect
    <3>1. findings' = findings
      BY <2>3 DEF Next, vars, ReadModule, EstimateFromSource, StartWalk, SkipReached, Reach,
             Search, StartCycleSearch, PassFinished, Descend, Return, ReportRecursion, Estimate,
             Emit, estimator
    <3>2. \A k \in DOMAIN report : k \in DOMAIN report' /\ report'[k] = report[k]
      <4>1. \/ report' = report
            \/ \E b : report' = Append(report, b)
        BY <2>3 DEF Next, vars, ReadModule, EstimateFromSource, StartWalk, SkipReached, Reach,
             Search, StartCycleSearch, PassFinished, Descend, Return, ReportRecursion, Estimate,
             Emit, estimator
      <4>2. ASSUME NEW b, report' = Append(report, b)
            PROVE  \A k \in DOMAIN report : k \in DOMAIN report' /\ report'[k] = report[k]
        <5>1. report \in Seq(EntryBudget)
          BY DEF TypeOK
        <5>2. /\ DOMAIN report = 1..Len(report) /\ Len(report) \in Nat
              /\ DOMAIN report' = 1..(Len(report) + 1)
              /\ \A k \in 1..Len(report) : report'[k] = report[k]
          BY <4>2, <5>1
        <5> QED BY <5>2
      <4> QED BY <4>1, <4>2
    <3> QED BY <3>1, <3>2 DEF FindingsInv, StemsFrom
  <2> QED BY <2>2, <2>3
<1> QED BY <1>1, <1>2, TypeCorrect, PTL DEF Spec

(* The bounds on instructions are right for every graph of calls and any     *)
(* width of the sums (instruction_estimate, budget.rs:480-541; the note of   *)
(* SSDK007, resources.rs:105-106): every call of the entrypoint in which no  *)
(* branch leaves early costs at least the lower bound, a violation reported  *)
(* as certain breaks the limit, and where no helper is called twice the      *)
(* exact figure is the cost.                                                 *)
THEOREM BoundsAreRight == Spec => []BoundsHold
<1>1. TypeOK /\ FiguresAgree /\ CostInv /\ FindingsInv => BoundsHold
  <2> SUFFICES ASSUME TypeOK, FiguresAgree, CostInv, FindingsInv PROVE BoundsHold
    OBVIOUS
  <2>1. PICK g : IsTower(g, MaxIndex + 1) /\ \A i : Cost(i) = g[MaxIndex + 1][i]
    BY CostIs
  <2>2. ASSUME NEW k \in Measured
        PROVE  LET i == ExportIndex(report[k].name)
               IN i \in Index /\ Within(report[k].instructions, Cost(i), CalledOnce(i))
    <3>1. Priced(report[k]) /\ IsMeasured(report[k])
      BY DEF Measured, CostInv, IsMeasured
    <3> QED BY <2>1, <3>1 DEF Priced
  <2>3. \A i \in Index : Cost(i) \in Int
    <3>1. MaxIndex + 1 \in 0..(MaxIndex + 1)
      BY SizesAssumption
    <3> QED BY <2>1, <3>1 DEF IsTower
  <2>4. input.limits["instructions"] \in Nat
    BY WidthsAssumption DEF TypeOK, Input, U64, Largest, Axis
  <2>5. ASSUME NEW k \in Measured, NEW f \in findings, f.rule = "SSDK007",
               f.function = report[k].name, f.axis = "instructions", f.severity = "high"
        PROVE  Cost(ExportIndex(report[k].name)) > input.limits["instructions"]
    <3>1. PICK j \in DOMAIN report : StemsFrom(f, report[j])
      BY <2>5 DEF FindingsInv
    <3> DEFINE e == report[j].instructions
    <3>2. report[j].name = report[k].name
          /\ \E bound \in e.upper \cup {e.lower_bound} : bound > input.limits["instructions"]
      BY <2>5, <3>1 DEF StemsFrom, CostInv, Priced
    <3>3. j \in Measured
      <4>1. ASSUME ~IsMeasured(report[j]) PROVE FALSE
        <5>1. e.upper = {} /\ e.lower_bound = 0
          BY <4>1 DEF CostInv, Priced
        <5> QED BY <2>4, <3>2, <5>1
      <4> QED BY <4>1 DEF Measured, IsMeasured
    <3>4. Within(e, Cost(ExportIndex(report[k].name)), CalledOnce(ExportIndex(report[k].name)))
      BY <2>2, <3>2, <3>3
    <3>5. e.upper \subseteq {e.lower_bound}
      <4>1. e.reason # "none" => e.upper = {}
        BY DEF FiguresAgree, IsUnbounded
      <4> QED BY <3>4, <4>1 DEF Within
    <3>6. e.lower_bound \in Nat
      <4>1. report[j] \in EntryBudget
        BY DEF TypeOK
      <4> QED BY <4>1 DEF EntryBudget, Figure
    <3>7. Cost(ExportIndex(report[k].name)) \in Int
      BY <2>2, <2>3
    <3> HIDE DEF e
    <3> QED BY <2>4, <3>2, <3>4, <3>5, <3>6, <3>7 DEF Within
  <2> QED BY <2>2, <2>5 DEF BoundsHold, Within
<1> QED BY <1>1, TypeCorrect, EstimatesAgree, CostInvariant, FindingsStem, PTL
=============================================================================
