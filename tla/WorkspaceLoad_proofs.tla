----------------------- MODULE WorkspaceLoad_proofs -----------------------
(***************************************************************************)
(* Proofs about WorkspaceLoad, for any number of directories and any trees *)
(* over them: the load is well typed, every file belongs to the innermost  *)
(* package around it, ids resolve, and every package is accounted for.     *)
(*                                                                         *)
(* FilesBelong speaks of finished projects only.  LoadInv says at each     *)
(* moment of a walk which files are still to come: those of the            *)
(* directories of the package that lie at or below something on the stack. *)
(* EveryPackagePlaced speaks of the finished load only.  PlaceInv says the *)
(* same of discovery, and for each package dealt with where it went.       *)
(***************************************************************************)
EXTENDS WorkspaceLoad, TLAPS

Unread == {e \in Region(package) : \E d \in stack : Within(d, e)}

FilesIn(D) == UNION {FilesOf(d) : d \in D}

Eligible(d, p) == {c \in Children(d) : p # None => ~IsPackageDir(c)}

WalkInv ==
  /\ package \in Packages \cup {None}
  /\ packages \subseteq Packages
  /\ pc = "discover" => package = None /\ paths = {} /\ stack \subseteq Visible
  /\ pc \in {"discover", "collect"} => sources = << >> /\ notes = {}
  /\ pc = "collect" =>
       /\ stack \subseteq Region(package)
       /\ paths \cup FilesIn(Unread) = Belonging(package)

FilesInv ==
  /\ pc = "load" =>
       /\ Parsed(sources) \cup notes \cup paths = Belonging(package)
       /\ Parsed(sources) \cap notes = {} /\ Parsed(sources) \cap paths = {}
       /\ notes \cap paths = {}
  /\ \A i \in DOMAIN sources : sources[i].id = i - 1
  /\ \A i, j \in DOMAIN sources : sources[i].file = sources[j].file => i = j

ProjectsInv ==
  /\ FilesBelong
  /\ \A P \in projects : /\ P.sources \in Seq([file : File, id : Nat])
                         /\ \A i \in DOMAIN P.sources : P.sources[i].id = i - 1

LoadInv == TypeOK /\ WalkInv /\ FilesInv /\ ProjectsInv

--------------------------------------------------------------------------
(* One more file is parsed.                                                 *)
LEMMA AppendParsed ==
  ASSUME NEW S, NEW s \in Seq(S), NEW x \in S
  PROVE  /\ Parsed(Append(s, x)) = Parsed(s) \cup {x.file}
         /\ Append(s, x) \in Seq(S)
         /\ Len(Append(s, x)) = Len(s) + 1
         /\ DOMAIN Append(s, x) = DOMAIN s \cup {Len(s) + 1}
         /\ \A i \in DOMAIN s : Append(s, x)[i] = s[i]
         /\ Append(s, x)[Len(s) + 1] = x
  <1> DEFINE t == Append(s, x)
  <1>1. /\ t \in Seq(S) /\ Len(t) = Len(s) + 1
        /\ DOMAIN t = 1..(Len(s) + 1) /\ DOMAIN s = 1..Len(s) /\ Len(s) \in Nat
        /\ \A i \in 1..Len(s) : t[i] = s[i]
        /\ t[Len(s) + 1] = x
    OBVIOUS
  <1>2. DOMAIN t = DOMAIN s \cup {Len(s) + 1}
    BY <1>1
  <1> HIDE DEF t
  <1>3. Parsed(t) = Parsed(s) \cup {x.file}
    BY <1>1, <1>2 DEF Parsed
  <1> QED
    BY <1>1, <1>2, <1>3 DEF t

(* The children of a directory that is in a region are in it as well, when  *)
(* they are no packages of their own, and whatever of the region lies below *)
(* the directory lies at or below one of them.                              *)
LEMMA RegionSplits ==
  ASSUME tree \in Trees, NEW p \in Packages \cup {None}, NEW d \in Region(p)
  PROVE  /\ Eligible(d, p) \subseteq Region(p)
         /\ \A c \in Eligible(d, p) : \A e \in Directory : Within(c, e) => Within(d, e)
         /\ \A e \in Region(p) :
              Within(d, e) => e = d \/ \E c \in Eligible(d, p) : Within(c, e)
  <1>1. /\ d \in Directory /\ Region(p) \subseteq Visible /\ Visible \subseteq Directory
        /\ Packages \subseteq Visible
    BY DEF Region, Visible, Packages
  <1>2. /\ tree.above \in [Directory -> SUBSET Directory]
        /\ \A e \in Directory : \A a \in tree.above[e] :
             /\ a # e /\ tree.above[a] \subseteq tree.above[e] /\ e \notin tree.above[a]
             /\ \E c \in Directory : /\ tree.above[c] = tree.above[a] \cup {a}
                                     /\ c = e \/ c \in tree.above[e]
    BY TreesAssumption, SMTT(30)
  <1>3. \A c \in Children(d) :
          /\ c \in Directory /\ c \notin tree.hidden
          /\ tree.above[c] = tree.above[d] \cup {d}
    BY DEF Children
  <1>4. Children(d) \subseteq Visible
    BY <1>1, <1>3 DEF Visible
  <1>5. Eligible(d, p) \subseteq Region(p)
    <2>1. CASE p = None
      BY <2>1, <1>4 DEF Eligible, Region
    <2>2. CASE p # None
      <3> SUFFICES ASSUME NEW c \in Eligible(d, p) PROVE c \in Region(p)
        OBVIOUS
      <3>1. /\ c \in Children(d) /\ ~IsPackageDir(c) /\ c \in Visible
            /\ Within(p, d) /\ \A q \in Packages : Within(q, d) => Within(q, p)
        BY <2>2, <1>4 DEF Eligible, Region
      <3>2. Within(p, c)
        BY <3>1, <1>3 DEF Within
      <3>3. \A q \in Packages : Within(q, c) => Within(q, d)
        BY <3>1, <1>3 DEF Within, Packages
      <3> QED
        BY <2>2, <3>1, <3>2, <3>3 DEF Region
    <2> QED
      BY <2>1, <2>2
  <1>6. ASSUME NEW c \in Eligible(d, p), NEW e \in Directory, Within(c, e)
        PROVE  Within(d, e)
    BY <1>6, <1>2, <1>3 DEF Eligible, Within
  <1>7. ASSUME NEW e \in Region(p), Within(d, e), e # d
        PROVE  \E c \in Eligible(d, p) : Within(c, e)
    <2>1. e \in Visible /\ e \in Directory /\ d \in tree.above[e]
      BY <1>7, <1>1 DEF Within
    <2>2. PICK c \in Directory : /\ tree.above[c] = tree.above[d] \cup {d}
                                 /\ c = e \/ c \in tree.above[e]
      BY <2>1, <1>2
    <2>3. c # Root
      <3>1. tree.above[Root] = {}
        BY TreesAssumption
      <3> QED
        BY <2>2, <3>1
    <2>4. c \in Children(d) /\ Within(c, e)
      BY <2>1, <2>2, <2>3 DEF Visible, Children, Within
    <2>5. CASE p = None
      BY <2>4, <2>5 DEF Eligible
    <2>6. CASE p # None
      <3>1. /\ Within(p, d) /\ \A q \in Packages : Within(q, e) => Within(q, p)
        BY <2>6, <1>7 DEF Region
      <3>2. c \in Visible
        BY <1>4, <2>4
      <3>3. ~IsPackageDir(c)
        <4> SUFFICES ASSUME IsPackageDir(c) PROVE FALSE
          OBVIOUS
        <4>1. Within(c, p)
          BY <2>4, <3>1, <3>2 DEF Packages
        <4>2. d \in tree.above[c] /\ p \in Directory
          BY <2>2, <2>6, <1>1
        <4> QED
          BY <4>1, <4>2, <3>1, <1>2, <1>1 DEF Within
      <3> QED
        BY <2>4, <3>3 DEF Eligible
    <2> QED
      BY <2>5, <2>6
  <1> QED
    BY <1>5, <1>6, <1>7

(* A step that leaves the disk alone leaves everything it determines alone. *)
LEMMA DiskFixed ==
  ASSUME tree' = tree
  PROVE  /\ Visible' = Visible /\ Packages' = Packages
         /\ \A p : Region(p)' = Region(p) /\ Belonging(p)' = Belonging(p)
         /\ \A d : FilesOf(d)' = FilesOf(d)
  <1>1. Visible' = Visible
    BY DEF Visible
  <1>2. Packages' = Packages
    BY <1>1 DEF Packages, IsPackageDir
  <1>3. ASSUME NEW d PROVE FilesOf(d)' = FilesOf(d)
    BY DEF FilesOf
  <1>4. ASSUME NEW p PROVE Region(p)' = Region(p)
    BY <1>1, <1>2 DEF Region, Within
  <1>5. ASSUME NEW p PROVE Belonging(p)' = Belonging(p)
    BY <1>3, <1>4 DEF Belonging
  <1> QED
    BY <1>1, <1>2, <1>3, <1>4, <1>5

(* What is in a directory, and what belongs to a package, are files.        *)
LEMMA FilesAreFiles ==
  ASSUME tree \in Trees
  PROVE  /\ \A d \in Directory : FilesOf(d) \subseteq File
         /\ \A p : Belonging(p) \subseteq File
  <1>1. tree.files \in [Directory -> Seq({"ok", "broken"})]
    BY TreesAssumption
  <1>2. ASSUME NEW d \in Directory PROVE FilesOf(d) \subseteq File
    <2>1. tree.files[d] \in Seq({"ok", "broken"})
      BY <1>1
    <2>2. DOMAIN tree.files[d] \subseteq Nat \ {0}
      BY <2>1
    <2> QED
      BY <2>2 DEF FilesOf, File
  <1>3. ASSUME NEW p PROVE Belonging(p) \subseteq File
    BY <1>2 DEF Belonging, Region, Visible
  <1> QED
    BY <1>2, <1>3

(* A project that is kept is described by the state it is kept in; the      *)
(* others do not change.                                                    *)
LEMMA ProjectsStay ==
  ASSUME ProjectsInv, tree' = tree, projects' = projects
  PROVE  ProjectsInv'
  <1>1. FilesBelong'
    BY DiskFixed DEF ProjectsInv, FilesBelong, Parsed
  <1> QED
    BY <1>1 DEF ProjectsInv, File

(* Where a walk starts, all of its package's files are to come.             *)
LEMMA WalkStarts ==
  ASSUME tree \in Trees, NEW p \in Packages \cup {None}
  PROVE  LET top == IF p = None THEN Root ELSE p
         IN  top \in Region(p) /\ \A e \in Region(p) : Within(top, e)
  <1>1. Root \in Directory /\ None \notin Directory
    BY DirectoryAssumption DEF Directory, Root
  <1>2. tree.above[Root] = {} /\ \A d \in Directory \ {Root} : Root \in tree.above[d]
    BY TreesAssumption
  <1>3. Root \in Visible /\ \A e \in Visible : Within(Root, e)
    BY <1>1, <1>2 DEF Visible, Within
  <1>4. ASSUME p # None PROVE p \in Region(p) /\ \A e \in Region(p) : Within(p, e)
    BY <1>4 DEF Region, Within, Packages
  <1>5. ASSUME p = None PROVE Region(p) = Visible
    BY <1>5 DEF Region
  <1> QED
    BY <1>3, <1>4, <1>5

(* The load begins with nothing read and nothing kept.                      *)
LEMMA LoadInit == Init => LoadInv
  <1> SUFFICES ASSUME Init PROVE LoadInv
    OBVIOUS
  <1>1. tree \in Trees /\ Root \in Visible /\ Root \in Directory
    BY WalkStarts DEF Init, Region, Visible
  <1>2. sources = << >> /\ DOMAIN sources = {} /\ sources \in Seq([file : File, id : Nat])
    BY DEF Init
  <1>3. TypeOK
    BY <1>1, <1>2 DEF Init, TypeOK
  <1>4. WalkInv
    BY <1>1 DEF Init, WalkInv
  <1>5. FilesInv
    BY <1>2 DEF Init, FilesInv
  <1>6. ProjectsInv
    BY DEF Init, ProjectsInv, FilesBelong
  <1> QED
    BY <1>3, <1>4, <1>5, <1>6 DEF LoadInv
--------------------------------------------------------------------------
(* What a sequence holds is in the set it is over.                          *)
LEMMA ElementsOf ==
  ASSUME NEW S, NEW s \in Seq(S)
  PROVE  \A i \in DOMAIN s : s[i] \in S
  OBVIOUS

(* Every step keeps the load well typed.                                    *)
LEMMA TypeStep == TypeOK /\ [Next]_vars => TypeOK'
  <1> SUFFICES ASSUME TypeOK, [Next]_vars PROVE TypeOK'
    OBVIOUS
  <1> DEFINE Src == [file : File, id : Nat]
  <1>0. /\ \A d \in Directory : FilesOf(d) \subseteq File
        /\ \A d : Children(d) \subseteq Directory
        /\ << >> \in Seq(Src) /\ DOMAIN << >> = {}
    BY FilesAreFiles DEF TypeOK, Children
  <1>1. ASSUME NEW d \in Directory, Discover(d) PROVE TypeOK'
    BY <1>0, <1>1 DEF TypeOK, Discover, loading, workspace
  <1>2. ASSUME NEW d \in Directory, PassHarness(d) PROVE TypeOK'
    BY <1>2 DEF TypeOK, PassHarness, loading
  <1>3. ASSUME NEW d \in Directory, StartPackage(d) PROVE TypeOK'
    BY <1>0, <1>3 DEF TypeOK, StartPackage, workspace
  <1>4. ASSUME NEW d \in Directory, Collect(d) PROVE TypeOK'
    BY <1>0, <1>4 DEF TypeOK, Collect, loading, workspace
  <1>5. CASE ReadDirFails
    BY <1>5 DEF TypeOK, ReadDirFails, Return, loading, workspace
  <1>6. CASE EndDiscovery
    <2>1. Root \in Directory
      BY DirectoryAssumption DEF Root, Directory
    <2> QED
      BY <1>6, <2>1 DEF TypeOK, EndDiscovery, loading, workspace
  <1>7. CASE EndCollect
    BY <1>7 DEF TypeOK, EndCollect, NoSources, Return, loading, workspace
  <1>8. ASSUME NEW f \in paths, LoadFile(f) PROVE TypeOK'
    <2>1. f \in File /\ Len(sources) \in Nat /\ sources \in Seq(Src)
          /\ DOMAIN sources = 1..Len(sources)
      BY <1>8 DEF TypeOK
    <2>2. CASE Parses(f)
      <3> DEFINE x == [file |-> f, id |-> Len(sources)]
      <3>1. x \in Src /\ x.id = Len(sources)
        BY <2>1
      <3>2. sources' = Append(sources, x) /\ notes' = notes
        BY <1>8, <2>2 DEF LoadFile
      <3> HIDE DEF x
      <3>3. /\ sources' \in Seq(Src) /\ Len(sources') = Len(sources) + 1
            /\ DOMAIN sources' = DOMAIN sources \cup {Len(sources) + 1}
            /\ \A i \in DOMAIN sources : sources'[i] = sources[i]
            /\ sources'[Len(sources) + 1] = x
        BY <2>1, <3>1, <3>2, AppendParsed
      <3>4. \A i \in DOMAIN sources : sources[i].id < Len(sources) /\ sources[i].id \in Nat
        <4>1. \A i \in DOMAIN sources : sources[i] \in Src
          BY <2>1, ElementsOf
        <4> QED
          BY <4>1 DEF TypeOK
      <3>5. \A i \in DOMAIN sources' : sources'[i].id < Len(sources')
        BY <2>1, <3>1, <3>3, <3>4
      <3> QED
        BY <1>8, <3>2, <3>3, <3>5 DEF TypeOK, LoadFile, workspace
    <2>3. CASE ~Parses(f)
      BY <1>8, <2>1, <2>3 DEF TypeOK, LoadFile, workspace
    <2> QED
      BY <2>2, <2>3
  <1>9. CASE LoadNothing
    BY <1>9 DEF TypeOK, LoadNothing, NoSources, Return, loading, workspace
  <1>10. CASE KeepProject
    BY <1>10 DEF TypeOK, KeepProject, Return, loading
  <1>11. CASE SkipProject
    BY <1>11 DEF TypeOK, SkipProject, DependsOnSdk, loading
  <1>12. CASE Finish
    BY <1>12 DEF TypeOK, Finish, Return, loading, workspace
  <1>13. CASE UNCHANGED vars
    BY <1>13 DEF TypeOK, vars
  <1> QED
    BY <1>1, <1>2, <1>3, <1>4, <1>5, <1>6, <1>7, <1>8, <1>9, <1>10, <1>11, <1>12, <1>13 DEF Next

(* TypeOK: the load is well typed throughout, and it has an outcome exactly *)
(* when it has ended.                                                       *)
THEOREM TypeCorrect == Spec => []TypeOK
  <1>1. Init => TypeOK
    BY LoadInit DEF LoadInv
  <1> QED
    BY <1>1, TypeStep, PTL DEF Spec
--------------------------------------------------------------------------
(* Reading a directory of a package moves its files from those still to     *)
(* come to those found.                                                     *)
LEMMA CollectKeepsFiles ==
  ASSUME LoadInv, NEW d \in Directory, Collect(d)
  PROVE  /\ stack' \subseteq Region(package)
         /\ paths' \cup FilesIn({e \in Region(package) : \E x \in stack' : Within(x, e)})
              = Belonging(package)
  <1> DEFINE p == package
             later == {e \in Region(p) : \E x \in stack' : Within(x, e)}
  <1>1. /\ tree \in Trees /\ p \in Packages \cup {None}
        /\ stack \subseteq Region(p) /\ paths \cup FilesIn(Unread) = Belonging(p)
    BY DEF LoadInv, TypeOK, WalkInv, Collect
  <1>2. /\ d \in stack /\ d \in Region(p)
        /\ paths' = paths \cup FilesOf(d)
        /\ stack' = (stack \ {d}) \cup Eligible(d, p)
    BY <1>1 DEF Collect, Eligible
  <1> HIDE DEF p
  <1>3. /\ Eligible(d, p) \subseteq Region(p)
        /\ \A c \in Eligible(d, p) : \A e \in Directory : Within(c, e) => Within(d, e)
        /\ \A e \in Region(p) :
             Within(d, e) => e = d \/ \E c \in Eligible(d, p) : Within(c, e)
    BY <1>1, <1>2, RegionSplits
  <1>4. Region(p) \subseteq Directory
    BY DEF Region, Visible
  <1>5. Unread = {e \in Region(p) : \E x \in stack : Within(x, e)}
    BY DEF Unread, p
  <1>6. Unread = later \cup {d}
    <2>1. \A e \in Unread : e \in later \cup {d}
      BY <1>2, <1>3, <1>5
    <2>2. later \subseteq Unread
      BY <1>2, <1>3, <1>4, <1>5
    <2>3. d \in Unread
      BY <1>2, <1>5 DEF Within
    <2> QED
      BY <2>1, <2>2, <2>3
  <1> HIDE DEF later
  <1>7. FilesIn(Unread) = FilesIn(later) \cup FilesOf(d)
    BY <1>6 DEF FilesIn
  <1>8. paths' \cup FilesIn(later) = Belonging(p)
    BY <1>1, <1>2, <1>7
  <1>9. stack' \subseteq Region(p)
    BY <1>1, <1>2, <1>3
  <1> QED
    BY <1>8, <1>9 DEF p, later

(* Every step keeps account of the files that are still to come.            *)
LEMMA WalkStep == LoadInv /\ [Next]_vars => WalkInv'
  <1> SUFFICES ASSUME LoadInv, [Next]_vars PROVE WalkInv'
    OBVIOUS
  <1> USE DEF LoadInv
  <1>0. /\ tree \in Trees /\ tree' = tree
        /\ Packages' = Packages /\ Visible' = Visible
    <2>1. tree' = tree
      BY DEF Next, vars, Discover, PassHarness, StartPackage, Collect, ReadDirFails,
             EndDiscovery, EndCollect, LoadFile, LoadNothing, KeepProject, SkipProject, Finish
    <2> QED
      BY <2>1, DiskFixed DEF TypeOK
  <1>1. ASSUME NEW d \in Directory, Discover(d) PROVE WalkInv'
    <2>1. stack' \subseteq Visible
      <3>1. d \in Region(None)
        BY <1>1 DEF Discover, WalkInv, Region
      <3>2. Eligible(d, None) \subseteq Visible
        BY <1>0, <3>1, RegionSplits DEF Region
      <3> QED
        BY <1>1, <3>2 DEF Discover, WalkInv, Eligible
    <2>2. packages' \subseteq Packages
      BY <1>1 DEF Discover, WalkInv, Packages
    <2> QED
      BY <1>0, <1>1, <2>1, <2>2 DEF Discover, WalkInv, loading
  <1>2. ASSUME NEW d \in Directory, PassHarness(d) PROVE WalkInv'
    BY <1>0, <1>2 DEF PassHarness, WalkInv, loading
  <1>3. ASSUME NEW d \in Directory, StartPackage(d) PROVE WalkInv'
    <2>1. d \in Packages /\ d # None /\ d \in Region(d)
          /\ \A e \in Region(d) : Within(d, e)
      BY <1>0, <1>3, WalkStarts, DirectoryAssumption
      DEF StartPackage, First, WalkInv
    <2>2. /\ package' = d /\ stack' = {d} /\ paths' = {} /\ pc' = "collect"
          /\ sources' = << >> /\ notes' = {} /\ packages' \subseteq Packages
      BY <1>3 DEF StartPackage, WalkInv
    <2>3. /\ Region(d)' = Region(d) /\ Belonging(d)' = Belonging(d)
          /\ \A e : FilesOf(e)' = FilesOf(e)
      BY <1>0, DiskFixed
    <2>4. Unread' = Region(d)
      BY <2>1, <2>2, <1>0 DEF Unread, Region, Visible, Packages, IsPackageDir, Within
    <2>5. FilesIn(Unread)' = Belonging(d)
      BY <2>3, <2>4 DEF FilesIn, Belonging
    <2>6. Region(package)' = Region(d) /\ Belonging(package)' = Belonging(d)
      BY <2>2, <2>3
    <2> QED
      BY <1>0, <2>1, <2>2, <2>5, <2>6 DEF WalkInv
  <1>4. ASSUME NEW d \in Directory, Collect(d) PROVE WalkInv'
    <2>1. /\ package' = package /\ packages' = packages /\ pc' = "collect" /\ pc = "collect"
          /\ sources' = sources /\ notes' = notes
      BY <1>4 DEF Collect, loading
    <2>2. Unread' = {e \in Region(package) : \E x \in stack' : Within(x, e)}
      BY <1>0, <2>1 DEF Unread, Region, Visible, Packages, IsPackageDir, Within
    <2>3. FilesIn(Unread)'
            = FilesIn({e \in Region(package) : \E x \in stack' : Within(x, e)})
      BY <1>0, <2>2, DiskFixed DEF FilesIn
    <2>4. Region(package)' = Region(package) /\ Belonging(package)' = Belonging(package)
      BY <1>0, <2>1, DiskFixed
    <2>5. /\ stack' \subseteq Region(package)'
          /\ paths' \cup FilesIn(Unread)' = Belonging(package)'
      BY <1>4, <2>3, <2>4, CollectKeepsFiles
    <2> QED
      BY <1>0, <2>1, <2>5 DEF WalkInv
  <1>5. CASE ReadDirFails
    BY <1>0, <1>5 DEF ReadDirFails, Return, WalkInv, loading
  <1>6. CASE EndDiscovery
    <2>1. CASE packages = {}
      <3>1. /\ package = None /\ package' = None /\ paths' = {} /\ packages' = {}
            /\ stack' = {Root} /\ pc' = "collect" /\ sources' = << >> /\ notes' = {}
        BY <1>6, <2>1 DEF EndDiscovery, WalkInv, loading
      <3>2. Region(None) = Visible /\ Root \in Visible /\ \A e \in Visible : Within(Root, e)
        BY <1>0, WalkStarts DEF Region
      <3>3. Unread' = Visible
        BY <1>0, <3>1, <3>2 DEF Unread, Region, Within
      <3>4. FilesIn(Unread)' = Belonging(None)
        BY <1>0, <3>2, <3>3, DiskFixed DEF FilesIn, Belonging
      <3>5. Region(package)' = Visible /\ Belonging(package)' = Belonging(None)
        BY <1>0, <3>1, <3>2, DiskFixed
      <3> QED
        BY <1>0, <3>1, <3>2, <3>4, <3>5 DEF WalkInv
    <2>2. CASE packages # {}
      BY <1>0, <1>6, <2>2 DEF EndDiscovery, WalkInv, loading
    <2> QED
      BY <2>1, <2>2
  <1>7. CASE EndCollect
    BY <1>0, <1>7 DEF EndCollect, NoSources, Return, WalkInv, loading
  <1>8. ASSUME NEW f \in paths, LoadFile(f) PROVE WalkInv'
    BY <1>0, <1>8 DEF LoadFile, WalkInv
  <1>9. CASE LoadNothing
    BY <1>0, <1>9 DEF LoadNothing, NoSources, Return, WalkInv, loading
  <1>10. CASE KeepProject
    BY <1>0, <1>10 DEF KeepProject, Return, WalkInv, loading
  <1>11. CASE SkipProject
    BY <1>0, <1>11 DEF SkipProject, WalkInv, loading
  <1>12. CASE Finish
    BY <1>0, <1>12 DEF Finish, Return, WalkInv, loading
  <1>13. CASE UNCHANGED vars
    <2>1. Unread' = Unread /\ Region(package)' = Region(package)
          /\ Belonging(package)' = Belonging(package)
      BY <1>0, <1>13, DiskFixed DEF vars, Unread, Within
    <2>2. FilesIn(Unread)' = FilesIn(Unread)
      BY <1>0, <2>1, DiskFixed DEF FilesIn
    <2> QED
      BY <1>0, <1>13, <2>1, <2>2 DEF WalkInv, vars
  <1> QED
    BY <1>1, <1>2, <1>3, <1>4, <1>5, <1>6, <1>7, <1>8, <1>9, <1>10, <1>11, <1>12, <1>13 DEF Next

(* At the end of a walk every file of the package has been found.           *)
LEMMA AllFound ==
  ASSUME LoadInv, pc = "collect", stack = {}
  PROVE  paths = Belonging(package)
  <1>1. Unread = {}
    BY DEF Unread
  <1>2. FilesIn(Unread) = {}
    BY <1>1 DEF FilesIn
  <1> QED
    BY <1>2 DEF LoadInv, WalkInv

(* Every step keeps each file that was found in one place.                  *)
LEMMA FilesStep == LoadInv /\ [Next]_vars => FilesInv'
  <1> SUFFICES ASSUME LoadInv, [Next]_vars PROVE FilesInv'
    OBVIOUS
  <1> USE DEF LoadInv
  <1>1. ASSUME NEW d \in Directory, Discover(d) PROVE FilesInv'
    BY <1>1 DEF Discover, FilesInv, loading
  <1>2. ASSUME NEW d \in Directory, PassHarness(d) PROVE FilesInv'
    BY <1>2 DEF PassHarness, FilesInv, loading
  <1>3. ASSUME NEW d \in Directory, StartPackage(d) PROVE FilesInv'
    BY <1>3 DEF StartPackage, FilesInv
  <1>4. ASSUME NEW d \in Directory, Collect(d) PROVE FilesInv'
    BY <1>4 DEF Collect, FilesInv, loading
  <1>5. CASE ReadDirFails
    BY <1>5 DEF ReadDirFails, Return, FilesInv, loading
  <1>6. CASE EndDiscovery
    BY <1>6 DEF EndDiscovery, FilesInv, loading
  <1>7. CASE EndCollect
    <2>1. sources = << >> /\ notes = {} /\ sources' = sources /\ notes' = notes /\ paths' = paths
          /\ package' = package /\ tree' = tree /\ pc = "collect" /\ stack = {}
      BY <1>7 DEF EndCollect, WalkInv, loading
    <2>2. paths = Belonging(package)
      BY <2>1, AllFound
    <2>3. Belonging(package)' = Belonging(package)
      BY <2>1, DiskFixed
    <2>4. DOMAIN sources = {} /\ Parsed(sources) = {} /\ Parsed(sources)' = {}
      BY <2>1 DEF Parsed
    <2> QED
      BY <2>1, <2>2, <2>3, <2>4 DEF FilesInv
  <1>8. ASSUME NEW f \in paths, LoadFile(f) PROVE FilesInv'
    <2>1. /\ pc = "load" /\ pc' = "load" /\ f \in paths /\ paths' = paths \ {f}
          /\ tree' = tree /\ package' = package
      BY <1>8 DEF LoadFile
    <2>2. Belonging(package)' = Belonging(package)
      BY <2>1, DiskFixed
    <2>3. CASE Parses(f)
      <3> DEFINE x == [file |-> f, id |-> Len(sources)]
      <3>1. f \in File /\ Len(sources) \in Nat /\ DOMAIN sources = 1..Len(sources)
            /\ sources \in Seq([file : File, id : Nat])
        BY <2>1 DEF TypeOK
      <3>2. x \in [file : File, id : Nat] /\ x.file = f /\ x.id = Len(sources)
        BY <3>1
      <3>3. sources' = Append(sources, x) /\ notes' = notes
        BY <1>8, <2>3 DEF LoadFile
      <3> HIDE DEF x
      <3>4. /\ Parsed(sources') = Parsed(sources) \cup {f}
            /\ DOMAIN sources' = DOMAIN sources \cup {Len(sources) + 1}
            /\ \A i \in DOMAIN sources : sources'[i] = sources[i]
            /\ sources'[Len(sources) + 1] = x
        <4> DEFINE S == [file : File, id : Nat]
        <4>1. sources \in Seq(S) /\ x \in S
          BY <3>1, <3>2
        <4> HIDE DEF S
        <4> QED
          BY <4>1, <3>2, <3>3, AppendParsed
      <3>5. f \notin Parsed(sources) /\ f \notin notes
        BY <2>1 DEF FilesInv
      <3>6. \A i \in DOMAIN sources : sources[i].file # f
        BY <3>5 DEF Parsed
      <3>7. \A i \in DOMAIN sources' : sources'[i].id = i - 1
        BY <3>1, <3>2, <3>4 DEF FilesInv
      <3>8. \A i, j \in DOMAIN sources' : sources'[i].file = sources'[j].file => i = j
        BY <3>1, <3>2, <3>4, <3>6 DEF FilesInv
      <3>9. /\ Parsed(sources') \cup notes' \cup paths' = Belonging(package)'
            /\ Parsed(sources') \cap notes' = {} /\ Parsed(sources') \cap paths' = {}
            /\ notes' \cap paths' = {}
        BY <2>1, <2>2, <3>3, <3>4, <3>5 DEF FilesInv
      <3>10. Parsed(sources)' = Parsed(sources')
        BY DEF Parsed
      <3> QED
        BY <2>1, <3>7, <3>8, <3>9, <3>10 DEF FilesInv
    <2>4. CASE ~Parses(f)
      <3>1. sources' = sources /\ notes' = notes \cup {f}
        BY <1>8, <2>4 DEF LoadFile
      <3>2. Parsed(sources)' = Parsed(sources)
        BY <3>1 DEF Parsed
      <3> QED
        BY <2>1, <2>2, <3>1, <3>2 DEF FilesInv
    <2> QED
      BY <2>3, <2>4
  <1>9. CASE LoadNothing
    BY <1>9 DEF LoadNothing, NoSources, Return, FilesInv, loading
  <1>10. CASE KeepProject
    BY <1>10 DEF KeepProject, Return, FilesInv, loading
  <1>11. CASE SkipProject
    BY <1>11 DEF SkipProject, FilesInv, loading
  <1>12. CASE Finish
    BY <1>12 DEF Finish, Return, FilesInv, loading
  <1>13. CASE UNCHANGED vars
    <2>1. Belonging(package)' = Belonging(package) /\ Parsed(sources)' = Parsed(sources)
      BY <1>13, DiskFixed DEF vars, Parsed
    <2> QED
      BY <1>13, <2>1 DEF FilesInv, vars
  <1> QED
    BY <1>1, <1>2, <1>3, <1>4, <1>5, <1>6, <1>7, <1>8, <1>9, <1>10, <1>11, <1>12, <1>13 DEF Next

(* Every step keeps account of the files of each project kept.              *)
LEMMA ProjectsStep == LoadInv /\ [Next]_vars => ProjectsInv'
  <1> SUFFICES ASSUME LoadInv, [Next]_vars PROVE ProjectsInv'
    OBVIOUS
  <1> USE DEF LoadInv
  <1>1. CASE KeepProject
    <2> DEFINE P == [package |-> package, sources |-> sources, notes |-> notes,
                     manifestFails |-> ManifestFails]
    <2>1. /\ pc = "load" /\ paths = {} /\ tree' = tree /\ projects' = projects \cup {P}
          /\ P.package = package /\ P.sources = sources /\ P.notes = notes
      BY <1>1 DEF KeepProject
    <2> HIDE DEF P
    <2>2. \A p : Belonging(p)' = Belonging(p)
      BY <2>1, DiskFixed
    <2>3. /\ Parsed(P.sources) \cup P.notes = Belonging(P.package)
          /\ Parsed(P.sources) \cap P.notes = {}
          /\ \A i, j \in DOMAIN P.sources :
               P.sources[i].file = P.sources[j].file => i = j
      BY <2>1 DEF FilesInv
    <2>4. /\ P.sources \in Seq([file : File, id : Nat])
          /\ \A i \in DOMAIN P.sources : P.sources[i].id = i - 1
      BY <2>1 DEF FilesInv, TypeOK
    <2>5. FilesBelong'
      BY <2>1, <2>2, <2>3 DEF ProjectsInv, FilesBelong, Parsed
    <2> QED
      BY <2>1, <2>4, <2>5 DEF ProjectsInv, File
  <1>2. CASE tree' = tree /\ projects' = projects
    BY <1>2, ProjectsStay
  <1>3. KeepProject \/ (tree' = tree /\ projects' = projects)
    BY DEF Next, vars, workspace, Discover, PassHarness, StartPackage, Collect, ReadDirFails,
           EndDiscovery, EndCollect, LoadFile, LoadNothing, SkipProject, Finish
  <1> QED
    BY <1>1, <1>2, <1>3

(* The invariant the theorems below rest on: at each moment the files of    *)
(* the package being loaded are those parsed, those noted, those found and  *)
(* those in directories still to be read, and none is in two of the first   *)
(* three.                                                                   *)
THEOREM LoadInvariant == Spec => []LoadInv
  <1>1. LoadInv /\ [Next]_vars => LoadInv'
    BY TypeStep, WalkStep, FilesStep, ProjectsStep DEF LoadInv
  <1> QED
    BY LoadInit, <1>1, PTL DEF Spec

(* FilesBelong: no file is looked at by two projects or twice by one, and   *)
(* none of a project's package is left out.                                 *)
THEOREM EachFileBelongsOnce == Spec => []FilesBelong
  <1>1. LoadInv => FilesBelong
    BY DEF LoadInv, ProjectsInv
  <1> QED
    BY <1>1, LoadInvariant, PTL

(* IdsResolve: looking an id up by position finds the file it was given to. *)
THEOREM IdsAlwaysResolve == Spec => []IdsResolve
  <1>1. LoadInv => IdsResolve
    <2> SUFFICES ASSUME LoadInv, NEW P \in projects, NEW i \in DOMAIN P.sources
                 PROVE  P.sources[i].id + 1 = i
      BY DEF IdsResolve
    <2>1. P.sources[i].id = i - 1 /\ P.sources \in Seq([file : File, id : Nat])
      BY DEF LoadInv, ProjectsInv
    <2>2. i \in Nat
      BY <2>1
    <2> QED
      BY <2>1, <2>2
  <1> QED
    BY <1>1, LoadInvariant, PTL
--------------------------------------------------------------------------
(* Where the packages are while the load goes on.  In discovery each is     *)
(* found or lies at or below something on the stack.  Afterwards those that *)
(* have been dealt with - neither waiting nor being loaded - are where      *)
(* EveryPackagePlaced wants them in the end.                                *)
Loaded == {P.package : P \in projects}

Contracts == {p \in Deployable : tree.manifest[p] = "contract"}
Others == {p \in Deployable : tree.manifest[p] = "other"}
TestOnly == {p \in Packages : IsHarness(p)}

Walking == pc \in {"collect", "load"}

Pending == packages \cup (IF Walking THEN {package} ELSE {})

VerdictInv ==
  /\ \A f \in Parsed(sources) : Parses(f)
  /\ \A f \in notes : ~Parses(f)

FoundInv ==
  pc = "discover" =>
    /\ projects = {} /\ skipped = {} /\ harnesses = {}
    /\ \A p \in Packages : p \in packages \/ \E d \in stack : Within(d, p)

LoneInv ==
  Packages = {} =>
    /\ pc # "next"
    /\ outcome = "running" => projects = {}

PlacedInv ==
  (Packages # {} /\ pc \in {"next", "collect", "load"}) =>
    /\ Walking => package # None /\ package \notin packages /\ ~IsHarness(package)
    /\ Loaded = Contracts \ Pending
    /\ skipped = Others \ Pending
    /\ harnesses = TestOnly \ Pending

PlaceInv == VerdictInv /\ FoundInv /\ LoneInv /\ PlacedInv /\ EveryPackagePlaced

(* What is to become of a package is settled by the disk alone.             *)
LEMMA DiskDecides ==
  ASSUME tree' = tree
  PROVE  /\ Packages' = Packages /\ Deployable' = Deployable
         /\ Contracts' = Contracts /\ Others' = Others /\ TestOnly' = TestOnly
         /\ \A p : IsHarness(p)' = IsHarness(p)
         /\ \A f : Parses(f)' = Parses(f)
  <1>1. Packages' = Packages /\ \A p : Belonging(p)' = Belonging(p)
    BY DiskFixed
  <1>2. ASSUME NEW p PROVE IsHarness(p)' = IsHarness(p)
    BY DEF IsHarness
  <1>3. ASSUME NEW f PROVE Parses(f)' = Parses(f)
    BY DEF Parses
  <1>4. Deployable' = Deployable
    BY <1>1, <1>2, <1>3 DEF Deployable
  <1> QED
    BY <1>1, <1>2, <1>3, <1>4 DEF Contracts, Others, TestOnly

LEMMA DiskStays == [Next]_vars => tree' = tree
  BY DEF Next, vars, Discover, PassHarness, StartPackage, Collect, ReadDirFails,
         EndDiscovery, EndCollect, LoadFile, LoadNothing, KeepProject, SkipProject, Finish

(* No other package is wanted anywhere.                                     *)
LEMMA Fates ==
  Contracts \subseteq Packages /\ Others \subseteq Packages /\ TestOnly \subseteq Packages
  BY DEF Contracts, Others, TestOnly, Deployable

(* In the beginning nothing has been found and all lies below the root.     *)
LEMMA PlaceInit == Init => PlaceInv
  <1> SUFFICES ASSUME Init PROVE PlaceInv
    OBVIOUS
  <1>1. \A p \in Packages : Within(Root, p)
    BY WalkStarts DEF Init, Region, Packages
  <1>2. FoundInv
    BY <1>1 DEF Init, FoundInv
  <1>3. VerdictInv
    BY DEF Init, VerdictInv, Parsed
  <1> QED
    BY <1>2, <1>3 DEF Init, PlaceInv, LoneInv, PlacedInv, EveryPackagePlaced

(* Every step tells the files that parse from those that do not.            *)
LEMMA VerdictStep == LoadInv /\ VerdictInv /\ [Next]_vars => VerdictInv'
  <1> SUFFICES ASSUME LoadInv, VerdictInv, [Next]_vars PROVE VerdictInv'
    OBVIOUS
  <1>1. \A f : Parses(f)' = Parses(f)
    BY DiskStays, DiskDecides
  <1>2. CASE sources' = sources /\ notes' = notes
    <2>1. Parsed(sources)' = Parsed(sources)
      BY <1>2 DEF Parsed
    <2> QED
      BY <1>1, <1>2, <2>1 DEF VerdictInv
  <1>3. CASE sources' = << >> /\ notes' = {}
    <2>1. Parsed(sources)' = {}
      BY <1>3 DEF Parsed
    <2> QED
      BY <1>3, <2>1 DEF VerdictInv
  <1>4. ASSUME NEW f \in paths, LoadFile(f) PROVE VerdictInv'
    <2>1. CASE Parses(f)
      <3> DEFINE S == [file : File, id : Nat]
                 x == [file |-> f, id |-> Len(sources)]
      <3>1. f \in File /\ Len(sources) \in Nat /\ sources \in Seq(S)
        BY DEF LoadInv, TypeOK
      <3>2. x \in S /\ x.file = f
        BY <3>1
      <3>3. sources' = Append(sources, x) /\ notes' = notes
        BY <1>4, <2>1 DEF LoadFile
      <3> HIDE DEF S, x
      <3>4. Parsed(sources') = Parsed(sources) \cup {f}
        BY <3>1, <3>2, <3>3, AppendParsed
      <3>5. Parsed(sources)' = Parsed(sources')
        BY DEF Parsed
      <3> QED
        BY <1>1, <2>1, <3>3, <3>4, <3>5 DEF VerdictInv
    <2>2. CASE ~Parses(f)
      <3>1. sources' = sources /\ notes' = notes \cup {f}
        BY <1>4, <2>2 DEF LoadFile
      <3>2. Parsed(sources)' = Parsed(sources)
        BY <3>1 DEF Parsed
      <3> QED
        BY <1>1, <2>2, <3>1, <3>2 DEF VerdictInv
    <2> QED
      BY <2>1, <2>2
  <1>5. \/ sources' = sources /\ notes' = notes
        \/ sources' = << >> /\ notes' = {}
        \/ \E f \in paths : LoadFile(f)
    BY DEF Next, vars, loading, Discover, PassHarness, StartPackage, Collect, ReadDirFails,
           EndDiscovery, EndCollect, LoadNothing, KeepProject, SkipProject, Finish
  <1> QED
    BY <1>2, <1>3, <1>4, <1>5

(* Every step of discovery leaves no package behind.                        *)
LEMMA FoundStep == LoadInv /\ FoundInv /\ [Next]_vars => FoundInv'
  <1> SUFFICES ASSUME LoadInv, FoundInv, [Next]_vars, pc' = "discover" PROVE FoundInv'
    BY DEF FoundInv
  <1>1. tree \in Trees /\ tree' = tree /\ Packages' = Packages
    BY DiskStays, DiskFixed DEF LoadInv, TypeOK
  <1>2. pc = "discover"
    BY DEF Next, vars, Discover, PassHarness, StartPackage, Collect, ReadDirFails,
           EndDiscovery, EndCollect, LoadFile, LoadNothing, KeepProject, SkipProject, Finish,
           NoSources, Return
  <1>3. ASSUME NEW d \in Directory, Discover(d) PROVE FoundInv'
    <2>1. d \in stack /\ stack \subseteq Visible /\ Region(None) = Visible
      BY <1>2, <1>3 DEF Discover, LoadInv, WalkInv, Region
    <2>2. /\ stack' = (stack \ {d}) \cup Eligible(d, None)
          /\ packages' = packages \cup (IF IsPackageDir(d) THEN {d} ELSE {})
      BY <1>3 DEF Discover, Eligible
    <2>3. \A e \in Visible : Within(d, e) => e = d \/ \E c \in Eligible(d, None) : Within(c, e)
      BY <1>1, <2>1, RegionSplits
    <2>4. ASSUME NEW p \in Packages
          PROVE  p \in packages' \/ \E x \in stack' : Within(x, p)
      <3>1. p \in Visible /\ IsPackageDir(p)
        BY DEF Packages
      <3>2. p \in packages \/ \E x \in stack : Within(x, p)
        BY <1>2 DEF FoundInv
      <3> QED
        BY <2>2, <2>3, <3>1, <3>2
    <2>5. \A x, p : Within(x, p)' = Within(x, p)
      BY <1>1 DEF Within
    <2>6. \A p \in Packages' : p \in packages' \/ \E x \in stack' : Within(x, p)'
      BY <1>1, <2>4, <2>5
    <2> QED
      BY <1>2, <1>3, <2>6 DEF Discover, FoundInv, workspace
  <1>4. CASE UNCHANGED vars
    BY <1>1, <1>4 DEF FoundInv, vars, Within
  <1> QED
    BY <1>2, <1>3, <1>4 DEF Next, Discover, PassHarness, StartPackage, Collect, ReadDirFails,
           EndDiscovery, EndCollect, LoadFile, LoadNothing, KeepProject, SkipProject, Finish,
           NoSources, Return

(* When there is no package, the load goes from discovery to the root.      *)
LEMMA LoneStep == LoadInv /\ FoundInv /\ LoneInv /\ [Next]_vars => LoneInv'
  <1> SUFFICES ASSUME LoadInv, FoundInv, LoneInv, [Next]_vars, Packages = {} PROVE LoneInv'
    BY DiskStays, DiskDecides DEF LoneInv
  <1>1. packages = {} /\ package = None /\ pc # "next"
        /\ (outcome = "running" => projects = {})
    BY DEF LoadInv, WalkInv, LoneInv
  <1>2. pc = "done" <=> outcome # "running"
    BY DEF LoadInv, TypeOK
  <1>3. CASE UNCHANGED vars
    BY <1>1, <1>3 DEF LoneInv, vars
  <1>4. CASE KeepProject
    BY <1>1, <1>4 DEF KeepProject, Return, LoneInv
  <1>5. CASE SkipProject
    BY <1>1, <1>5 DEF SkipProject, DependsOnSdk
  <1>6. CASE EndCollect \/ LoadNothing
    BY <1>1, <1>2, <1>6 DEF EndCollect, LoadNothing, NoSources, Return, workspace, LoneInv
  <1>7. CASE EndDiscovery \/ ReadDirFails
    BY <1>1, <1>2, <1>7 DEF EndDiscovery, ReadDirFails, Return, workspace, LoneInv
  <1>8. ASSUME NEW d \in Directory, Discover(d) \/ Collect(d) PROVE LoneInv'
    BY <1>1, <1>2, <1>8 DEF Discover, Collect, workspace, LoneInv
  <1>9. ASSUME NEW f \in paths, LoadFile(f) PROVE LoneInv'
    BY <1>1, <1>2, <1>9 DEF LoadFile, workspace, LoneInv
  <1> QED
    BY <1>1, <1>3, <1>4, <1>5, <1>6, <1>7, <1>8, <1>9
    DEF Next, PassHarness, StartPackage, Finish

(* A package that is left out without a word has no file that parses.       *)
LEMMA NothingParses ==
  ASSUME LoadInv, VerdictInv, paths = {}, sources = << >>,
         pc = "load" \/ (pc = "collect" /\ stack = {})
  PROVE  \A f \in Belonging(package) : ~Parses(f)
  <1>1. Parsed(sources) = {}
    BY DEF Parsed
  <1>2. CASE pc = "load"
    BY <1>1, <1>2 DEF LoadInv, FilesInv, VerdictInv
  <1>3. CASE pc = "collect" /\ stack = {}
    BY <1>3, AllFound
  <1> QED
    BY <1>2, <1>3

(* A package that is kept or skipped has one.                               *)
LEMMA SomethingParses ==
  ASSUME LoadInv, VerdictInv, sources # << >>, pc = "load"
  PROVE  \E f \in Belonging(package) : Parses(f)
  <1>1. sources \in Seq([file : File, id : Nat])
    BY DEF LoadInv, TypeOK
  <1>2. 1 \in DOMAIN sources
    BY <1>1
  <1>3. sources[1].file \in Parsed(sources)
    BY <1>2 DEF Parsed
  <1> QED
    BY <1>3 DEF LoadInv, FilesInv, VerdictInv

(* Every step puts a package it is done with where it should go.            *)
LEMMA PlacedStep == LoadInv /\ PlaceInv /\ [Next]_vars => PlacedInv'
  <1> SUFFICES ASSUME LoadInv, PlaceInv, [Next]_vars, Packages # {},
                      pc' \in {"next", "collect", "load"}
               PROVE  PlacedInv'
    BY DiskStays, DiskDecides DEF PlacedInv
  <1>1. /\ Contracts' = Contracts /\ Others' = Others /\ TestOnly' = TestOnly
        /\ \A p : IsHarness(p)' = IsHarness(p)
    BY DiskStays, DiskDecides
  <1>2. packages \subseteq Packages /\ package \in Packages \cup {None}
    BY DEF LoadInv, WalkInv
  <1>3. pc \in {"next", "collect", "load"} =>
          /\ Walking => package # None /\ package \notin packages /\ ~IsHarness(package)
          /\ Loaded = Contracts \ Pending
          /\ skipped = Others \ Pending
          /\ harnesses = TestOnly \ Pending
    BY DEF PlaceInv, PlacedInv
  <1>4. /\ Walking => Pending = packages \cup {package}
        /\ ~Walking => Pending = packages
        /\ Walking' => Pending' = packages' \cup {package'}
        /\ ~Walking' => Pending' = packages'
    BY DEF Pending
  <1> DEFINE Goal ==
        /\ Walking' => package' # None /\ package' \notin packages' /\ ~IsHarness(package')
        /\ Loaded' = Contracts \ Pending'
        /\ skipped' = Others \ Pending'
        /\ harnesses' = TestOnly \ Pending'
  <1>5. SUFFICES Goal
    BY <1>1 DEF PlacedInv
  <1>6. CASE /\ pc \in {"next", "collect", "load"} /\ (Walking <=> Walking')
             /\ package' = package /\ packages' = packages
             /\ projects' = projects /\ skipped' = skipped /\ harnesses' = harnesses
    <2>1. Loaded' = Loaded
      BY <1>6 DEF Loaded
    <2>2. Pending' = Pending
      BY <1>4, <1>6
    <2> QED
      BY <1>3, <1>6, <2>1, <2>2
  <1>7. CASE EndDiscovery
    <2>1. pc = "discover" /\ stack = {} /\ projects = {} /\ skipped = {} /\ harnesses = {}
          /\ \A p \in Packages : p \in packages
      BY <1>7 DEF EndDiscovery, PlaceInv, FoundInv
    <2>2. packages = Packages
      BY <1>2, <2>1
    <2>3. pc' = "next" /\ packages' = Packages
          /\ projects' = {} /\ skipped' = {} /\ harnesses' = {}
      BY <1>7, <2>1, <2>2 DEF EndDiscovery, workspace
    <2>4. ~Walking' /\ Loaded' = {} /\ Pending' = Packages
      BY <1>4, <2>3 DEF Walking, Loaded
    <2> QED
      BY <2>3, <2>4, Fates
  <1>8. ASSUME NEW p \in Directory, PassHarness(p) PROVE Goal
    <2>1. /\ pc = "next" /\ pc' = "next" /\ p \in packages /\ IsHarness(p) /\ p \in Packages
          /\ harnesses' = harnesses \cup {p} /\ packages' = packages \ {p}
          /\ skipped' = skipped /\ projects' = projects
      BY <1>2, <1>8 DEF PassHarness, First
    <2>2. ~Walking /\ ~Walking' /\ Loaded' = Loaded
      BY <2>1 DEF Walking, Loaded
    <2>3. Pending = packages /\ Pending' = packages \ {p}
      BY <1>4, <2>1, <2>2
    <2>4. p \in TestOnly /\ p \notin Contracts /\ p \notin Others
      BY <2>1 DEF TestOnly, Contracts, Others, Deployable
    <2> QED
      BY <1>3, <2>1, <2>2, <2>3, <2>4
  <1>9. ASSUME NEW p \in Directory, StartPackage(p) PROVE Goal
    <2>1. /\ pc = "next" /\ pc' = "collect" /\ p \in packages /\ ~IsHarness(p)
          /\ packages' = packages \ {p} /\ package' = p
          /\ skipped' = skipped /\ projects' = projects /\ harnesses' = harnesses
      BY <1>9 DEF StartPackage, First, workspace
    <2>2. ~Walking /\ Walking' /\ Loaded' = Loaded
      BY <2>1 DEF Walking, Loaded
    <2>3. Pending' = Pending
      BY <1>4, <2>1, <2>2
    <2>4. p # None
      BY DirectoryAssumption
    <2> QED
      BY <1>3, <2>1, <2>2, <2>3, <2>4
  <1>10. CASE EndCollect \/ LoadNothing
    <2>1. /\ Walking /\ pc \in {"collect", "load"} /\ package' = package /\ packages' = packages
          /\ projects' = projects /\ skipped' = skipped /\ harnesses' = harnesses
      BY <1>10 DEF EndCollect, LoadNothing, Walking, loading, workspace
    <2>2. package # None /\ package \in Packages /\ ~IsHarness(package) /\ package \notin packages
      BY <1>2, <1>3, <2>1
    <2>3. CASE pc' = "load"
      BY <1>6, <2>1, <2>3 DEF Walking
    <2>4. CASE pc' # "load"
      <3>1. /\ pc' = "next" /\ paths = {} /\ sources = << >>
            /\ pc = "load" \/ (pc = "collect" /\ stack = {})
        BY <1>10, <2>2, <2>4 DEF EndCollect, LoadNothing, NoSources
      <3>2. \A f \in Belonging(package) : ~Parses(f)
        BY <3>1, NothingParses DEF PlaceInv
      <3>3. package \notin Contracts /\ package \notin Others /\ package \notin TestOnly
        BY <2>2, <3>2 DEF Contracts, Others, TestOnly, Deployable
      <3>4. ~Walking' /\ Loaded' = Loaded
        BY <2>1, <3>1 DEF Walking, Loaded
      <3>5. Pending = packages \cup {package} /\ Pending' = packages
        BY <1>4, <2>1, <3>4
      <3> QED
        BY <1>3, <2>1, <3>3, <3>4, <3>5
    <2> QED
      BY <2>3, <2>4
  <1>11. CASE KeepProject \/ SkipProject
    <2>1. /\ Walking /\ pc = "load" /\ sources # << >> /\ package' = package
          /\ packages' = packages /\ harnesses' = harnesses
      BY <1>11 DEF KeepProject, SkipProject, Walking, loading
    <2>2. package # None /\ package \in Packages /\ ~IsHarness(package) /\ package \notin packages
      BY <1>2, <1>3, <2>1
    <2>3. package \in Deployable /\ package \notin TestOnly /\ package \in Directory
      BY <2>1, <2>2, SomethingParses
      DEF PlaceInv, Deployable, TestOnly, Packages, Visible
    <2>4. pc' = "next" /\ ~Walking'
      BY <1>11, <2>2 DEF KeepProject, SkipProject, Walking
    <2>5. Pending = packages \cup {package} /\ Pending' = packages
      BY <1>4, <2>1, <2>4
    <2>6. tree.manifest[package] = "contract" \/ tree.manifest[package] = "other"
      BY <2>3 DEF Deployable, Packages, IsPackageDir
    <2>7. CASE KeepProject
      <3>1. package \in Contracts /\ package \notin Others
        BY <2>2, <2>3, <2>7 DEF KeepProject, DependsOnSdk, Contracts, Others
      <3>2. PICK P : P.package = package /\ projects' = projects \cup {P}
        BY <2>7 DEF KeepProject
      <3>3. Loaded' = Loaded \cup {package}
        BY <3>2 DEF Loaded
      <3>4. skipped' = skipped
        BY <2>7 DEF KeepProject
      <3> QED
        BY <1>3, <2>1, <2>2, <2>3, <2>4, <2>5, <3>1, <3>3, <3>4
    <2>8. CASE SkipProject
      <3>1. package \in Others /\ package \notin Contracts
        BY <2>2, <2>3, <2>6, <2>8 DEF SkipProject, DependsOnSdk, Contracts, Others
      <3>2. Loaded' = Loaded /\ skipped' = skipped \cup {package}
        BY <2>8 DEF SkipProject, Loaded
      <3> QED
        BY <1>3, <2>1, <2>2, <2>3, <2>4, <2>5, <3>1, <3>2
    <2> QED
      BY <1>11, <2>7, <2>8
  <1>12. ASSUME NEW d \in Directory, Collect(d) PROVE Goal
    BY <1>6, <1>12 DEF Collect, Walking, loading, workspace
  <1>13. ASSUME NEW f \in paths, LoadFile(f) PROVE Goal
    BY <1>6, <1>13 DEF LoadFile, Walking, workspace
  <1>14. CASE UNCHANGED vars
    BY <1>6, <1>14 DEF vars, Walking
  <1>15. ASSUME NEW d \in Directory, Discover(d) PROVE FALSE
    BY <1>15 DEF Discover
  <1>16. ~ReadDirFails /\ ~Finish
    BY DEF ReadDirFails, Finish, Return
  <1> QED
    BY <1>7, <1>8, <1>9, <1>10, <1>11, <1>12, <1>13, <1>14, <1>15, <1>16 DEF Next

(* A load that ends has put every package where it should go.               *)
LEMMA EndStep == LoadInv /\ PlaceInv /\ [Next]_vars => EveryPackagePlaced'
  <1> SUFFICES ASSUME LoadInv, PlaceInv, [Next]_vars, outcome' \in {"ok", "NoContracts"}
               PROVE  EveryPackagePlaced'
    BY DEF EveryPackagePlaced
  <1>1. /\ Packages' = Packages /\ Deployable' = Deployable /\ Contracts' = Contracts
        /\ Others' = Others /\ TestOnly' = TestOnly
        /\ \A p : Belonging(p)' = Belonging(p)
        /\ \A f : Parses(f)' = Parses(f)
    BY DiskStays, DiskDecides, DiskFixed
  <1>2. /\ EveryPackagePlaced' <=>
             IF Packages = {}
               THEN Loaded' = {None} <=> \E f \in Belonging(None) : Parses(f)
               ELSE /\ Loaded' = Contracts /\ skipped' = Others /\ harnesses' = TestOnly
                    /\ outcome' = "ok" <=> projects' # {}
    <2>1. {p \in Deployable : tree.manifest[p] = "contract"}' = Contracts'
          /\ {p \in Deployable : tree.manifest[p] = "other"}' = Others'
          /\ {p \in Packages : IsHarness(p)}' = TestOnly'
          /\ {P.package : P \in projects}' = Loaded'
      BY DEF Contracts, Others, TestOnly, Loaded
    <2>2. (\E f \in Belonging(None) : Parses(f))' <=> \E f \in Belonging(None) : Parses(f)
      BY <1>1
    <2> QED
      BY <1>1, <2>1, <2>2 DEF EveryPackagePlaced
  <1>3. /\ package \in Packages \cup {None}
        /\ pc \in {"collect", "load"} /\ Packages # {} => package # None
    BY DEF LoadInv, WalkInv, PlaceInv, PlacedInv, Walking
  <1>4. pc \in {"collect", "load"} /\ Packages = {} => projects = {}
    BY DEF PlaceInv, LoneInv, LoadInv, TypeOK
  <1>5. CASE EndCollect \/ LoadNothing
    <2>1. /\ pc \in {"collect", "load"} /\ package = None /\ paths = {} /\ sources = << >>
          /\ pc = "load" \/ (pc = "collect" /\ stack = {})
          /\ projects' = projects
      BY <1>5 DEF EndCollect, LoadNothing, NoSources, workspace, LoadInv, TypeOK
    <2>2. \A f \in Belonging(None) : ~Parses(f)
      BY <2>1, NothingParses DEF PlaceInv
    <2>3. Packages = {} /\ Loaded' = {}
      BY <1>3, <1>4, <2>1 DEF Loaded
    <2> QED
      BY <1>2, <2>2, <2>3
  <1>6. CASE KeepProject
    <2>1. pc = "load" /\ sources # << >> /\ package = None
      BY <1>6 DEF KeepProject, LoadInv, TypeOK
    <2>2. \E f \in Belonging(None) : Parses(f)
      BY <2>1, SomethingParses DEF PlaceInv
    <2>3. Packages = {} /\ projects = {}
      BY <1>3, <1>4, <2>1
    <2>4. Loaded' = {None}
      BY <1>6, <2>1, <2>3 DEF KeepProject, Loaded
    <2> QED
      BY <1>2, <2>2, <2>3, <2>4
  <1>7. CASE Finish
    <2>1. /\ pc = "next" /\ packages = {}
          /\ outcome' = "ok" <=> projects # {}
          /\ projects' = projects /\ skipped' = skipped /\ harnesses' = harnesses
      BY <1>7 DEF Finish, Return, workspace
    <2>2. Packages # {}
      BY <2>1 DEF PlaceInv, LoneInv
    <2>3. Pending = {} /\ Loaded' = Loaded
      BY <2>1 DEF Pending, Walking, Loaded
    <2>4. Loaded = Contracts /\ skipped = Others /\ harnesses = TestOnly
      BY <2>1, <2>2, <2>3 DEF PlaceInv, PlacedInv
    <2> QED
      BY <1>2, <2>1, <2>2, <2>3, <2>4
  <1>8. CASE outcome' = outcome
    <2>1. projects' = projects /\ skipped' = skipped /\ harnesses' = harnesses
      <3>1. pc = "done"
        BY <1>8 DEF LoadInv, TypeOK
      <3> QED
        BY <3>1 DEF Next, vars, workspace, Discover, PassHarness, StartPackage, Collect,
           ReadDirFails, EndDiscovery, EndCollect, LoadFile, LoadNothing, KeepProject,
           SkipProject, Finish
    <2>2. tree' = tree
      BY DiskStays
    <2>3. EveryPackagePlaced
      BY DEF PlaceInv
    <2> QED
      BY <1>1, <1>8, <2>1, <2>2, <2>3, DiskDecides DEF EveryPackagePlaced
  <1> QED
    BY <1>5, <1>6, <1>7, <1>8
    DEF Next, vars, Discover, PassHarness, StartPackage, Collect, ReadDirFails, Return,
        EndDiscovery, LoadFile, SkipProject

(* EveryPackagePlaced: when a load ends without a failure to read, each     *)
(* contract package with a file that parses is a project, each other one is *)
(* named as skipped and each test-only one as a harness, and there is no    *)
(* fourth kind but those with nothing that parses.                          *)
THEOREM EveryPackageIsPlaced == Spec => []EveryPackagePlaced
  <1>1. Init => LoadInv /\ PlaceInv
    BY LoadInit, PlaceInit
  <1>2. LoadInv /\ PlaceInv /\ [Next]_vars => (LoadInv /\ PlaceInv)'
    <2>1. LoadInv /\ [Next]_vars => LoadInv'
      BY TypeStep, WalkStep, FilesStep, ProjectsStep DEF LoadInv
    <2> QED
      BY <2>1, VerdictStep, FoundStep, LoneStep, PlacedStep, EndStep DEF PlaceInv
  <1>3. LoadInv /\ PlaceInv => EveryPackagePlaced
    BY DEF PlaceInv
  <1> QED
    BY <1>1, <1>2, <1>3, PTL DEF Spec
==========================================================================
