--------------------------- MODULE WorkspaceLoad ---------------------------
(***************************************************************************)
(* Loading a directory of Cargo packages: Project::from_workspace with     *)
(* discover_packages, collect_rust_files and Project::load (src/crates/    *)
(* soroban-security-sdk/src/analysis.rs), and from_dir, which it falls back *)
(* to when there is no package.  What it leaves is the input of            *)
(* AnalysisRun.                                                            *)
(*                                                                         *)
(* A tree is a record                                                      *)
(*   above     the directories a directory lies in                         *)
(*   hidden    named target or with a leading dot                          *)
(*   harness   named fuzz, tests or benches                                *)
(*   manifest  what Cargo.toml is: "none", "contract" and "other" declare a *)
(*             package that does or does not depend on soroban-sdk, and    *)
(*             "broken" is not TOML                                        *)
(*   files     the .rs files, each "ok" or "broken" (unreadable, or no Rust) *)
(* Directories are numbered in the order of their paths.                   *)
(***************************************************************************)
EXTENDS Integers, SequencesExt

CONSTANTS
  NDirectories,   \* the directories are 1..NDirectories, the root is 1
  Trees,          \* the trees considered
  None

Directory == 1..NDirectories
Root == 1

ASSUME DirectoryAssumption == NDirectories \in Nat \ {0} /\ None \notin Directory

(* What makes it a tree: everything lies below the root, the directories    *)
(* above one form a chain, and nothing lies below itself.                   *)
ASSUME TreesAssumption ==
  \A t \in Trees :
    /\ t \in [above : [Directory -> SUBSET Directory],
             hidden : SUBSET Directory, harness : SUBSET Directory,
             manifest : [Directory -> {"none", "contract", "other", "broken"}],
             files : [Directory -> Seq({"ok", "broken"})]]
    /\ t.above[Root] = {}
    /\ \A d \in Directory \ {Root} : Root \in t.above[d]
    /\ \A d \in Directory : \A a \in t.above[d] :
         /\ a # d /\ t.above[a] \subseteq t.above[d] /\ d \notin t.above[a]
         /\ \E c \in Directory :
              /\ t.above[c] = t.above[a] \cup {a}
              /\ c = d \/ c \in t.above[d]

VARIABLES
  tree,           \* what is on disk
  pc,             \* where the loader stands
  stack,          \* directories still to be read
  packages,       \* packages found and not yet looked at
  package,        \* the package being loaded, None for from_dir
  paths,          \* its files that are still to be parsed
  sources,        \* those that parsed, in the order of their ids
  notes,          \* those that did not
  projects,       \* the projects loaded
  skipped, harnesses,
  outcome         \* "running", then "ok", "NoContracts" or "Io"

vars == <<tree, pc, stack, packages, package, paths, sources, notes, projects,
          skipped, harnesses, outcome>>
loading == <<package, sources, notes>>
workspace == <<projects, skipped, harnesses>>

IsPackageDir(d) == tree.manifest[d] \in {"contract", "other"}

Children(d) ==
  {c \in Directory \ tree.hidden : tree.above[c] = tree.above[d] \cup {d}}

FilesOf(d) == {<<d, k>> : k \in DOMAIN tree.files[d]}

(* The root's own name is not looked at.                                    *)
IsHarness(p) == ((tree.above[p] \cup {p}) \ {Root}) \cap tree.harness # {}

Init ==
  /\ tree \in Trees
  /\ pc = "discover" /\ stack = {Root} /\ packages = {}
  /\ package = None /\ paths = {} /\ sources = << >> /\ notes = {}
  /\ projects = {} /\ skipped = {} /\ harnesses = {}
  /\ outcome = "running"

Return(result) == pc' = "done" /\ outcome' = result

--------------------------------------------------------------------------
(* discover_packages: directories are taken in any order, as read_dir gives *)
(* them, and the packages are sorted afterwards.                            *)
Discover(d) ==
  /\ pc = "discover" /\ d \in stack
  /\ packages' = packages \cup (IF IsPackageDir(d) THEN {d} ELSE {})
  /\ stack' = (stack \ {d}) \cup Children(d)
  /\ UNCHANGED <<tree, pc, paths, loading, workspace, outcome>>

(* A directory that cannot be read ends the load, here and in Collect.      *)
ReadDirFails ==
  /\ pc \in {"discover", "collect"} /\ stack # {}
  /\ Return("Io")
  /\ UNCHANGED <<tree, stack, packages, paths, loading, workspace>>

EndDiscovery ==
  /\ pc = "discover" /\ stack = {}
  /\ IF packages = {} THEN pc' = "collect" /\ stack' = {Root}
                      ELSE pc' = "next" /\ UNCHANGED stack
  /\ UNCHANGED <<tree, packages, paths, loading, workspace, outcome>>

First(p) == p \in packages /\ \A q \in packages : p <= q

PassHarness(p) ==
  /\ pc = "next" /\ First(p) /\ IsHarness(p)
  /\ harnesses' = harnesses \cup {p}
  /\ packages' = packages \ {p}
  /\ UNCHANGED <<tree, pc, stack, paths, loading, projects, skipped, outcome>>

StartPackage(p) ==
  /\ pc = "next" /\ First(p) /\ ~IsHarness(p)
  /\ package' = p /\ packages' = packages \ {p}
  /\ stack' = {p} /\ paths' = {} /\ sources' = << >> /\ notes' = {}
  /\ pc' = "collect"
  /\ UNCHANGED <<tree, workspace, outcome>>

(* Mutant of Collect: packages inside the package are read as part of it.   *)
CollectNested(d) ==
  /\ pc = "collect" /\ d \in stack
  /\ paths' = paths \cup FilesOf(d)
  /\ stack' = (stack \ {d}) \cup Children(d)
  /\ UNCHANGED <<tree, pc, packages, loading, workspace, outcome>>

(* collect_rust_files, stopping at packages unless from_dir asks.           *)
Collect(d) ==
  /\ pc = "collect" /\ d \in stack
  /\ paths' = paths \cup FilesOf(d)
  /\ stack' = (stack \ {d})
       \cup {c \in Children(d) : package # None => ~IsPackageDir(c)}
  /\ UNCHANGED <<tree, pc, packages, loading, workspace, outcome>>

(* A package without sources is left out; from_dir has nothing else.        *)
NoSources ==
  /\ sources = << >>
  /\ IF package = None THEN Return("NoContracts")
                       ELSE pc' = "next" /\ UNCHANGED outcome

EndCollect ==
  /\ pc = "collect" /\ stack = {}
  /\ IF paths = {} THEN NoSources ELSE pc' = "load" /\ UNCHANGED outcome
  /\ UNCHANGED <<tree, stack, packages, paths, loading, workspace>>

Parses(f) == tree.files[f[1]][f[2]] = "ok"

(* Mutant of LoadFile: a file that does not parse uses up an id.            *)
LoadFileCounting(f) ==
  /\ pc = "load" /\ f \in paths
  /\ paths' = paths \ {f}
  /\ IF Parses(f)
       THEN /\ sources' = Append(sources, [file |-> f, id |-> Len(sources) + Cardinality(notes)])
            /\ UNCHANGED notes
       ELSE notes' = notes \cup {f} /\ UNCHANGED sources
  /\ UNCHANGED <<tree, pc, stack, packages, package, workspace, outcome>>

(* The paths are sorted by name; names are left out, so any order may be it. *)
LoadFile(f) ==
  /\ pc = "load" /\ f \in paths
  /\ paths' = paths \ {f}
  /\ IF Parses(f)
       THEN sources' = Append(sources, [file |-> f, id |-> Len(sources)]) /\ UNCHANGED notes
       ELSE notes' = notes \cup {f} /\ UNCHANGED sources
  /\ UNCHANGED <<tree, pc, stack, packages, package, workspace, outcome>>

(* Mutant of LoadNothing: the loop is left where it should go on.           *)
LoadNothingBreaks ==
  /\ pc = "load" /\ paths = {} /\ sources = << >>
  /\ NoSources
  /\ packages' = {}
  /\ UNCHANGED <<tree, stack, paths, loading, workspace>>

(* Err(NoContracts): the package is dropped, and its notes with it.         *)
LoadNothing ==
  /\ pc = "load" /\ paths = {} /\ sources = << >>
  /\ NoSources
  /\ UNCHANGED <<tree, stack, packages, paths, loading, workspace>>

DependsOnSdk == package \in {p \in Directory : tree.manifest[p] = "contract"} \cup {None}

(* A package has a manifest that parses, or it would not have been found.   *)
ManifestFails == package = None /\ tree.manifest[Root] = "broken"

KeepProject ==
  /\ pc = "load" /\ paths = {} /\ sources # << >>
  /\ DependsOnSdk
  /\ projects' = projects \cup {[package |-> package, sources |-> sources, notes |-> notes,
                                 manifestFails |-> ManifestFails]}
  /\ IF package = None THEN Return("ok") ELSE pc' = "next" /\ UNCHANGED outcome
  /\ UNCHANGED <<tree, stack, packages, paths, loading, skipped, harnesses>>

SkipProject ==
  /\ pc = "load" /\ paths = {} /\ sources # << >>
  /\ ~DependsOnSdk
  /\ skipped' = skipped \cup {package}
  /\ pc' = "next"
  /\ UNCHANGED <<tree, stack, packages, paths, loading, projects, harnesses, outcome>>

Finish ==
  /\ pc = "next" /\ packages = {}
  /\ Return(IF projects = {} THEN "NoContracts" ELSE "ok")
  /\ UNCHANGED <<tree, stack, packages, paths, loading, workspace>>

Next ==
  \/ \E d \in Directory : Discover(d) \/ PassHarness(d) \/ StartPackage(d) \/ Collect(d)
  \/ ReadDirFails \/ EndDiscovery \/ EndCollect
  \/ \E f \in paths : LoadFile(f)
  \/ LoadNothing \/ KeepProject \/ SkipProject
  \/ Finish

Spec == Init /\ [][Next]_vars

--------------------------------------------------------------------------
File == Directory \X (Nat \ {0})

TypeOK ==
  /\ tree \in Trees
  /\ pc \in {"discover", "next", "collect", "load", "done"}
  /\ stack \in SUBSET Directory /\ packages \in SUBSET Directory
  /\ package \in Directory \cup {None}
  /\ paths \subseteq File /\ notes \subseteq File
  /\ sources \in Seq([file : File, id : Nat])
  /\ \A i \in DOMAIN sources : sources[i].id < Len(sources)
  /\ skipped \in SUBSET Directory /\ harnesses \in SUBSET Directory
  /\ outcome \in {"running", "ok", "NoContracts", "Io"}
  /\ pc = "done" <=> outcome # "running"

(* The directories a walk from the root gets to.                            *)
Visible ==
  {d \in Directory : (tree.above[d] \cup {d}) \cap (tree.hidden \ {Root}) = {}}
Packages == {d \in Visible : IsPackageDir(d)}

Within(p, d) == p = d \/ p \in tree.above[d]

(* The directories of a package: those below it and below no package inside *)
(* it; those of from_dir are all.                                           *)
Region(p) ==
  IF p = None THEN Visible
  ELSE {d \in Visible : Within(p, d) /\ \A q \in Packages : Within(q, d) => Within(q, p)}

Belonging(p) == UNION {FilesOf(d) : d \in Region(p)}

Parsed(ss) == {ss[i].file : i \in DOMAIN ss}

(* "nested packages are not double-counted": each file is looked at by the  *)
(* project of the innermost package around it and by no other, and it is    *)
(* there as a source or as a note that it did not parse, never both.        *)
FilesBelong ==
  \A P \in projects :
    /\ Parsed(P.sources) \cup P.notes = Belonging(P.package)
    /\ Parsed(P.sources) \cap P.notes = {}
    /\ \A i, j \in DOMAIN P.sources : P.sources[i].file = P.sources[j].file => i = j

(* SourceMap::get looks an id up by position: it finds the file that was    *)
(* parsed under that id, whatever failed to parse before it.                *)
IdsResolve ==
  \A P \in projects : \A i \in DOMAIN P.sources :
    LET position == P.sources[i].id + 1
    IN  position \in DOMAIN P.sources /\ P.sources[position] = P.sources[i]

(* Whatever broken, empty, foreign or test-only package comes first, each   *)
(* package is a project exactly when it should be, and is named otherwise - *)
(* except for one whose files do not parse, which is dropped without a word. *)
Deployable == {p \in Packages : ~IsHarness(p) /\ \E f \in Belonging(p) : Parses(f)}

EveryPackagePlaced ==
  outcome \in {"ok", "NoContracts"} =>
    IF Packages = {}
      THEN {P.package : P \in projects} = {None} <=> \E f \in Belonging(None) : Parses(f)
      ELSE /\ {P.package : P \in projects} = {p \in Deployable : tree.manifest[p] = "contract"}
           /\ skipped = {p \in Deployable : tree.manifest[p] = "other"}
           /\ harnesses = {p \in Packages : IsHarness(p)}
           /\ outcome = "ok" <=> projects # {}
==========================================================================
