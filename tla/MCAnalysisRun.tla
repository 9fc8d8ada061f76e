--------------------------- MODULE MCAnalysisRun ---------------------------
(* Two packages and three rules: a source rule, a rule that needs a module, *)
(* and an opt-in rule.  Two findings of the source rule differ only in what *)
(* a fingerprint ignores, so that accepting one accepts the other.          *)
EXTENDS AnalysisRun, TLC

CONSTANTS aFile, bFile, noFile

MCRule == {1, 2, 3}

MCMeta ==
  (1 :> [severity |-> 3, category |-> "auth", onByDefault |-> TRUE, wasmOnly |-> FALSE])
  @@ (2 :> [severity |-> 3, category |-> "budget", onByDefault |-> TRUE, wasmOnly |-> TRUE])
  @@ (3 :> [severity |-> 1, category |-> "auth", onByDefault |-> FALSE, wasmOnly |-> FALSE])

F(rule, file, line, own, nth) ==
  [rule |-> rule, file |-> file, line |-> line, fn |-> "f", own |-> own, nth |-> nth]

Sure(file)      == F(1, file, 3, 3, 1)
Estimated(file) == F(1, file, 3, 2, 2)
Unplaced(file)  == F(1, file, 0, 3, 1)
InModule        == F(2, noFile, 0, 3, 1)
OptIn(file)     == F(3, file, 7, 1, 1)

Sup(file, lo, hi, rules, fileWide, comment) ==
  [file |-> file, lo |-> lo, hi |-> hi, rules |-> rules, fileWide |-> fileWide,
   comment |-> comment]

SupsOf(file) ==
  {{}, {Sup(file, 2, 4, {1}, FALSE, 1)}, {Sup(file, 6, 9, {}, FALSE, 5)},
   {Sup(file, 2, 4, {1}, FALSE, 1), Sup(file, 1, 99, {3}, TRUE, 8)}}

Contents(file, loadNotes, founds, supss, wasms) ==
  {[name |-> file,
    loadNotes |-> loadNotes,
    found |-> (1 :> fs[1]) @@ (2 :> {InModule}) @@ (3 :> fs[2]),
    sups |-> ss, wasmAttached |-> w[1], wasmLoads |-> w[2]]
      : fs \in founds, ss \in supss, w \in wasms}

MCWorkspaces ==
  Contents(aFile, {[kind |-> "ParseFailure", of |-> aFile]},
           {<<{Sure(aFile), Estimated(aFile)}, {OptIn(aFile)}>>,
            <<{Unplaced(aFile)}, {}>>, <<{}, {OptIn(aFile)}>>},
           SupsOf(aFile), {<<FALSE, FALSE>>, <<FALSE, TRUE>>, <<TRUE, FALSE>>})
  \X Contents(bFile, {}, {<<{Sure(bFile)}, {}>>},
              {{}, {Sup(bFile, 1, 9, {}, TRUE, 1)}}, {<<FALSE, FALSE>>})

MCConfigs ==
  [enabled : {{}, {1, 9}, {2, 3}, {1, 2, 3}}, disabled : {{}, {1}},
   categories : {{}, {"auth"}}, severity : {<< >>, 1 :> 4},
   baseline : {{}, {Fingerprint(Sure(aFile))}}, reportSuppressed : BOOLEAN,
   wasmPath : BOOLEAN]

MCWorkspaceNotes == {[kind |-> "Manifest", of |-> "skipped"]}
==========================================================================
