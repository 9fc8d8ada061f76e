-------------------------- MODULE MCWorkspaceLoad --------------------------
(* Four directories, three of them in a row below the root or one beside    *)
(* the others, with any packages among them and up to two files in each.    *)
EXTENDS WorkspaceLoad

CONSTANT none

Shapes == {<<{}, {1}, {1, 2}, {1, 2, 3}>>, <<{}, {1}, {1, 2}, {1}>>}

Manifests == {"none", "contract", "other", "broken"}

FileLists == {<< >>, <<"ok">>, <<"broken">>, <<"broken", "ok">>}

MCTrees ==
  [above : Shapes, hidden : {{}, {3}}, harness : {{}, {2}},
   manifest : {<<a, b, c, d>> : a \in {"none", "contract", "broken"}, b \in Manifests \ {"broken"},
                                c \in Manifests, d \in {"none", "other"}},
   files : {<<a, b, c, d>> : a \in {<< >>, <<"ok">>}, b \in FileLists,
                             c \in FileLists, d \in {<< >>, <<"broken">>, <<"ok">>}}]
==========================================================================
