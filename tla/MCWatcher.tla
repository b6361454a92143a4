----------------------------- MODULE MCWatcher ------------------------------
(***************************************************************************)
(* Instances of Watcher for TLC.                                           *)
(***************************************************************************)
EXTENDS Watcher

CONSTANTS root, a, b, c, deepFile, ignoredFile, watcher

\* A directory inside another one and one beside them, a file with an
\* offending name in the inner one and an ignored file at the top.
ThreeDirs    == {a, b, c}
ThreeParent  == [d \in ThreeDirs |-> IF d = b THEN a ELSE root]
TwoFiles     == {deepFile, ignoredFile}
TwoHomes     == [f \in TwoFiles |-> IF f = deepFile THEN b ELSE root]
DeepFiles    == {deepFile}
IgnoredFiles == {ignoredFile}

OneTime == {1}
None    == {}
=============================================================================
