----------------------------- MODULE MCFindings -----------------------------
(***************************************************************************)
(* An instance of Findings for TLC: a directory with an unusable name and  *)
(* a conflicted copy in it, a plain one with a copy and an unusable name,  *)
(* one that cannot be read and hides an unusable name, and a copy and an   *)
(* unusable name beside them.                                              *)
(***************************************************************************)
EXTENDS Findings

CONSTANTS root, badDir, badCopy, copy1, folder, copy2, tab, private, hidden, crlf

Order  == <<badDir, badCopy, copy1, folder, copy2, tab, private, hidden, crlf>>
Folder == [p \in ToSet(Order) |-> CASE p = badCopy -> badDir
                                   [] p \in {copy2, tab} -> folder
                                   [] p = hidden -> private
                                   [] OTHER -> root]

AllDirs     == {badDir, folder, private}
AllUnusable == {badDir, tab, hidden, crlf}
AllCopies   == {badCopy, copy1, copy2}
OnePrivate  == {private}
TwoTimes    == {1, 2}
=============================================================================
