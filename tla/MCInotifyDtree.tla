--------------------------- MODULE MCInotifyDtree ---------------------------
(* Instantiations of InotifyDtree for TLC.  The flat layout monitors one *)
(* root "r" in "/"; the nested layout monitors "r" and "r/s", a root     *)
(* inside another, which copyRootDirPaths() accepts (it rejects only     *)
(* two arguments that name the same inode).  Mutators use the names a, b *)
(* and allocate at most the two directories d1, d2.                      *)
EXTENDS InotifyDtree, TLC

MCRootNames == {"r"}
MCRootParent == [r \in MCRootNames |-> Top]

NestedRootNames == {"r", "s"}
NestedRootParent == [r \in NestedRootNames |-> IF r = "s" THEN "r" ELSE Top]

MCNames == {"a", "b"}
NestedNames == {"a"}

CONSTANTS d1, d2
MCNewDirs == {d1, d2}
NestedNewDirs == {d1}

MCSymmetry == Permutations(MCNewDirs)

(* The operator's 'a'/'z' arguments: the root and a directory in it. *)
MCCmdPaths == {<<"r">>, <<"r", "a">>}

=============================================================================
