-------------------------- MODULE MCCachedRequests ---------------------------
(* CachedRequests for TLC: a directory with two places for files, one of   *)
(* which is taken at the start.                                            *)
EXTENDS CachedRequests, TLC

D == <<"d">>
X == <<"d", "x">>
Y == <<"d", "y">>

CONST_Paths == {<< >>, D, X, Y}
CONST_Tree == (<< >> :> Entry(TRUE, 1)) @@ (D :> Entry(TRUE, 2)) @@ (X :> Entry(FALSE, 3))

On(type, p) == [type |-> type, path |-> p]
Open(p, mode) == [type |-> "OpenHandle", path |-> p, mode |-> mode, read |-> TRUE, write |-> FALSE]
Move(p, q) == [type |-> "MoveEntry", path |-> p, to |-> q, overwrite |-> FALSE]

CONST_Requests ==
  {On("StatFile", X), On("ListDirectory", D), On("RemoveFile", X), Move(X, Y),
   On("SetFileTime", X), Open(X, "CreateIfNotExist")}

CONST_RootRequests == {On("ListDirectory", << >>), On("CreateDirectory", <<"e">>)}
CONST_RootPaths == {<< >>, D, <<"e">>}
CONST_RootTree == (<< >> :> Entry(TRUE, 1)) @@ (D :> Entry(TRUE, 2))

CONST_TimeRequests == {On("ListDirectory", D), On("SetFileTime", X)}

Symmetry == Permutations(Threads)
=============================================================================
