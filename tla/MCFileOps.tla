------------------------------ MODULE MCFileOps ------------------------------
(* FileOps for TLC: two threads and two file objects that meet at one path *)
(* of a directory, with another name to move to.                           *)
EXTENDS FileOps, TLC

D == <<"d">>
X == <<"d", "x">>
Y == <<"d", "y">>

CONST_Paths == {<< >>, D, X, Y}
CONST_Tree == (<< >> :> Entry(TRUE, 1)) @@ (D :> Entry(TRUE, 2))

How(p, disposition, read, write) ==
  [path |-> p, disposition |-> disposition, read |-> read, write |-> write,
   directory |-> FALSE, file |-> FALSE, delete |-> FALSE]

CONST_Creates ==
  {How(X, "CREATE_NEW", FALSE, TRUE), How(X, "OPEN_EXISTING", TRUE, FALSE),
   How(X, "OPEN_ALWAYS", FALSE, FALSE), How(X, "CREATE_ALWAYS", TRUE, TRUE)}
CONST_Uses == {"write_file", "delete_file", "move_file"}
CONST_Targets == {Y}

\* A second directory, desktop.ini and a path without access.
E == <<"e">>
Ini == <<"desktop.ini">>
K == <<"k">>
CONST_DirPaths == {<< >>, D, E, X, <<"e", "x">>, Ini, K}
CONST_DirTree == CONST_Tree @@ (K :> Entry(FALSE, 3)) @@ (X :> Entry(FALSE, 4))
Dir(p, disposition) == [How(p, disposition, FALSE, TRUE) EXCEPT !.directory = TRUE]
CONST_DirCreates ==
  {Dir(<< >>, "OPEN_EXISTING"), Dir(D, "OPEN_EXISTING"), Dir(E, "CREATE_NEW"), Dir(X, "OPEN_ALWAYS"),
   How(Ini, "OPEN_ALWAYS", TRUE, FALSE), How(K, "OPEN_EXISTING", TRUE, FALSE),
   [How(X, "CREATE_ALWAYS", TRUE, FALSE) EXCEPT !.delete = TRUE, !.file = TRUE],
   How(X, "TRUNCATE_EXISTING", FALSE, TRUE)}
CONST_DirTargets == {E}
CONST_Denied == {K}

CONST_StatusCreates == {How(X, "OPEN_ALWAYS", TRUE, FALSE)}

Symmetry == Permutations(Threads) \cup Permutations(Objects)
=============================================================================
