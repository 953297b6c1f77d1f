-------------------------- MODULE MCRequestChannel ---------------------------
(* RequestChannel for TLC: one request of each shape the two sides treat   *)
(* differently, and one of each kind that is cut short.                    *)
EXTENDS RequestChannel, TLC

Ask(type) == [type |-> type, long |-> FALSE, seekable |-> TRUE]

CONST_Requests ==
  {Ask("StatFile"), Ask("ListDirectory"), Ask("CloseHandle"), Ask("WriteHandle"),
   [Ask("ReadHandle") EXCEPT !.seekable = FALSE],
   [Ask("WriteHandle") EXCEPT !.seekable = FALSE],
   [Ask("MoveEntry") EXCEPT !.long = TRUE]}

\* Requests that can be sent and whose handle can seek, but for a write.
CONST_AppendRequests ==
  {Ask("StatFile"), [Ask("WriteHandle") EXCEPT !.seekable = FALSE]}

Symmetry == Permutations(Threads)
=============================================================================
