------------------------------ MODULE MCDataPath ------------------------------
(* DataPath for TLC: sixteen values of a byte, two bytes in a uint64_t,       *)
(* buffers of three bytes, a file of three.                                 *)
EXTENDS DataPath

Time(ticks) == [low |-> ticks % Half, high |-> ticks \div Half]

Read(handle, len, offs) == [type |-> "ReadHandle", handle |-> handle, len |-> len, offset |-> offs]
Write(offs, bytes) == [type |-> "WriteHandle", handle |-> Handle, offset |-> offs, bytes |-> bytes]
Touch(name, access, write) ==
  [type |-> "SetFileTime", path |-> name, access |-> access, write |-> write]
Stat == [type |-> "StatFile", path |-> <<1, 0>>]

\* First a read within the file or past it, of nothing or of a handle that is
\* not open, a write of more than a buffer or one that leaves a gap, times before
\* 1970, after it or none; then a look at what that left behind.
CONST_Requests ==
  <<{Read(Handle, 5, 1), Read(Handle, 0, 0), Read(Handle + 1, 2, 0),
     Write(1, <<1, 2, 3, 4, 5>>), Write(4, <<2>>),
     [type |-> "TruncateHandle", handle |-> Handle, new_length |-> 1],
     Stat, Touch(<<1>>, Time(2 * 19 + 1), NoTime), Touch(<< >>, Time(0), Time(2 * 70 + 1)),
     [type |-> "GetDiskStats"]},
    {Read(Handle, 4, 1), Stat}>>
CONST_File == <<3, 0, 5>>
CONST_Times == [access |-> 31, write |-> -7]
CONST_Disk == [bsize |-> 2, bfree |-> 37, favail |-> 101, blocks |-> 90]
=============================================================================
