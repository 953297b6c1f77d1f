------------------------------- MODULE Numbers --------------------------------
(* Numbers as DataWriter and DataReader put them on the wire.  Both hosts   *)
(* are little-endian; a byte has Base values and the widths are in bytes,   *)
(* so that a scaled-down instance keeps the structure of the real one       *)
(* (Base = 256, U16 = 2, U32 = 4).                                          *)
EXTENDS Integers, Sequences, SequencesExt

CONSTANTS Base, U16, U32

ASSUME NumbersAssumption == Base \in Nat \ {0, 1} /\ U16 \in Nat \ {0} /\ U32 \in Nat \ {0}

U64 == 2 * U32
Range32 == Base^U32
Range64 == Base^U64

\* The bytes of v in memory.
Memory(v, w) == [i \in 1..w |-> (v \div Base^(i - 1)) % Base]

Value(b) == FoldRight(LAMBDA d, v : d + Base * v, b, 0)

\* htons and htonl, and htonll of winsock2: the bytes in reverse.
hton(v, w) == Value(Reverse(Memory(v, w)))

\* htonll and ntohll as written for the device.
htonll(v) == hton(v % Range32, U32) * Range32 + hton(v \div Range32, U32)

\* DataWriter; write_u64 is compiled with one htonll for Windows and another
\* for the device.
write_byte(v) == <<v>>
write_u16(v) == Memory(hton(v, U16), U16)
write_u32(v) == Memory(hton(v, U32), U32)
write_u64_win32(v) == Memory(hton(v, U64), U64)
write_u64(v) == Memory(htonll(v), U64)
write_utf8_string(s) == <<write_u16(Len(s)), s>>

\* DataReader.
read_u16(b) == hton(Value(b), U16)
read_u32(b) == hton(Value(b), U32)
read_u64_win32(b) == hton(Value(b), U64)
read_u64(b) == htonll(Value(b))

\* The conversions between int and uint32_t, int64_t and uint64_t.
AsSigned(v, range) == IF v < range \div 2 THEN v ELSE v - range
AsUnsigned(v, range) == v % range
=============================================================================
