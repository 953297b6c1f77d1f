------------------------------ MODULE ByteStream ------------------------------
(***************************************************************************)
(* DataWriter and DataReader at the two ends of each direction of the      *)
(* socket, one action per turn of their loops: write_exact fills a buffer, *)
(* flushes it when it is full and goes around it for data of a buffer's    *)
(* length or more; read_exact copies what is left in its buffer, receives  *)
(* straight into the caller's memory while a buffer's length or more is    *)
(* missing, and refills the buffer for the rest.  send and recv move as    *)
(* many bytes as they like.                                                *)
(***************************************************************************)
EXTENDS Integers, Sequences

CONSTANTS
  Channels,    \* the directions of the socket
  Byte,
  BufferSize   \* buffer_size, the same at both ends

ASSUME BufferSizeAssumption == BufferSize \in Nat \ {0}

VARIABLES
  link,      \* the socket: "up", "down"
  wpc,       \* DataWriter: "idle", "copy", "flush", "direct", or it threw: "failed"
  buffered,  \* the first buffer_bytes_filled bytes of its buffer
  data,      \* what write_exact has still to write
  out,       \* what Writable::write has still to send
  wire,      \* bytes in flight
  rpc,       \* DataReader: "idle", "copy", "direct", "fill", "done", "failed"
  unread,    \* its buffer from position_in_buffer to read_into_buffer
  num_bytes, \* what read_exact has still to read
  into,      \* what it has read
  put, got   \* history: all that write_exact was given, all that read_exact returned

writer == <<wpc, buffered, data, out, put>>
reader == <<rpc, unread, num_bytes, into, got>>
streams == <<link, writer, wire, reader>>

StreamsOK ==
  /\ link \in {"up", "down"}
  /\ wpc \in [Channels -> {"idle", "copy", "flush", "direct", "failed"}]
  /\ rpc \in [Channels -> {"idle", "copy", "direct", "fill", "done", "failed"}]
  /\ buffered \in [Channels -> Seq(Byte)] /\ data \in [Channels -> Seq(Byte)]
  /\ out \in [Channels -> Seq(Byte)] /\ wire \in [Channels -> Seq(Byte)]
  /\ unread \in [Channels -> Seq(Byte)] /\ into \in [Channels -> Seq(Byte)]
  /\ put \in [Channels -> Seq(Byte)] /\ got \in [Channels -> Seq(Byte)]
  /\ num_bytes \in [Channels -> Int]

InitStreams ==
  /\ link = "up"
  /\ wpc = [c \in Channels |-> "idle"] /\ rpc = [c \in Channels |-> "idle"]
  /\ buffered = [c \in Channels |-> << >>] /\ data = [c \in Channels |-> << >>]
  /\ out = [c \in Channels |-> << >>] /\ wire = [c \in Channels |-> << >>]
  /\ unread = [c \in Channels |-> << >>] /\ into = [c \in Channels |-> << >>]
  /\ put = [c \in Channels |-> << >>] /\ got = [c \in Channels |-> << >>]
  /\ num_bytes = [c \in Channels |-> 0]

Least(a, b) == IF a <= b THEN a ELSE b
First(s, n) == SubSeq(s, 1, n)
Rest(s, n) == SubSeq(s, n + 1, Len(s))
Set(f, c, v) == [f EXCEPT ![c] = v]

-----------------------------------------------------------------------------
(* DataWriter.                                                             *)

\* write_exact is called with d.
WriteExact(c, d) ==
  /\ wpc[c] = "idle"
  /\ wpc' = Set(wpc, c, IF d = << >> THEN "idle" ELSE "copy")
  /\ data' = Set(data, c, d)
  /\ put' = Set(put, c, put[c] \o d)
  /\ UNCHANGED <<link, buffered, out, wire, reader>>

\* flush is called.
Flush(c) ==
  /\ wpc[c] = "idle"
  /\ wpc' = Set(wpc, c, IF buffered[c] = << >> THEN "idle" ELSE "flush")
  /\ out' = Set(out, c, buffered[c])
  /\ UNCHANGED <<link, buffered, data, put, wire, reader>>

\* Faulty variant of len_to_write: it looks only at the data, not at the buffer.
len_to_write_ignoring_buffer(c) == Least(Len(data[c]), BufferSize)

len_to_write(c) == Least(Len(data[c]), BufferSize - Len(buffered[c]))

\* A turn of write_exact that writes a full buffer: everything left goes to
\* the stream directly.
write_exact_direct(c) ==
  /\ wpc[c] = "copy" /\ len_to_write(c) = BufferSize
  /\ wpc' = Set(wpc, c, "direct")
  /\ out' = Set(out, c, data[c])
  /\ data' = Set(data, c, << >>)
  /\ UNCHANGED <<link, buffered, put, wire, reader>>

\* A turn that copies into the buffer, and flushes it if there is more.
write_exact_copy(c) ==
  /\ wpc[c] = "copy" /\ len_to_write(c) # BufferSize
  /\ buffered' = Set(buffered, c, buffered[c] \o First(data[c], len_to_write(c)))
  /\ data' = Set(data, c, Rest(data[c], len_to_write(c)))
  /\ IF data'[c] = << >>
     THEN wpc' = Set(wpc, c, "idle") /\ UNCHANGED out
     ELSE wpc' = Set(wpc, c, "flush") /\ out' = Set(out, c, buffered'[c])
  /\ UNCHANGED <<link, put, wire, reader>>

\* Writable::write sends n bytes; what is sent into a dead connection is lost
\* until send fails.  After the last of them flush empties the buffer, and
\* write_exact goes on or returns.
Send(c) ==
  /\ wpc[c] \in {"flush", "direct"}
  /\ \E n \in 1..Len(out[c]) :
       /\ wire' = IF link = "up" THEN Set(wire, c, wire[c] \o First(out[c], n)) ELSE wire
       /\ out' = Set(out, c, Rest(out[c], n))
  /\ IF out'[c] # << >> THEN UNCHANGED <<wpc, buffered>>
     ELSE /\ wpc' = Set(wpc, c, IF data[c] = << >> THEN "idle" ELSE "copy")
          /\ buffered' = Set(buffered, c, << >>)
  /\ UNCHANGED <<link, data, put, reader>>

\* send throws: the buffer stays filled.
SendFails(c) ==
  /\ wpc[c] \in {"flush", "direct"} /\ link = "down"
  /\ wpc' = Set(wpc, c, "failed")
  /\ UNCHANGED <<link, buffered, data, out, put, wire, reader>>

-----------------------------------------------------------------------------
(* DataReader.                                                             *)

\* read_exact is called for n bytes.
ReadExact(c, n) ==
  /\ rpc[c] = "idle"
  /\ rpc' = Set(rpc, c, IF n = 0 THEN "done" ELSE "copy")
  /\ num_bytes' = Set(num_bytes, c, n)
  /\ into' = Set(into, c, << >>)
  /\ UNCHANGED <<link, writer, wire, unread, got>>

\* Where read_exact goes with n bytes missing once its buffer is used up.
Onward(n) == CASE n = 0           -> "done"
               [] n >= BufferSize -> "direct"
               [] OTHER           -> "fill"

\* s is stored at into; read_exact returns when that is all it wanted.
Store(c, s) ==
  /\ into' = Set(into, c, into[c] \o s)
  /\ num_bytes' = Set(num_bytes, c, num_bytes[c] - Len(s))
  /\ rpc' = Set(rpc, c, Onward(num_bytes[c] - Len(s)))
  /\ got' = IF num_bytes[c] = Len(s) THEN Set(got, c, got[c] \o into[c] \o s) ELSE got

\* Faulty variant of read_exact_copy: position_in_buffer does not advance.
read_exact_copy_in_place(c) ==
  /\ rpc[c] = "copy"
  /\ Store(c, First(unread[c], Least(num_bytes[c], Len(unread[c]))))
  /\ UNCHANGED <<link, writer, wire, unread>>

\* A turn of read_exact begins with what is left in the buffer.
read_exact_copy(c) ==
  /\ rpc[c] = "copy"
  /\ LET bytes_to_copy == Least(num_bytes[c], Len(unread[c]))
     IN  /\ Store(c, First(unread[c], bytes_to_copy))
         /\ unread' = Set(unread, c, Rest(unread[c], bytes_to_copy))
  /\ UNCHANGED <<link, writer, wire>>

\* recv into the caller's memory, for at most the bytes that are missing.
read_exact_direct(c) ==
  /\ rpc[c] = "direct"
  /\ \E n \in 1..Least(num_bytes[c], Len(wire[c])) :
       /\ Store(c, First(wire[c], n))
       /\ wire' = Set(wire, c, Rest(wire[c], n))
  /\ UNCHANGED <<link, writer, unread>>

\* recv returns 0 (what was in flight may be lost): one more recv, into the
\* buffer, before read_exact gives up.
read_exact_direct_eof(c) ==
  /\ rpc[c] = "direct" /\ link = "down"
  /\ rpc' = Set(rpc, c, "fill")
  /\ wire' = Set(wire, c, << >>)
  /\ UNCHANGED <<link, writer, unread, num_bytes, into, got>>

read_exact_fill(c) ==
  /\ rpc[c] = "fill"
  /\ \E n \in 1..Least(BufferSize, Len(wire[c])) :
       /\ unread' = Set(unread, c, First(wire[c], n))
       /\ wire' = Set(wire, c, Rest(wire[c], n))
  /\ rpc' = Set(rpc, c, "copy")
  /\ UNCHANGED <<link, writer, num_bytes, into, got>>

\* EOFException, or recv throws; what was in flight is lost.
ReceiveFails(c) ==
  /\ rpc[c] \in {"direct", "fill"} /\ link = "down"
  /\ rpc' = Set(rpc, c, "failed")
  /\ UNCHANGED <<link, writer, wire, unread, num_bytes, into, got>>

\* The caller goes on with what read_exact stored.
Return(c) ==
  /\ rpc[c] = "done"
  /\ rpc' = Set(rpc, c, "idle")
  /\ UNCHANGED <<link, writer, wire, unread, num_bytes, into, got>>

-----------------------------------------------------------------------------
\* The device is unplugged, adb or the other end is killed.
Break == link = "up" /\ link' = "down" /\ UNCHANGED <<writer, wire, reader>>

WriterTurn(c) == write_exact_direct(c) \/ write_exact_copy(c) \/ Send(c) \/ SendFails(c)

ReaderTurn(c) ==
  \/ read_exact_copy(c) \/ read_exact_direct(c) \/ read_exact_direct_eof(c)
  \/ read_exact_fill(c) \/ ReceiveFails(c)

\* The streams, whatever is written to them and read from them.
StreamNext ==
  \/ \E c \in Channels :
       \/ WriterTurn(c) \/ Flush(c) \/ ReaderTurn(c) \/ Return(c)
       \/ \E d \in Seq(Byte) : WriteExact(c, d)
       \/ \E n \in Nat : ReadExact(c, n)
  \/ Break

StreamSpec == InitStreams /\ [][StreamNext]_streams

-----------------------------------------------------------------------------
(* Properties.                                                             *)

\* What DataWriter holds that is not on the wire, in order.
Pending(c) ==
  CASE wpc[c] = "flush"  -> out[c] \o data[c]
    [] wpc[c] = "direct" -> out[c]
    [] OTHER             -> buffered[c] \o data[c]

\* What is past DataWriter, in order.
Carried(c) ==
  got[c] \o (IF rpc[c] \in {"copy", "direct", "fill", "failed"} THEN into[c] ELSE << >>)
         \o unread[c] \o wire[c]

\* No byte is lost, repeated or overtaken on its way through the buffers and
\* around them; once the connection broke, what still arrives is a prefix of
\* what was written.
NothingLost ==
  \A c \in Channels :
    /\ \E n \in 0..Len(put[c]) : Carried(c) = First(put[c], n)
    /\ link = "up" => put[c] = Carried(c) \o Pending(c)

\* The loops of write_exact and read_exact stay within their buffers, and
\* read_exact within the memory of its caller.
WithinBuffers ==
  \A c \in Channels :
    /\ Len(buffered[c]) <= BufferSize /\ Len(unread[c]) <= BufferSize
    /\ num_bytes[c] \in Nat

\* What the reader of c is asked for.
Asked(c) == IF rpc[c] \in {"idle", "done"} THEN 0 ELSE num_bytes[c] + Len(into[c])
=============================================================================
