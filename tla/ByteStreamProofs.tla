--------------------------- MODULE ByteStreamProofs ---------------------------
(***************************************************************************)
(* Proofs about ByteStream, for every buffer size, every set of channels,  *)
(* every data written and every length read.                               *)
(***************************************************************************)
EXTENDS ByteStream, SequenceTheorems, TLAPS

-----------------------------------------------------------------------------
(* Sequences.                                                              *)

\* A sequence is what it begins with followed by the rest.
LEMMA Cut ==
  ASSUME NEW S, NEW s \in Seq(S), NEW n \in 0..Len(s)
  PROVE  /\ First(s, n) \in Seq(S) /\ Rest(s, n) \in Seq(S)
         /\ Len(First(s, n)) = n /\ Len(Rest(s, n)) = Len(s) - n
         /\ s = First(s, n) \o Rest(s, n)
<1>1. \A i \in 1..Len(s) : s[i] \in S
  BY ElementOfSeq
<1>2. First(s, n) \in Seq(S) /\ Len(First(s, n)) = n
  BY <1>1, SubSeqProperties DEF First
<1>3. Rest(s, n) \in Seq(S) /\ Len(Rest(s, n)) = Len(s) - n
  BY <1>1, SubSeqProperties DEF Rest
<1>4. s = First(s, n) \o Rest(s, n)
  <2>1. SubSeq(s, 1, n) \o SubSeq(s, n + 1, Len(s)) = SubSeq(s, 1, Len(s))
    <3>1. Len(s) \in Nat /\ 1 \in 1..Len(s) + 1 /\ n \in (1 - 1)..Len(s) /\ Len(s) \in n..Len(s)
      BY LenProperties
    <3> QED BY <3>1, ConcatAdjacentSubSeq
  <2> QED BY <2>1, SubSeqFull DEF First, Rest
<1> QED BY <1>2, <1>3, <1>4

\* The beginning of a concatenation.
LEMMA FirstOfConcat ==
  ASSUME NEW S, NEW s \in Seq(S), NEW t \in Seq(S)
  PROVE  Len(s) \in 0..Len(s \o t) /\ First(s \o t, Len(s)) = s
<1>1. s \o t \in Seq(S) /\ Len(s \o t) = Len(s) + Len(t) /\ Len(s) \in Nat /\ Len(t) \in Nat
  BY ConcatProperties, LenProperties
<1>2. CASE s = << >>
  BY <1>1, <1>2, SubSeqEmpty, EmptySeq DEF First
<1>3. CASE s # << >>
  <2>1. Len(s) \in 1..Len(s)
    BY <1>1, <1>3, EmptySeq
  <2>2. SubSeq(s \o t, 1, Len(s)) = SubSeq(s, 1, Len(s))
    BY <2>1, SubSeqOfConcat1
  <2> QED BY <1>1, <2>2, SubSeqFull DEF First
<1> QED BY <1>2, <1>3

\* The same for bytes.
LEMMA CutBytes ==
  \A s \in Seq(Byte) : \A n \in 0..Len(s) :
    /\ First(s, n) \in Seq(Byte) /\ Rest(s, n) \in Seq(Byte)
    /\ Len(First(s, n)) = n /\ Len(Rest(s, n)) = Len(s) - n
    /\ s = First(s, n) \o Rest(s, n)
BY Cut

LEMMA Join ==
  \A a, b, d \in Seq(Byte) : a \o b \in Seq(Byte) /\ (a \o b) \o d = a \o (b \o d)
BY ConcatProperties, ConcatAssociative

LEMMA JoinEmpty ==
  << >> \in Seq(Byte) /\ \A a \in Seq(Byte) : a \o << >> = a /\ << >> \o a = a
BY EmptySeq, ConcatEmptySeq

LEMMA LeastFull ==
  ASSUME NEW a \in Nat, NEW b \in Nat, NEW n \in Nat, Least(a, n - b) = n
  PROVE  b = 0
BY DEF Least

LEMMA LeastFits ==
  ASSUME NEW a \in Nat, NEW b \in Nat, NEW n \in Nat, b <= n
  PROVE  Least(a, n - b) \in 0..a /\ b + Least(a, n - b) <= n
BY DEF Least

-----------------------------------------------------------------------------
(* The inductive invariant.                                                *)

\* The history of c is in order: NothingLost for one channel, without lengths.
Order(c) ==
  /\ \E rest \in Seq(Byte) : put[c] = Carried(c) \o rest
  /\ link = "up" => put[c] = Carried(c) \o Pending(c)

\* What NothingLost leaves out: which of the buffers are empty in which state
\* of the two loops, and that a loop that runs has something left to do.
Shape(c) ==
  /\ wpc[c] \in {"idle", "direct"} => data[c] = << >>
  /\ rpc[c] \in {"direct", "fill"} => unread[c] = << >>
  /\ rpc[c] \in {"copy", "direct", "fill"} => num_bytes[c] > 0
  /\ num_bytes[c] \in Nat
  /\ Len(buffered[c]) <= BufferSize /\ Len(unread[c]) <= BufferSize
  /\ wpc[c] = "failed" => link = "down"

StreamsInv == StreamsOK /\ \A c \in Channels : Order(c) /\ Shape(c)

\* Nothing of channel c changes.
Same(c) ==
  /\ link' = link /\ wpc'[c] = wpc[c] /\ buffered'[c] = buffered[c] /\ data'[c] = data[c]
  /\ out'[c] = out[c] /\ put'[c] = put[c] /\ wire'[c] = wire[c] /\ rpc'[c] = rpc[c]
  /\ unread'[c] = unread[c] /\ num_bytes'[c] = num_bytes[c] /\ into'[c] = into[c]
  /\ got'[c] = got[c]

\* A step of channel c keeps the types and the other channels.
Local(c) == StreamsOK' /\ \A e \in Channels \ {c} : Same(e)

\* The types at channel c.
TypesAt(c) ==
  /\ link \in {"up", "down"} /\ num_bytes[c] \in Nat
  /\ buffered[c] \in Seq(Byte) /\ data[c] \in Seq(Byte) /\ out[c] \in Seq(Byte)
  /\ wire[c] \in Seq(Byte) /\ unread[c] \in Seq(Byte) /\ into[c] \in Seq(Byte)
  /\ put[c] \in Seq(Byte) /\ got[c] \in Seq(Byte)
  /\ Carried(c) \in Seq(Byte) /\ Pending(c) \in Seq(Byte)

LEMMA SameInv ==
  ASSUME NEW c \in Channels, Order(c), Shape(c), Same(c)
  PROVE  Order(c)' /\ Shape(c)'
<1>1. Carried(c)' = Carried(c) /\ Pending(c)' = Pending(c)
  BY DEF Same, Carried, Pending
<1> QED BY <1>1 DEF Same, Order, Shape

LEMMA InitOK == InitStreams => StreamsInv
<1> SUFFICES ASSUME InitStreams PROVE StreamsInv
  OBVIOUS
<1>0. << >> \in Seq(Byte) /\ << >> \o << >> = << >> /\ Len(<< >>) = 0
  BY ConcatEmptySeq, EmptySeq
<1>1. StreamsOK
  BY <1>0 DEF InitStreams, StreamsOK
<1>2. ASSUME NEW c \in Channels PROVE Order(c)
  <2>1. Carried(c) = << >> /\ Pending(c) = << >> /\ put[c] = << >>
    BY <1>0 DEF InitStreams, Carried, Pending
  <2> QED BY <1>0, <2>1 DEF Order
<1>3. ASSUME NEW c \in Channels PROVE Shape(c)
  BY <1>0, BufferSizeAssumption DEF InitStreams, Shape
<1> QED BY <1>1, <1>2, <1>3 DEF StreamsInv

\* What is carried and pending are sequences.
LEMMA Types ==
  ASSUME StreamsInv, NEW c \in Channels
  PROVE  TypesAt(c) /\ Order(c) /\ Shape(c)
<1>1. /\ link \in {"up", "down"} /\ num_bytes[c] \in Nat
      /\ buffered[c] \in Seq(Byte) /\ data[c] \in Seq(Byte) /\ out[c] \in Seq(Byte)
      /\ wire[c] \in Seq(Byte) /\ unread[c] \in Seq(Byte) /\ into[c] \in Seq(Byte)
      /\ put[c] \in Seq(Byte) /\ got[c] \in Seq(Byte)
  BY DEF StreamsInv, StreamsOK, Shape
<1>2. Pending(c) \in Seq(Byte)
  BY <1>1, ConcatProperties DEF Pending
<1>3. PICK i \in Seq(Byte) : Carried(c) = ((got[c] \o i) \o unread[c]) \o wire[c]
  BY <1>1, EmptySeq DEF Carried
<1>4. Carried(c) \in Seq(Byte)
  BY <1>1, <1>3, ConcatProperties
<1> QED BY <1>1, <1>2, <1>4 DEF TypesAt, StreamsInv

\* A step that moves nothing past the writer and takes nothing from it.
LEMMA OrderKept ==
  ASSUME NEW c \in Channels, Order(c), put'[c] = put[c], Carried(c)' = Carried(c),
         link' = "up" => link = "up" /\ Pending(c)' = Pending(c)
  PROVE  Order(c)'
BY DEF Order

-----------------------------------------------------------------------------
(* The writer's steps.                                                     *)

LEMMA WriteExactOK ==
  ASSUME StreamsInv, NEW c \in Channels, NEW d \in Seq(Byte), WriteExact(c, d)
  PROVE  Local(c) /\ Order(c)' /\ Shape(c)'
<1>0. TypesAt(c) /\ Order(c) /\ Shape(c)
  BY Types
<1>1. Local(c)
  <2>1. put[c] \o d \in Seq(Byte)
    BY <1>0, ConcatProperties DEF TypesAt
  <2> QED BY <2>1 DEF WriteExact, StreamsInv, StreamsOK, Same, Set, reader, Local
<1>2. /\ put'[c] = put[c] \o d /\ Carried(c)' = Carried(c) /\ link' = link
      /\ data'[c] = d /\ buffered'[c] = buffered[c] /\ wpc[c] = "idle"
      /\ wpc'[c] = IF d = << >> THEN "idle" ELSE "copy"
      /\ unread'[c] = unread[c] /\ rpc'[c] = rpc[c] /\ num_bytes'[c] = num_bytes[c]
  BY DEF WriteExact, StreamsInv, StreamsOK, Set, reader, Carried
<1>3. \E rest \in Seq(Byte) : put'[c] = Carried(c)' \o rest
  <2>1. PICK rest \in Seq(Byte) : put[c] = Carried(c) \o rest
    BY <1>0 DEF Order
  <2>2. Carried(c) \in Seq(Byte)
    BY <1>0 DEF TypesAt
  <2>3. rest \o d \in Seq(Byte) /\ (Carried(c) \o rest) \o d = Carried(c) \o (rest \o d)
    BY <2>2, Join, ZenonT(60)
  <2> QED BY <1>2, <2>1, <2>3
<1>4. ASSUME link' = "up" PROVE put'[c] = Carried(c)' \o Pending(c)'
  <2>1. Pending(c) = buffered[c] /\ Pending(c)' = buffered[c] \o d
    BY <1>0, <1>2, ConcatEmptySeq DEF TypesAt, Shape, Pending
  <2>2. put[c] = Carried(c) \o buffered[c]
    BY <1>0, <1>2, <1>4, <2>1 DEF Order
  <2>3. Carried(c) \in Seq(Byte) /\ buffered[c] \in Seq(Byte)
    BY <1>0 DEF TypesAt
  <2>4. (Carried(c) \o buffered[c]) \o d = Carried(c) \o (buffered[c] \o d)
    BY <2>3, Join, ZenonT(60)
  <2> QED BY <1>2, <2>1, <2>2, <2>4
<1>5. Order(c)'
  BY <1>3, <1>4 DEF Order
<1>6. Shape(c)'
  BY <1>0, <1>2 DEF Shape
<1> QED BY <1>1, <1>5, <1>6

LEMMA FlushOK ==
  ASSUME StreamsInv, NEW c \in Channels, Flush(c)
  PROVE  Local(c) /\ Order(c)' /\ Shape(c)'
<1>0. TypesAt(c) /\ Order(c) /\ Shape(c)
  BY Types
<1>1. Local(c)
  BY <1>0 DEF Flush, StreamsInv, StreamsOK, Same, Set, reader, Local, TypesAt
<1>2. /\ put'[c] = put[c] /\ Carried(c)' = Carried(c) /\ link' = link
      /\ data'[c] = data[c] /\ buffered'[c] = buffered[c] /\ wpc[c] = "idle"
      /\ wpc'[c] = (IF buffered[c] = << >> THEN "idle" ELSE "flush") /\ out'[c] = buffered[c]
      /\ unread'[c] = unread[c] /\ rpc'[c] = rpc[c] /\ num_bytes'[c] = num_bytes[c]
  BY DEF Flush, StreamsInv, StreamsOK, Set, reader, Carried
<1>3. Pending(c)' = Pending(c)
  BY <1>2 DEF Pending
<1>4. Order(c)'
  BY <1>0, <1>2, <1>3, OrderKept
<1>5. Shape(c)'
  BY <1>0, <1>2 DEF Shape
<1> QED BY <1>1, <1>4, <1>5

LEMMA write_exact_directOK ==
  ASSUME StreamsInv, NEW c \in Channels, write_exact_direct(c)
  PROVE  Local(c) /\ Order(c)' /\ Shape(c)'
<1>0. TypesAt(c) /\ Order(c) /\ Shape(c)
  BY Types
<1>1. Local(c)
  BY <1>0, EmptySeq DEF write_exact_direct, StreamsInv, StreamsOK, Same, Set, reader, Local, TypesAt
<1>2. /\ put'[c] = put[c] /\ Carried(c)' = Carried(c) /\ link' = link
      /\ data'[c] = << >> /\ buffered'[c] = buffered[c] /\ wpc[c] = "copy"
      /\ wpc'[c] = "direct" /\ out'[c] = data[c]
      /\ unread'[c] = unread[c] /\ rpc'[c] = rpc[c] /\ num_bytes'[c] = num_bytes[c]
  BY DEF write_exact_direct, StreamsInv, StreamsOK, Set, reader, Carried
<1>3. buffered[c] = << >>
  <2>1. buffered[c] \in Seq(Byte)
    BY <1>0 DEF TypesAt
  <2>2. Len(data[c]) \in Nat /\ Len(buffered[c]) \in Nat
    BY <1>0, LenProperties DEF TypesAt
  <2>3. Least(Len(data[c]), BufferSize - Len(buffered[c])) = BufferSize
    BY DEF write_exact_direct, len_to_write
  <2>4. Len(buffered[c]) = 0
    BY <2>2, <2>3, BufferSizeAssumption, LeastFull
  <2> QED BY <2>1, <2>4, EmptySeq
<1>4. Pending(c)' = Pending(c)
  BY <1>0, <1>2, <1>3, ConcatEmptySeq DEF Pending, TypesAt
<1>5. Order(c)'
  BY <1>0, <1>2, <1>4, OrderKept
<1>6. Shape(c)'
  BY <1>0, <1>2 DEF Shape
<1> QED BY <1>1, <1>5, <1>6

LEMMA write_exact_copyOK ==
  ASSUME StreamsInv, NEW c \in Channels, write_exact_copy(c)
  PROVE  Local(c) /\ Order(c)' /\ Shape(c)'
<1>0. TypesAt(c) /\ Order(c) /\ Shape(c)
  BY Types
<1>1. /\ data[c] \in Seq(Byte) /\ buffered[c] \in Seq(Byte)
      /\ Len(data[c]) \in Nat /\ Len(buffered[c]) \in Nat
  BY <1>0, LenProperties DEF TypesAt
<1>2. /\ len_to_write(c) \in 0..Len(data[c])
      /\ Len(buffered[c]) + len_to_write(c) <= BufferSize
  <2>1. Len(buffered[c]) <= BufferSize
    BY <1>0 DEF Shape
  <2>2. Len(data[c]) \in Nat /\ Len(buffered[c]) \in Nat
    BY <1>1
  <2> QED BY <2>1, <2>2, BufferSizeAssumption, LeastFits DEF len_to_write
<1>3. PICK x : x = First(data[c], len_to_write(c))
  OBVIOUS
<1>4. PICK y : y = Rest(data[c], len_to_write(c))
  OBVIOUS
<1>5. /\ x \in Seq(Byte) /\ y \in Seq(Byte) /\ Len(x) = len_to_write(c)
      /\ data[c] = x \o y
  BY <1>1, <1>2, <1>3, <1>4, CutBytes
<1>6. /\ buffered[c] \o x \in Seq(Byte) /\ Len(buffered[c] \o x) <= BufferSize
      /\ (buffered[c] \o x) \o y = buffered[c] \o data[c]
  <2>1. Len(buffered[c] \o x) = Len(buffered[c]) + Len(x)
    BY <1>1, <1>5, ConcatProperties
  <2>2. buffered[c] \o x \in Seq(Byte) /\ (buffered[c] \o x) \o y = buffered[c] \o (x \o y)
    BY <1>1, <1>5, Join, ZenonT(60)
  <2> QED BY <1>2, <1>5, <2>1, <2>2
<1>7. /\ put' = put /\ link' = link /\ wire' = wire /\ reader' = reader /\ wpc[c] = "copy"
      /\ buffered' = Set(buffered, c, buffered[c] \o x) /\ data' = Set(data, c, y)
      /\ IF data'[c] = << >>
         THEN wpc' = Set(wpc, c, "idle") /\ UNCHANGED out
         ELSE wpc' = Set(wpc, c, "flush") /\ out' = Set(out, c, buffered'[c])
  BY <1>3, <1>4 DEF write_exact_copy
<1>8. /\ Carried(c)' = Carried(c) /\ data'[c] = y /\ buffered'[c] = buffered[c] \o x
      /\ wpc'[c] = (IF y = << >> THEN "idle" ELSE "flush")
      /\ y # << >> => out'[c] = buffered[c] \o x
      /\ unread'[c] = unread[c] /\ rpc'[c] = rpc[c] /\ num_bytes'[c] = num_bytes[c]
  BY <1>7 DEF StreamsInv, StreamsOK, Set, reader, Carried
<1>9. Local(c)
  <2>1. wpc' \in [Channels -> {"idle", "copy", "flush", "direct", "failed"}]
    <3>1. wpc \in [Channels -> {"idle", "copy", "flush", "direct", "failed"}]
      BY DEF StreamsInv, StreamsOK
    <3>2. wpc' = Set(wpc, c, "idle") \/ wpc' = Set(wpc, c, "flush")
      BY <1>7
    <3> QED BY <3>1, <3>2 DEF Set
  <2>2. out' \in [Channels -> Seq(Byte)]
    <3>1. out' = out \/ out' = Set(out, c, buffered[c] \o x)
      BY <1>7 DEF StreamsInv, StreamsOK, Set
    <3> QED BY <1>6, <3>1 DEF StreamsInv, StreamsOK, Set
  <2>3. StreamsOK'
    BY <1>5, <1>6, <1>7, <2>1, <2>2 DEF StreamsInv, StreamsOK, Set, reader
  <2>4. \A e \in Channels \ {c} : Same(e)
    BY <1>7 DEF StreamsInv, StreamsOK, Same, Set, reader
  <2> QED BY <2>3, <2>4 DEF Local
<1>10. Pending(c) = buffered[c] \o data[c] /\ Pending(c)' = (buffered[c] \o x) \o y
  BY <1>7, <1>8 DEF Pending
<1>11. Order(c)'
  BY <1>0, <1>6, <1>7, <1>8, <1>10, OrderKept
<1>12. Shape(c)'
  BY <1>0, <1>6, <1>7, <1>8 DEF Shape
<1> QED BY <1>9, <1>11, <1>12

LEMMA SendOK ==
  ASSUME StreamsInv, NEW c \in Channels, Send(c)
  PROVE  Local(c) /\ Order(c)' /\ Shape(c)'
<1>0. TypesAt(c) /\ Order(c) /\ Shape(c)
  BY Types
<1>1. /\ out[c] \in Seq(Byte) /\ data[c] \in Seq(Byte) /\ wire[c] \in Seq(Byte)
      /\ Carried(c) \in Seq(Byte) /\ Pending(c) \in Seq(Byte) /\ Len(out[c]) \in Nat
  BY <1>0, LenProperties DEF TypesAt
<1>2. PICK n \in 1..Len(out[c]) :
        /\ wire' = IF link = "up" THEN Set(wire, c, wire[c] \o First(out[c], n)) ELSE wire
        /\ out' = Set(out, c, Rest(out[c], n))
  BY DEF Send
<1>3. PICK x : x = First(out[c], n)
  OBVIOUS
<1>4. PICK y : y = Rest(out[c], n)
  OBVIOUS
<1>5. n \in 0..Len(out[c])
  BY <1>1
<1>6. x \in Seq(Byte) /\ y \in Seq(Byte) /\ out[c] = x \o y
  BY <1>1, <1>3, <1>4, <1>5, CutBytes
<1>7. /\ wire' = (IF link = "up" THEN Set(wire, c, wire[c] \o x) ELSE wire)
      /\ out' = Set(out, c, y) /\ wpc[c] \in {"flush", "direct"} /\ out'[c] = y
      /\ link' = link /\ data' = data /\ put' = put /\ reader' = reader
      /\ y # << >> => UNCHANGED <<wpc, buffered>>
      /\ y = << >> => /\ wpc' = Set(wpc, c, IF data[c] = << >> THEN "idle" ELSE "copy")
                      /\ buffered' = Set(buffered, c, << >>)
  BY <1>2, <1>3, <1>4 DEF Send, StreamsInv, StreamsOK, Set
<1>8. wire[c] \o x \in Seq(Byte) /\ y \o data[c] \in Seq(Byte)
  BY <1>1, <1>6, Join, ZenonT(60)
<1>9. Local(c)
  <2>1. wpc' \in [Channels -> {"idle", "copy", "flush", "direct", "failed"}]
    BY <1>7 DEF StreamsInv, StreamsOK, Set
  <2>2. wire' \in [Channels -> Seq(Byte)]
    <3>1. wire' = wire \/ wire' = Set(wire, c, wire[c] \o x)
      BY <1>7
    <3> QED BY <1>8, <3>1 DEF StreamsInv, StreamsOK, Set
  <2>3. buffered' = buffered \/ buffered' = Set(buffered, c, << >>)
    <3>1. CASE y = << >>
      BY <1>7, <3>1
    <3>2. CASE y # << >>
      BY <1>7, <3>2
    <3> QED BY <3>1, <3>2
  <2>4. buffered' \in [Channels -> Seq(Byte)]
    <3>1. << >> \in Seq(Byte) /\ buffered \in [Channels -> Seq(Byte)]
      BY EmptySeq DEF StreamsInv, StreamsOK
    <3> QED BY <2>3, <3>1 DEF Set
  <2>5. StreamsOK'
    BY <1>6, <1>7, <2>1, <2>2, <2>4 DEF StreamsInv, StreamsOK, Set, reader
  <2>6. \A e \in Channels \ {c} : Same(e)
    BY <1>7, <2>3 DEF StreamsInv, StreamsOK, Same, Set, reader
  <2> QED BY <2>5, <2>6 DEF Local
<1>10. Order(c)'
  <2>1. put'[c] = put[c]
    BY <1>7
  <2>2. CASE link = "down"
    <3>1. Carried(c)' = Carried(c) /\ link' = "down"
      BY <1>7, <2>2 DEF Carried, reader
    <3> QED BY <1>0, <2>1, <3>1, OrderKept
  <2>3. CASE link = "up"
    <3>1. Carried(c)' = Carried(c) \o x
      <4>1. PICK i \in Seq(Byte) : /\ Carried(c) = ((got[c] \o i) \o unread[c]) \o wire[c]
                                  /\ Carried(c)' = ((got[c] \o i) \o unread[c]) \o wire'[c]
        <5>1. into[c] \in Seq(Byte) /\ << >> \in Seq(Byte)
          BY <1>0, EmptySeq DEF TypesAt
        <5> QED BY <1>7, <5>1 DEF Carried, reader
      <4>2. got[c] \in Seq(Byte) /\ unread[c] \in Seq(Byte)
        BY <1>0 DEF TypesAt
      <4>3. (got[c] \o i) \o unread[c] \in Seq(Byte)
        BY <4>2, Join, ZenonT(60)
      <4>4. wire'[c] = wire[c] \o x
        BY <1>7, <2>3 DEF StreamsInv, StreamsOK, Set
      <4>5. wire[c] \in Seq(Byte) /\ x \in Seq(Byte)
        BY <1>1, <1>6
      <4>6. (((got[c] \o i) \o unread[c]) \o wire[c]) \o x = ((got[c] \o i) \o unread[c]) \o (wire[c] \o x)
        BY <4>3, <4>5, Join, ZenonT(60)
      <4> QED BY <4>1, <4>4, <4>6
    <3>2. Pending(c) = x \o Pending(c)' /\ Pending(c)' \in Seq(Byte)
      <4>1. CASE wpc[c] = "flush"
        <5>1. Pending(c) = (x \o y) \o data[c]
          BY <1>6, <4>1 DEF Pending
        <5>2. Pending(c)' = y \o data[c]
          BY <1>7, <4>1 DEF Pending, StreamsInv, StreamsOK, Set
        <5>3. x \in Seq(Byte) /\ y \in Seq(Byte) /\ data[c] \in Seq(Byte)
          BY <1>1, <1>6
        <5>4. (x \o y) \o data[c] = x \o (y \o data[c])
          BY <5>3, Join, ZenonT(60)
        <5> QED BY <1>8, <5>1, <5>2, <5>4
      <4>2. CASE wpc[c] = "direct"
        <5>1. data[c] = << >>
          BY <1>0, <4>2 DEF Shape
        <5>2. y = << >> => Pending(c)' = << >> \o data[c]
          BY <1>7 DEF Pending, StreamsInv, StreamsOK, Set
        <5>3. y # << >> => Pending(c)' = y
          BY <1>7, <4>2 DEF Pending
        <5>4. Pending(c)' = y
          BY <5>1, <5>2, <5>3, ConcatEmptySeq, EmptySeq
        <5> QED BY <1>6, <4>2, <5>4 DEF Pending
      <4> QED BY <1>7, <4>1, <4>2
    <3>3. put[c] = Carried(c) \o (x \o Pending(c)')
      BY <1>0, <2>3, <3>2 DEF Order
    <3>4. put'[c] = Carried(c)' \o Pending(c)'
      <4>1. Carried(c) \in Seq(Byte) /\ x \in Seq(Byte) /\ Pending(c)' \in Seq(Byte)
        BY <1>1, <1>6, <3>2
      <4>2. (Carried(c) \o x) \o Pending(c)' = Carried(c) \o (x \o Pending(c)')
        BY <4>1, Join, ZenonT(60)
      <4> QED BY <2>1, <3>1, <3>3, <4>2
    <3> QED BY <3>2, <3>4 DEF Order
  <2> QED BY <1>0, <2>2, <2>3 DEF TypesAt
<1>11. Shape(c)'
  <2>1. /\ unread' = unread /\ rpc' = rpc /\ num_bytes' = num_bytes
        /\ y # << >> => wpc'[c] = wpc[c] /\ buffered'[c] = buffered[c]
        /\ y = << >> => /\ wpc'[c] = IF data[c] = << >> THEN "idle" ELSE "copy"
                        /\ buffered'[c] = << >>
    BY <1>7 DEF reader, StreamsInv, StreamsOK, Set
  <2> QED BY <1>0, <1>7, <2>1, EmptySeq, BufferSizeAssumption DEF Shape
<1> QED BY <1>9, <1>10, <1>11

LEMMA SendFailsOK ==
  ASSUME StreamsInv, NEW c \in Channels, SendFails(c)
  PROVE  Local(c) /\ Order(c)' /\ Shape(c)'
<1>0. TypesAt(c) /\ Order(c) /\ Shape(c)
  BY Types
<1>1. Local(c)
  BY DEF SendFails, StreamsInv, StreamsOK, Same, Set, reader, Local
<1>2. put'[c] = put[c] /\ Carried(c)' = Carried(c) /\ link' = "down"
  BY DEF SendFails, reader, Carried
<1>3. Order(c)'
  BY <1>0, <1>2, OrderKept
<1>4. Shape(c)'
  BY <1>0 DEF SendFails, reader, StreamsInv, StreamsOK, Set, Shape
<1> QED BY <1>1, <1>3, <1>4

-----------------------------------------------------------------------------
(* The reader's steps.                                                     *)

\* What Carried counts of into while read_exact runs.
LEMMA CarriedRunning ==
  ASSUME NEW c \in Channels, rpc[c] \in {"copy", "direct", "fill", "failed"}
  PROVE  Carried(c) = ((got[c] \o into[c]) \o unread[c]) \o wire[c]
BY DEF Carried

LEMMA ReadExactOK ==
  ASSUME StreamsInv, NEW c \in Channels, NEW n \in Nat, ReadExact(c, n)
  PROVE  Local(c) /\ Order(c)' /\ Shape(c)'
<1>0. TypesAt(c) /\ Order(c) /\ Shape(c)
  BY Types
<1>1. Local(c)
  <2>1. << >> \in Seq(Byte)
    BY EmptySeq
  <2> QED BY <2>1 DEF ReadExact, StreamsInv, StreamsOK, Same, Set, writer, Local
<1>2. /\ put' = put /\ link' = link /\ wpc' = wpc /\ data' = data /\ out' = out
      /\ buffered' = buffered /\ wire' = wire /\ unread' = unread /\ got' = got
      /\ rpc[c] = "idle" /\ rpc'[c] = (IF n = 0 THEN "done" ELSE "copy")
      /\ into'[c] = << >> /\ num_bytes'[c] = n
  BY DEF ReadExact, StreamsInv, StreamsOK, Set, writer
<1>3. Carried(c)' = Carried(c) /\ Pending(c)' = Pending(c)
  BY <1>2 DEF Carried, Pending
<1>4. Order(c)'
  BY <1>0, <1>2, <1>3, OrderKept
<1>5. Shape(c)'
  BY <1>0, <1>2 DEF Shape
<1> QED BY <1>1, <1>4, <1>5

\* What Store does, for no more bytes than are missing.
LEMMA StoreOK ==
  ASSUME StreamsInv, NEW c \in Channels, NEW x \in Seq(Byte),
         Len(x) <= num_bytes[c], Store(c, x)
  PROVE  /\ into' \in [Channels -> Seq(Byte)] /\ got' \in [Channels -> Seq(Byte)]
         /\ num_bytes' \in [Channels -> Int]
         /\ rpc' \in [Channels -> {"idle", "copy", "direct", "fill", "done", "failed"}]
         /\ into'[c] = into[c] \o x /\ num_bytes'[c] = num_bytes[c] - Len(x)
         /\ num_bytes'[c] \in Nat
         /\ num_bytes[c] = Len(x) => rpc'[c] = "done" /\ got'[c] = got[c] \o into[c] \o x
         /\ num_bytes[c] # Len(x) => /\ rpc'[c] \in {"direct", "fill"} /\ got'[c] = got[c]
                                     /\ num_bytes'[c] > 0
         /\ \A e \in Channels \ {c} : /\ into'[e] = into[e] /\ num_bytes'[e] = num_bytes[e]
                                      /\ rpc'[e] = rpc[e] /\ got'[e] = got[e]
<1>1. num_bytes[c] \in Nat /\ Len(x) \in Nat
  BY Types, LenProperties DEF TypesAt
<1>2. got[c] \in Seq(Byte) /\ into[c] \in Seq(Byte)
  BY Types DEF TypesAt
<1>3. got[c] \o into[c] \o x \in Seq(Byte) /\ into[c] \o x \in Seq(Byte)
  BY <1>2, Join, ZenonT(60)
<1>4. PICK n : n = num_bytes[c] - Len(x)
  OBVIOUS
<1>5. n \in Nat /\ (n = 0 <=> num_bytes[c] = Len(x))
  BY <1>1, <1>4
<1>6. /\ n = 0 => Onward(n) = "done"
      /\ n # 0 => Onward(n) \in {"direct", "fill"}
  BY <1>5, BufferSizeAssumption DEF Onward
<1>7. /\ into' = Set(into, c, into[c] \o x) /\ num_bytes' = Set(num_bytes, c, n)
      /\ rpc' = Set(rpc, c, Onward(n))
      /\ got' = IF n = 0 THEN Set(got, c, got[c] \o into[c] \o x) ELSE got
  BY <1>4, <1>5 DEF Store
<1>8. got' = got \/ got' = Set(got, c, got[c] \o into[c] \o x)
  BY <1>7
<1>9. /\ into' \in [Channels -> Seq(Byte)] /\ got' \in [Channels -> Seq(Byte)]
      /\ num_bytes' \in [Channels -> Int]
  BY <1>3, <1>5, <1>7, <1>8 DEF StreamsInv, StreamsOK, Set
<1>10. rpc' \in [Channels -> {"idle", "copy", "direct", "fill", "done", "failed"}]
  BY <1>5, <1>6, <1>7 DEF StreamsInv, StreamsOK, Set
<1>11. into'[c] = into[c] \o x /\ num_bytes'[c] = n /\ rpc'[c] = Onward(n)
  BY <1>7 DEF StreamsInv, StreamsOK, Set
<1>12. got'[c] = IF n = 0 THEN got[c] \o into[c] \o x ELSE got[c]
  BY <1>7 DEF StreamsInv, StreamsOK, Set
<1>13. \A e \in Channels \ {c} : /\ into'[e] = into[e] /\ num_bytes'[e] = num_bytes[e]
                                 /\ rpc'[e] = rpc[e] /\ got'[e] = got[e]
  BY <1>7, <1>8 DEF StreamsInv, StreamsOK, Set
<1>14. /\ n = 0 => rpc'[c] = "done" /\ got'[c] = got[c] \o into[c] \o x
       /\ n # 0 => rpc'[c] \in {"direct", "fill"} /\ got'[c] = got[c] /\ num_bytes'[c] > 0
  <2>1. CASE n = 0
    BY <1>6, <1>11, <1>12, <2>1
  <2>2. CASE n # 0
    <3>1. n > 0
      BY <1>5, <2>2
    <3> QED BY <1>6, <1>11, <1>12, <2>2, <3>1
  <2> QED BY <2>1, <2>2
<1> QED BY <1>4, <1>5, <1>9, <1>10, <1>11, <1>13, <1>14

LEMMA read_exact_copyOK ==
  ASSUME StreamsInv, NEW c \in Channels, read_exact_copy(c)
  PROVE  Local(c) /\ Order(c)' /\ Shape(c)'
<1>0. TypesAt(c) /\ Order(c) /\ Shape(c)
  BY Types
<1>1. /\ got[c] \in Seq(Byte) /\ into[c] \in Seq(Byte) /\ unread[c] \in Seq(Byte)
      /\ wire[c] \in Seq(Byte)
  BY <1>0 DEF TypesAt
<1>2. num_bytes[c] \in Nat /\ Len(unread[c]) \in Nat
  BY <1>0, <1>1, LenProperties DEF TypesAt
<1>3. PICK k : k = Least(num_bytes[c], Len(unread[c]))
  OBVIOUS
<1>4. k \in 0..Len(unread[c]) /\ k <= num_bytes[c] /\ (k # num_bytes[c] => k = Len(unread[c]))
  BY <1>2, <1>3 DEF Least
<1>5. PICK x : x = First(unread[c], k)
  OBVIOUS
<1>6. PICK y : y = Rest(unread[c], k)
  OBVIOUS
<1>7. /\ x \in Seq(Byte) /\ y \in Seq(Byte) /\ Len(x) = k /\ Len(y) = Len(unread[c]) - k
      /\ unread[c] = x \o y
  BY <1>1, <1>4, <1>5, <1>6, CutBytes
<1>8. /\ rpc[c] = "copy" /\ Store(c, x) /\ unread' = Set(unread, c, y)
      /\ link' = link /\ writer' = writer /\ wire' = wire
  BY <1>3, <1>5, <1>6 DEF read_exact_copy
<1>9. unread'[c] = y
  BY <1>8 DEF StreamsInv, StreamsOK, Set
<1>10. Local(c)
  <2>1. unread' \in [Channels -> Seq(Byte)]
    BY <1>7, <1>8 DEF StreamsInv, StreamsOK, Set
  <2>2. StreamsOK'
    BY <1>4, <1>7, <1>8, <2>1, StoreOK DEF StreamsInv, StreamsOK, writer
  <2>3. \A e \in Channels \ {c} : Same(e)
    BY <1>4, <1>7, <1>8, StoreOK DEF StreamsInv, StreamsOK, Same, Set, writer
  <2> QED BY <2>2, <2>3 DEF Local
<1>11. Carried(c)' = Carried(c)
  <2>1. PICK a : a = got[c] \o into[c]
    OBVIOUS
  <2>2. a \in Seq(Byte) /\ a \o x = got[c] \o (into[c] \o x)
    <3>1. got[c] \in Seq(Byte) /\ into[c] \in Seq(Byte) /\ x \in Seq(Byte)
      BY <1>1, <1>7
    <3>2. got[c] \o into[c] \in Seq(Byte)
      BY <3>1, Join, ZenonT(60)
    <3>3. (got[c] \o into[c]) \o x = got[c] \o (into[c] \o x)
      BY <3>1, Join, ZenonT(60)
    <3> QED BY <2>1, <3>2, <3>3
  <2>3. x \in Seq(Byte) /\ y \in Seq(Byte) /\ a \in Seq(Byte)
    BY <1>7, <2>2
  <2>4. (a \o x) \o y = a \o (x \o y) /\ (a \o x) \o << >> = a \o x
    <3>1. a \o x \in Seq(Byte)
      BY <2>3, Join, ZenonT(60)
    <3>2. (a \o x) \o y = a \o (x \o y)
      BY <2>3, Join, ZenonT(60)
    <3>3. (a \o x) \o << >> = a \o x
      BY <3>1, JoinEmpty, ZenonT(60)
    <3> QED BY <3>2, <3>3
  <2>5. Carried(c) = (a \o (x \o y)) \o wire[c]
    BY <1>7, <1>8, <2>1, CarriedRunning
  <2>6. CASE num_bytes[c] = Len(x)
    <3>1. rpc'[c] = "done" /\ got'[c] = got[c] \o into[c] \o x
      BY <1>4, <1>7, <1>8, <2>6, StoreOK
    <3>2. Carried(c)' = (((a \o x) \o << >>) \o y) \o wire[c]
      BY <1>8, <1>9, <2>1, <3>1 DEF Carried
    <3> QED BY <2>4, <2>5, <3>2
  <2>7. CASE num_bytes[c] # Len(x)
    <3>1. rpc'[c] \in {"direct", "fill"} /\ got'[c] = got[c] /\ into'[c] = into[c] \o x
      BY <1>4, <1>7, <1>8, <2>7, StoreOK
    <3>2. Carried(c)' = ((got[c] \o (into[c] \o x)) \o y) \o wire[c]
      BY <1>8, <1>9, <3>1 DEF Carried
    <3> QED BY <2>2, <2>4, <2>5, <3>2
  <2> QED BY <2>6, <2>7
<1>12. Pending(c)' = Pending(c) /\ put'[c] = put[c]
  BY <1>8 DEF Pending, writer
<1>13. Order(c)'
  BY <1>0, <1>8, <1>11, <1>12, OrderKept
<1>14. Shape(c)'
  <2>1. num_bytes[c] # Len(x) => y = << >>
    BY <1>4, <1>7, EmptySeq
  <2>2. /\ num_bytes'[c] \in Nat
        /\ num_bytes[c] = Len(x) => rpc'[c] = "done"
        /\ num_bytes[c] # Len(x) => rpc'[c] \in {"direct", "fill"} /\ num_bytes'[c] > 0
    BY <1>4, <1>7, <1>8, StoreOK
  <2>3. Len(y) <= BufferSize
    BY <1>0, <1>2, <1>4, <1>7, BufferSizeAssumption DEF Shape
  <2> QED BY <1>0, <1>8, <1>9, <2>1, <2>2, <2>3 DEF Shape, writer
<1> QED BY <1>10, <1>13, <1>14

LEMMA read_exact_directOK ==
  ASSUME StreamsInv, NEW c \in Channels, read_exact_direct(c)
  PROVE  Local(c) /\ Order(c)' /\ Shape(c)'
<1>0. TypesAt(c) /\ Order(c) /\ Shape(c)
  BY Types
<1>1. /\ got[c] \in Seq(Byte) /\ into[c] \in Seq(Byte) /\ wire[c] \in Seq(Byte)
      /\ unread[c] = << >>
  BY <1>0 DEF TypesAt, Shape, read_exact_direct
<1>2. num_bytes[c] \in Nat /\ Len(wire[c]) \in Nat
  BY <1>0, <1>1, LenProperties DEF TypesAt
<1>3. PICK k \in 1..Least(num_bytes[c], Len(wire[c])) :
        Store(c, First(wire[c], k)) /\ wire' = Set(wire, c, Rest(wire[c], k))
  BY DEF read_exact_direct
<1>4. k \in 0..Len(wire[c]) /\ k <= num_bytes[c]
  BY <1>2 DEF Least
<1>5. PICK x : x = First(wire[c], k)
  OBVIOUS
<1>6. PICK y : y = Rest(wire[c], k)
  OBVIOUS
<1>7. x \in Seq(Byte) /\ y \in Seq(Byte) /\ Len(x) = k /\ wire[c] = x \o y
  BY <1>1, <1>4, <1>5, <1>6, CutBytes
<1>8. /\ rpc[c] = "direct" /\ Store(c, x) /\ wire' = Set(wire, c, y)
      /\ link' = link /\ writer' = writer /\ unread' = unread
  BY <1>3, <1>5, <1>6 DEF read_exact_direct
<1>9. wire'[c] = y /\ unread'[c] = << >>
  BY <1>1, <1>8 DEF StreamsInv, StreamsOK, Set
<1>10. Local(c)
  <2>1. wire' \in [Channels -> Seq(Byte)]
    BY <1>7, <1>8 DEF StreamsInv, StreamsOK, Set
  <2>2. StreamsOK'
    BY <1>4, <1>7, <1>8, <2>1, StoreOK DEF StreamsInv, StreamsOK, writer
  <2>3. \A e \in Channels \ {c} : Same(e)
    BY <1>4, <1>7, <1>8, StoreOK DEF StreamsInv, StreamsOK, Same, Set, writer
  <2> QED BY <2>2, <2>3 DEF Local
<1>11. Carried(c)' = Carried(c)
  <2>1. PICK a : a = got[c] \o into[c]
    OBVIOUS
  <2>2. a \in Seq(Byte) /\ a \o x = got[c] \o (into[c] \o x)
    <3>1. got[c] \in Seq(Byte) /\ into[c] \in Seq(Byte) /\ x \in Seq(Byte)
      BY <1>1, <1>7
    <3>2. got[c] \o into[c] \in Seq(Byte)
      BY <3>1, Join, ZenonT(60)
    <3>3. (got[c] \o into[c]) \o x = got[c] \o (into[c] \o x)
      BY <3>1, Join, ZenonT(60)
    <3> QED BY <2>1, <3>2, <3>3
  <2>3. x \in Seq(Byte) /\ y \in Seq(Byte) /\ a \in Seq(Byte)
    BY <1>7, <2>2
  <2>4. (a \o x) \o y = a \o (x \o y) /\ (a \o x) \o << >> = a \o x /\ a \o << >> = a
    <3>1. a \o x \in Seq(Byte)
      BY <2>3, Join, ZenonT(60)
    <3>2. (a \o x) \o y = a \o (x \o y)
      BY <2>3, Join, ZenonT(60)
    <3>3. (a \o x) \o << >> = a \o x
      BY <3>1, JoinEmpty, ZenonT(60)
    <3>4. a \o << >> = a
      BY <2>3, JoinEmpty, ZenonT(60)
    <3> QED BY <3>2, <3>3, <3>4
  <2>5. Carried(c) = (a \o << >>) \o (x \o y)
    BY <1>1, <1>7, <1>8, <2>1, CarriedRunning
  <2>6. CASE num_bytes[c] = Len(x)
    <3>1. rpc'[c] = "done" /\ got'[c] = got[c] \o into[c] \o x
      BY <1>4, <1>7, <1>8, <2>6, StoreOK
    <3>2. Carried(c)' = (((a \o x) \o << >>) \o << >>) \o y
      BY <1>9, <2>1, <3>1 DEF Carried
    <3> QED BY <2>4, <2>5, <3>2
  <2>7. CASE num_bytes[c] # Len(x)
    <3>1. rpc'[c] \in {"direct", "fill"} /\ got'[c] = got[c] /\ into'[c] = into[c] \o x
      BY <1>4, <1>7, <1>8, <2>7, StoreOK
    <3>2. Carried(c)' = ((got[c] \o (into[c] \o x)) \o << >>) \o y
      BY <1>9, <3>1 DEF Carried
    <3> QED BY <2>2, <2>4, <2>5, <3>2
  <2> QED BY <2>6, <2>7
<1>12. Pending(c)' = Pending(c) /\ put'[c] = put[c]
  BY <1>8 DEF Pending, writer
<1>13. Order(c)'
  BY <1>0, <1>8, <1>11, <1>12, OrderKept
<1>14. Shape(c)'
  <2>1. /\ num_bytes'[c] \in Nat
        /\ num_bytes[c] = Len(x) => rpc'[c] = "done"
        /\ num_bytes[c] # Len(x) => rpc'[c] \in {"direct", "fill"} /\ num_bytes'[c] > 0
    BY <1>4, <1>7, <1>8, StoreOK
  <2> QED BY <1>0, <1>8, <1>9, <2>1 DEF Shape, writer
<1> QED BY <1>10, <1>13, <1>14

LEMMA read_exact_direct_eofOK ==
  ASSUME StreamsInv, NEW c \in Channels, read_exact_direct_eof(c)
  PROVE  Local(c) /\ Order(c)' /\ Shape(c)'
<1>0. TypesAt(c) /\ Order(c) /\ Shape(c)
  BY Types
<1>1. Local(c)
  BY JoinEmpty DEF read_exact_direct_eof, StreamsInv, StreamsOK, Same, Set, writer, Local
<1>2. /\ put'[c] = put[c] /\ link' = "down" /\ rpc[c] = "direct" /\ rpc'[c] = "fill"
      /\ wire'[c] = << >> /\ got' = got /\ into' = into /\ unread' = unread
  BY DEF read_exact_direct_eof, StreamsInv, StreamsOK, Set, writer
<1>3. Carried(c)' \in Seq(Byte) /\ Carried(c) = Carried(c)' \o wire[c]
  <2>1. /\ got[c] \in Seq(Byte) /\ into[c] \in Seq(Byte) /\ unread[c] \in Seq(Byte)
    BY <1>0 DEF TypesAt
  <2>2. PICK a : a = (got[c] \o into[c]) \o unread[c]
    OBVIOUS
  <2>3. a \in Seq(Byte)
    <3>1. got[c] \o into[c] \in Seq(Byte)
      BY <2>1, Join, ZenonT(60)
    <3> QED BY <2>1, <2>2, <3>1, Join
  <2>4. Carried(c) = a \o wire[c] /\ Carried(c)' = a \o << >>
    BY <1>2, <2>2 DEF Carried
  <2>5. a \o << >> = a
    BY <2>3, JoinEmpty, ZenonT(60)
  <2> QED BY <2>3, <2>4, <2>5
<1>4. PICK rest \in Seq(Byte) : put[c] = Carried(c) \o rest
  BY <1>0 DEF Order
<1>5. put'[c] = Carried(c)' \o (wire[c] \o rest) /\ wire[c] \o rest \in Seq(Byte)
  <2>1. Carried(c)' \in Seq(Byte) /\ wire[c] \in Seq(Byte) /\ rest \in Seq(Byte)
    BY <1>0, <1>3 DEF TypesAt
  <2>2. (Carried(c)' \o wire[c]) \o rest = Carried(c)' \o (wire[c] \o rest)
    BY <2>1, Join, ZenonT(60)
  <2>3. wire[c] \o rest \in Seq(Byte)
    BY <2>1, Join, ZenonT(60)
  <2> QED BY <1>2, <1>3, <1>4, <2>2, <2>3
<1>6. Order(c)'
  BY <1>2, <1>5 DEF Order
<1>7. Shape(c)'
  BY <1>0, <1>2 DEF read_exact_direct_eof, Shape, writer
<1> QED BY <1>1, <1>6, <1>7

LEMMA read_exact_fillOK ==
  ASSUME StreamsInv, NEW c \in Channels, read_exact_fill(c)
  PROVE  Local(c) /\ Order(c)' /\ Shape(c)'
<1>0. TypesAt(c) /\ Order(c) /\ Shape(c)
  BY Types
<1>1. /\ got[c] \in Seq(Byte) /\ into[c] \in Seq(Byte) /\ wire[c] \in Seq(Byte)
      /\ unread[c] = << >> /\ Len(wire[c]) \in Nat
  BY <1>0, LenProperties DEF TypesAt, Shape, read_exact_fill
<1>2. PICK k \in 1..Least(BufferSize, Len(wire[c])) :
        /\ unread' = Set(unread, c, First(wire[c], k))
        /\ wire' = Set(wire, c, Rest(wire[c], k))
  BY DEF read_exact_fill
<1>3. k \in 0..Len(wire[c]) /\ k <= BufferSize
  BY <1>1, BufferSizeAssumption DEF Least
<1>4. PICK x : x = First(wire[c], k)
  OBVIOUS
<1>5. PICK y : y = Rest(wire[c], k)
  OBVIOUS
<1>6. x \in Seq(Byte) /\ y \in Seq(Byte) /\ Len(x) = k /\ wire[c] = x \o y
  BY <1>1, <1>3, <1>4, <1>5, CutBytes
<1>7. /\ rpc[c] = "fill" /\ unread' = Set(unread, c, x) /\ wire' = Set(wire, c, y)
      /\ rpc' = Set(rpc, c, "copy") /\ link' = link /\ writer' = writer
      /\ num_bytes' = num_bytes /\ into' = into /\ got' = got
  BY <1>2, <1>4, <1>5 DEF read_exact_fill
<1>8. wire'[c] = y /\ unread'[c] = x /\ rpc'[c] = "copy"
  BY <1>7 DEF StreamsInv, StreamsOK, Set
<1>9. Local(c)
  BY <1>6, <1>7 DEF StreamsInv, StreamsOK, Same, Set, writer, Local
<1>10. Carried(c)' = Carried(c)
  <2>1. PICK a : a = got[c] \o into[c]
    OBVIOUS
  <2>2. a \in Seq(Byte)
    BY <1>1, <2>1, Join, ZenonT(60)
  <2>3. x \in Seq(Byte) /\ y \in Seq(Byte) /\ a \in Seq(Byte)
    BY <1>6, <2>2
  <2>4. (a \o x) \o y = a \o (x \o y) /\ a \o << >> = a
    <3>1. (a \o x) \o y = a \o (x \o y)
      BY <2>3, Join, ZenonT(60)
    <3>2. a \o << >> = a
      BY <2>3, JoinEmpty, ZenonT(60)
    <3> QED BY <3>1, <3>2
  <2>5. Carried(c) = (a \o << >>) \o (x \o y)
    BY <1>1, <1>6, <1>7, <2>1, CarriedRunning
  <2>6. Carried(c)' = (a \o x) \o y
    BY <1>7, <1>8, <2>1 DEF Carried
  <2> QED BY <2>4, <2>5, <2>6
<1>11. Pending(c)' = Pending(c) /\ put'[c] = put[c]
  BY <1>7 DEF Pending, writer
<1>12. Order(c)'
  BY <1>0, <1>7, <1>10, <1>11, OrderKept
<1>13. Shape(c)'
  BY <1>0, <1>3, <1>6, <1>7, <1>8 DEF Shape, writer
<1> QED BY <1>9, <1>12, <1>13

LEMMA ReceiveFailsOK ==
  ASSUME StreamsInv, NEW c \in Channels, ReceiveFails(c)
  PROVE  Local(c) /\ Order(c)' /\ Shape(c)'
<1>0. TypesAt(c) /\ Order(c) /\ Shape(c)
  BY Types
<1>1. Local(c)
  BY DEF ReceiveFails, StreamsInv, StreamsOK, Same, Set, writer, Local
<1>2. put'[c] = put[c] /\ link' = link /\ Carried(c)' = Carried(c) /\ Pending(c)' = Pending(c)
  BY DEF ReceiveFails, StreamsInv, StreamsOK, Set, writer, Carried, Pending
<1>3. Order(c)'
  BY <1>0, <1>2, OrderKept
<1>4. Shape(c)'
  BY <1>0 DEF ReceiveFails, StreamsInv, StreamsOK, Set, writer, Shape
<1> QED BY <1>1, <1>3, <1>4

LEMMA ReturnOK ==
  ASSUME StreamsInv, NEW c \in Channels, Return(c)
  PROVE  Local(c) /\ Order(c)' /\ Shape(c)'
<1>0. TypesAt(c) /\ Order(c) /\ Shape(c)
  BY Types
<1>1. Local(c)
  BY DEF Return, StreamsInv, StreamsOK, Same, Set, writer, Local
<1>2. put'[c] = put[c] /\ link' = link /\ Carried(c)' = Carried(c) /\ Pending(c)' = Pending(c)
  BY DEF Return, StreamsInv, StreamsOK, Set, writer, Carried, Pending
<1>3. Order(c)'
  BY <1>0, <1>2, OrderKept
<1>4. Shape(c)'
  BY <1>0 DEF Return, StreamsInv, StreamsOK, Set, writer, Shape
<1> QED BY <1>1, <1>3, <1>4

-----------------------------------------------------------------------------
(* The theorems.                                                           *)

LEMMA Step == StreamsInv /\ [StreamNext]_streams => StreamsInv'
<1> SUFFICES ASSUME StreamsInv, [StreamNext]_streams PROVE StreamsInv'
  OBVIOUS
<1>1. ASSUME NEW c \in Channels, Local(c), Order(c)', Shape(c)' PROVE StreamsInv'
  <2>1. ASSUME NEW e \in Channels \ {c} PROVE Order(e)' /\ Shape(e)'
    <3>1. Order(e) /\ Shape(e) /\ Same(e)
      BY <1>1, <2>1 DEF StreamsInv, Local
    <3> QED BY <3>1, SameInv
  <2> QED BY <1>1, <2>1 DEF StreamsInv, Local
<1>2. CASE UNCHANGED streams
  <2>1. StreamsOK'
    BY <1>2 DEF streams, writer, reader, StreamsInv, StreamsOK
  <2>2. ASSUME NEW c \in Channels PROVE Order(c)' /\ Shape(c)'
    <3>1. Order(c) /\ Shape(c) /\ Same(c)
      BY <1>2, <2>2 DEF streams, writer, reader, StreamsInv, Same
    <3> QED BY <3>1, SameInv
  <2> QED BY <2>1, <2>2 DEF StreamsInv
<1>3. CASE Break
  <2>1. StreamsOK'
    BY <1>3 DEF Break, writer, reader, StreamsInv, StreamsOK
  <2>2. ASSUME NEW c \in Channels PROVE Order(c)' /\ Shape(c)'
    <3>1. Order(c) /\ Shape(c)
      BY <2>2 DEF StreamsInv
    <3>2. put'[c] = put[c] /\ Carried(c)' = Carried(c) /\ link' = "down"
      BY <1>3 DEF Break, writer, reader, Carried
    <3>3. Shape(c)'
      BY <1>3, <3>1 DEF Break, writer, reader, Shape
    <3> QED BY <3>1, <3>2, <3>3, OrderKept
  <2> QED BY <2>1, <2>2 DEF StreamsInv
<1>4. ASSUME NEW c \in Channels, WriterTurn(c) PROVE StreamsInv'
  <2>1. Local(c) /\ Order(c)' /\ Shape(c)'
    BY <1>4, write_exact_directOK, write_exact_copyOK, SendOK, SendFailsOK DEF WriterTurn
  <2> QED BY <1>1, <2>1
<1>5. ASSUME NEW c \in Channels, ReaderTurn(c) PROVE StreamsInv'
  <2>1. Local(c) /\ Order(c)' /\ Shape(c)'
    BY <1>5, read_exact_copyOK, read_exact_directOK, read_exact_direct_eofOK, read_exact_fillOK,
       ReceiveFailsOK DEF ReaderTurn
  <2> QED BY <1>1, <2>1
<1>6. ASSUME NEW c \in Channels, Flush(c) \/ Return(c) PROVE StreamsInv'
  BY <1>1, <1>6, FlushOK, ReturnOK
<1>7. ASSUME NEW c \in Channels, NEW d \in Seq(Byte), WriteExact(c, d) PROVE StreamsInv'
  BY <1>1, <1>7, WriteExactOK
<1>8. ASSUME NEW c \in Channels, NEW n \in Nat, ReadExact(c, n) PROVE StreamsInv'
  BY <1>1, <1>8, ReadExactOK
<1> QED BY <1>2, <1>3, <1>4, <1>5, <1>6, <1>7, <1>8 DEF StreamNext

LEMMA Invariant == StreamSpec => []StreamsInv
BY InitOK, Step, PTL DEF StreamSpec

\* However the loops of write_exact, flush and read_exact interleave, whatever
\* send and recv return, and wherever the connection breaks: no byte is lost,
\* repeated or overtaken, for every buffer size and every data.
THEOREM StreamsLoseNothing == StreamSpec => []NothingLost
<1>1. StreamsInv => NothingLost
  <2> SUFFICES ASSUME StreamsInv, NEW c \in Channels
               PROVE  /\ \E n \in 0..Len(put[c]) : Carried(c) = First(put[c], n)
                      /\ link = "up" => put[c] = Carried(c) \o Pending(c)
    BY DEF NothingLost
  <2>1. TypesAt(c) /\ Order(c)
    BY Types
  <2>2. Carried(c) \in Seq(Byte)
    BY <2>1 DEF TypesAt
  <2>3. PICK rest \in Seq(Byte) : put[c] = Carried(c) \o rest
    BY <2>1 DEF Order
  <2>4. /\ Len(Carried(c)) \in 0..Len(Carried(c) \o rest)
        /\ First(Carried(c) \o rest, Len(Carried(c))) = Carried(c)
    BY <2>2, FirstOfConcat
  <2> QED BY <2>1, <2>3, <2>4 DEF Order
<1> QED BY <1>1, Invariant, PTL

\* The turns of write_exact and read_exact never fill more than their buffers
\* or write past the memory of the caller, for every buffer size and length.
THEOREM StreamsStayWithinBuffers == StreamSpec => []WithinBuffers
<1>1. StreamsInv => WithinBuffers
  BY DEF StreamsInv, Shape, WithinBuffers
<1> QED BY <1>1, Invariant, PTL
=============================================================================
