------------------------------ MODULE ByteQueue -------------------------------
(* What DataWriter, the socket and DataReader promise together, in one      *)
(* direction: the bytes handed to write_exact come out of read_exact in the *)
(* order they went in, none twice and none left out, and each call of       *)
(* read_exact returns exactly as many as it was asked for.                  *)
EXTENDS Integers, Sequences

VARIABLES put, got, asked

Init == put = << >> /\ got = << >> /\ asked = 0

Put ==
  /\ Len(put') >= Len(put) /\ SubSeq(put', 1, Len(put)) = put
  /\ UNCHANGED <<got, asked>>

Ask ==
  /\ asked = 0 /\ asked' \in Nat
  /\ UNCHANGED <<put, got>>

Get ==
  /\ asked > 0 /\ Len(got) + asked <= Len(put)
  /\ got' = SubSeq(put, 1, Len(got) + asked)
  /\ asked' = 0
  /\ UNCHANGED put

Spec == Init /\ [][Put \/ Ask \/ Get]_<<put, got, asked>>
=============================================================================
