------------------------- MODULE RequestChannelProofs -------------------------
(***************************************************************************)
(* Proofs about RequestChannel, for any number of threads, any requests,   *)
(* any number of calls and directories of any size.                        *)
(***************************************************************************)
EXTENDS RequestChannel, TLAPS

-----------------------------------------------------------------------------
(* The inductive invariant.                                                *)

\* Each RequestType among the fields s belongs to a thread.
Owned(s) == \A i \in 1..Len(s) : s[i].kind = "type" => s[i].of \in Threads

\* What the types rest on, whether or not a request was cut short: each
\* RequestType belongs to a thread, and a thread that reads expects a field.
Typed ==
  /\ Owned(writer) /\ Owned(to_daemon)
  /\ daemon = "reading" => asker \in Threads
  /\ \A t \in Threads : pc[t] = "receive" => result # << >>

\* s begins like fields of the given kinds that belong to t.
PartOf(s, kinds, t) ==
  /\ Len(s) <= Len(kinds)
  /\ \A i \in 1..Len(s) : s[i] = [kind |-> kinds[i], of |-> t]

\* s is what is in flight of fields of the given kinds that belong to t: all of
\* them, or what is left of them once the link is down.
InFlight(s, kinds, t) ==
  PartOf(s, kinds, t) /\ (link = "up" => Len(s) = Len(kinds))

\* The daemon has not executed the request of t yet: t waits for it, or gave up
\* when the link broke.
Outstanding(t) ==
  \/ /\ request_mutex = t /\ pc[t] = "receive" /\ ~executed[t]
     /\ result = <<"status">> /\ to_client = << >>
  \/ link = "down" /\ pc[t] = "failed"

\* The stream of requests holds the rest of one request that is outstanding.
RequestsInv ==
  /\ daemon = "ready" /\ to_daemon # << >> =>
       \E t \in Threads :
         Outstanding(t) /\ InFlight(to_daemon, <<"type">> \o write_args(req[t].type), t)
  /\ daemon = "reading" => Outstanding(asker) /\ InFlight(to_daemon, args, asker)

\* The fields in flight to t are what it still reads.
Answered(t) ==
  \/ /\ result = <<"status">>
     /\ \E status \in {"Success", "Failure"}, n \in 0..MaxEntries :
          InFlight(to_client, Reply(req[t].type, status, n), t)
  \/ /\ result = <<"entry">> /\ req[t].type = "ListDirectory"
     /\ \E n \in 0..MaxEntries : InFlight(to_client, write_result("ListDirectory", n), t)
  \/ /\ \A i \in 1..Len(result) : result[i] \in {"stat", "u32", "u64", "data"}
     /\ InFlight(to_client, result, t)

\* The stream of responses holds the rest of one response, to the thread that
\* waits for it, and then the stream of requests is empty.
ResponsesInv ==
  to_client # << >> =>
    /\ request_mutex \in Threads /\ pc[request_mutex] = "receive"
    /\ executed[request_mutex] /\ Answered(request_mutex)
    /\ to_daemon = << >> /\ daemon # "reading"

\* While the link is up a thread that waits has its request or its answer under
\* way, and nothing is left of what others wrote.
UpInv ==
  link = "up" =>
    /\ writer = << >> /\ daemon # "stopped"
    /\ \A t \in Threads : pc[t] = "receive" =>
         IF executed[t] THEN to_client # << >> ELSE to_daemon # << >> \/ daemon = "reading"

ConnectedInv ==
  /\ daemon # "handshake"
  /\ \A t \in Threads : pc[t] \in {"lock", "send"} => ~executed[t]
  /\ RequestsInv /\ ResponsesInv /\ UpInv

Magic == <<[kind |-> "magic", of |-> NoThread]>>

\* Before the handshake is over no thread runs, and the magic number is on its
\* way or lost.
HandshakeInv ==
  /\ ~poisoned /\ request_mutex = NoThread /\ writer = << >>
  /\ \A t \in Threads : pc[t] = "idle"
  /\ daemon = "stopped" => link = "down"
  /\ \/ client = "new" /\ daemon \in {"handshake", "stopped"} /\ to_daemon = << >> /\ to_client = << >>
     \/ /\ client \in {"handshake", "refused"} /\ daemon = "handshake" /\ to_client = << >>
        /\ to_daemon = Magic \/ (to_daemon = << >> /\ link = "down")
     \/ /\ client \in {"handshake", "refused"} /\ daemon \in {"ready", "stopped"} /\ to_daemon = << >>
        /\ to_client = Magic \/ (to_client = << >> /\ link = "down")
  /\ client = "refused" => link = "down" /\ to_client = << >>

TypeInv == TypeOK /\ MutexHeld /\ Typed

ChannelInv ==
  /\ TypeInv
  /\ client # "connected" => HandshakeInv
  /\ client = "connected" /\ ~poisoned => ConnectedInv

-----------------------------------------------------------------------------
(* Sequences of fields.                                                    *)

LEMMA SeqMonotonic ==
  ASSUME NEW S, NEW T, S \subseteq T
  PROVE  Seq(S) \subseteq Seq(T)
OBVIOUS

LEMMA NoFieldsLeft ==
  ASSUME NEW S, NEW s \in Seq(S)
  PROVE  Len(s) \in Nat /\ (s = << >> <=> Len(s) = 0)
OBVIOUS

LEMMA FirstField ==
  ASSUME NEW S, NEW s \in Seq(S), s # << >>
  PROVE  /\ Head(s) = s[1] /\ Head(s) \in S /\ Tail(s) \in Seq(S) /\ Len(s) >= 1
         /\ Len(Tail(s)) = Len(s) - 1 /\ \A i \in 1..Len(Tail(s)) : Tail(s)[i] = s[i + 1]
OBVIOUS

LEMMA Joined ==
  ASSUME NEW S, NEW s \in Seq(S), NEW u \in Seq(S)
  PROVE  /\ s \o u \in Seq(S) /\ Len(s \o u) = Len(s) + Len(u)
         /\ \A i \in 1..Len(s \o u) : (s \o u)[i] = IF i <= Len(s) THEN s[i] ELSE u[i - Len(s)]
OBVIOUS

LEMMA Prefix ==
  ASSUME NEW S, NEW s \in Seq(S), NEW n \in 0..Len(s)
  PROVE  /\ SubSeq(s, 1, n) \in Seq(S) /\ Len(SubSeq(s, 1, n)) = n
         /\ \A i \in 1..n : SubSeq(s, 1, n)[i] = s[i]
OBVIOUS

LEMMA HeadTailOfJoined ==
  ASSUME NEW S, NEW s \in Seq(S), NEW e \in S
  PROVE  Head(<<e>> \o s) = e /\ Tail(<<e>> \o s) = s
<1>1. <<e>> \in Seq(S) /\ Len(<<e>>) = 1 /\ <<e>>[1] = e
  OBVIOUS
<1>2. /\ <<e>> \o s \in Seq(S) /\ Len(<<e>> \o s) = 1 + Len(s) /\ Len(s) \in Nat
      /\ \A i \in 1..Len(<<e>> \o s) : (<<e>> \o s)[i] = IF i <= 1 THEN <<e>>[i] ELSE s[i - 1]
  BY <1>1, Joined
<1>3. /\ <<e>> \o s # << >> /\ Head(<<e>> \o s) = (<<e>> \o s)[1] /\ Tail(<<e>> \o s) \in Seq(S)
      /\ Len(Tail(<<e>> \o s)) = Len(s)
      /\ \A i \in 1..Len(s) : Tail(<<e>> \o s)[i] = (<<e>> \o s)[i + 1]
  BY <1>2, FirstField
<1>4. \A i \in 1..Len(s) : Tail(<<e>> \o s)[i] = s[i]
  BY <1>2, <1>3
<1> QED
  BY <1>1, <1>2, <1>3, <1>4

\* The first field read of what is in flight is of the first kind, and the rest
\* is in flight still.
LEMMA PartOfTail ==
  ASSUME NEW S, NEW s \in Seq(S), NEW K, NEW kinds \in Seq(K), NEW t, PartOf(s, kinds, t), s # << >>
  PROVE  /\ kinds # << >> /\ Head(s) = [kind |-> Head(kinds), of |-> t]
         /\ PartOf(Tail(s), Tail(kinds), t)
         /\ Len(s) = Len(kinds) => Len(Tail(s)) = Len(Tail(kinds))
<1>1. /\ Head(s) = s[1] /\ Len(s) \in Nat /\ Len(s) >= 1 /\ Len(Tail(s)) = Len(s) - 1
      /\ \A i \in 1..Len(Tail(s)) : Tail(s)[i] = s[i + 1]
  BY FirstField
<1>2. kinds # << >> /\ Len(kinds) \in Nat
  BY <1>1 DEF PartOf
<1>3. /\ Head(kinds) = kinds[1] /\ Len(Tail(kinds)) = Len(kinds) - 1
      /\ \A i \in 1..Len(Tail(kinds)) : Tail(kinds)[i] = kinds[i + 1]
  BY <1>2, FirstField
<1>4. Head(s) = [kind |-> Head(kinds), of |-> t]
  BY <1>1, <1>3 DEF PartOf
<1>5. PartOf(Tail(s), Tail(kinds), t)
  <2>1. \A i \in 1..Len(Tail(s)) : i \in 1..Len(Tail(kinds)) /\ i + 1 \in 1..Len(s)
    BY <1>1, <1>2, <1>3 DEF PartOf
  <2> QED
    BY <1>1, <1>2, <1>3, <2>1 DEF PartOf
<1> QED
  BY <1>1, <1>2, <1>3, <1>4, <1>5

LEMMA PartOfPrefix ==
  ASSUME NEW S, NEW s \in Seq(S), NEW K, NEW kinds \in Seq(K), NEW t, PartOf(s, kinds, t),
         NEW n \in 0..Len(s)
  PROVE  PartOf(SubSeq(s, 1, n), kinds, t)
BY Prefix DEF PartOf

LEMMA FieldsTyped ==
  ASSUME NEW K, NEW kinds \in Seq(K), NEW t
  PROVE  /\ Fields(kinds, t) \in Seq([kind : K, of : {t}])
         /\ Len(Fields(kinds, t)) = Len(kinds) /\ PartOf(Fields(kinds, t), kinds, t)
<1>1. Len(kinds) \in Nat /\ \A i \in 1..Len(kinds) : kinds[i] \in K
  OBVIOUS
<1>2. \A i \in 1..Len(kinds) : [kind |-> kinds[i], of |-> t] \in [kind : K, of : {t}]
  BY <1>1
<1>3. /\ Fields(kinds, t) \in Seq([kind : K, of : {t}])
      /\ Len(Fields(kinds, t)) = Len(kinds)
      /\ \A i \in 1..Len(kinds) : Fields(kinds, t)[i] = [kind |-> kinds[i], of |-> t]
  BY <1>1, <1>2 DEF Fields
<1> QED
  BY <1>1, <1>3 DEF PartOf

-----------------------------------------------------------------------------
(* Layouts.                                                                *)

LEMMA ShortSeqs ==
  ASSUME NEW S
  PROVE  /\ << >> \in Seq(S) /\ \A a \in S : <<a>> \in Seq(S)
         /\ \A a, b \in S : <<a, b>> \in Seq(S)
         /\ \A a, b, c \in S : <<a, b, c>> \in Seq(S)
         /\ \A a, b, c, d \in S : <<a, b, c, d>> \in Seq(S)
OBVIOUS

LEMMA ArgsTyped ==
  ASSUME NEW type \in RequestType
  PROVE  write_args(type) \in Seq(ArgKinds)
<1> DEFINE layouts == {<< >>, <<"string">>, <<"string", "string", "byte">>, <<"string", "byte">>,
             <<"u32">>, <<"u32", "u32", "u64">>, <<"u32", "u64", "u32", "data">>, <<"u32", "u64">>,
             <<"string", "u64", "u64">>}
<1>1. write_args(type) \in layouts
  BY DEF write_args
<1>2. layouts \subseteq Seq(ArgKinds)
  <2>1. {"string", "byte", "u32", "u64", "data"} \subseteq ArgKinds
    BY DEF ArgKinds
  <2> HIDE DEF ArgKinds
  <2>2. << >> \in Seq(ArgKinds) /\ <<"string">> \in Seq(ArgKinds) /\ <<"u32">> \in Seq(ArgKinds)
    BY <2>1, ShortSeqs
  <2>3. <<"string", "byte">> \in Seq(ArgKinds) /\ <<"u32", "u64">> \in Seq(ArgKinds)
    BY <2>1, ShortSeqs
  <2>4. <<"string", "string", "byte">> \in Seq(ArgKinds) /\ <<"u32", "u32", "u64">> \in Seq(ArgKinds)
    BY <2>1, ShortSeqs
  <2>5. <<"string", "u64", "u64">> \in Seq(ArgKinds) /\ <<"u32", "u64", "u32", "data">> \in Seq(ArgKinds)
    BY <2>1, ShortSeqs
  <2> QED
    BY <2>2, <2>3, <2>4, <2>5
<1> QED
  BY <1>1, <1>2

\* ClientHandler reads the arguments as Connection writes them, except for the
\* data of a write that cannot seek.
LEMMA ArgsAgree ==
  ASSUME NEW r \in Request, ~DataSkipped(r)
  PROVE  read_args(r) = write_args(r.type)
BY DEF write_args, read_args, PathRequests, DataSkipped, Request, RequestType

LEMMA ReadArgsTyped ==
  ASSUME NEW r \in Request
  PROVE  read_args(r) \in Seq(ArgKinds)
<1>1. CASE ~DataSkipped(r)
  BY <1>1, ArgsAgree, ArgsTyped DEF Request
<1>2. CASE DataSkipped(r)
  <2>1. read_args(r) = <<"u32", "u64", "u32">> \o << >>
    BY <1>2 DEF read_args, DataSkipped, PathRequests
  <2>2. <<"u32", "u64", "u32">> \in Seq(ArgKinds) /\ << >> \in Seq(ArgKinds)
    BY ShortSeqs DEF ArgKinds
  <2> QED
    BY <2>1, <2>2, Joined
<1> QED
  BY <1>1, <1>2

LEMMA ResultTyped ==
  ASSUME NEW type \in RequestType
  PROVE  read_result(type) \in Seq(ResultKinds)
<1>1. read_result(type) \in {<< >>, <<"stat">>, <<"entry">>, <<"u32">>, <<"u32", "data">>, <<"u64", "u64", "u64">>}
  BY DEF read_result
<1>2. {"stat", "entry", "u32", "u64", "data"} \subseteq ResultKinds
  BY DEF ResultKinds
<1> QED
  BY <1>1, <1>2, ShortSeqs

AnswerKinds == {"Success", "Failure", "stat", "entry", "NoMoreEntries", "u32", "u64", "data"}

LEMMA ListingTyped ==
  ASSUME NEW n \in Nat
  PROVE  /\ write_result("ListDirectory", n) \in Seq(AnswerKinds)
         /\ Len(write_result("ListDirectory", n)) = n + 1
         /\ \A i \in 1..(n + 1) : write_result("ListDirectory", n)[i] =
                                  IF i <= n THEN "entry" ELSE "NoMoreEntries"
<1> DEFINE l == [i \in 1..(n + 1) |-> IF i <= n THEN "entry" ELSE "NoMoreEntries"]
<1>1. write_result("ListDirectory", n) = l
  BY DEF write_result
<1>2. l \in Seq(AnswerKinds) /\ Len(l) = n + 1
  <2>1. \A i \in 1..(n + 1) : (IF i <= n THEN "entry" ELSE "NoMoreEntries") \in AnswerKinds
    BY DEF AnswerKinds
  <2> QED
    BY <2>1
<1> QED
  BY <1>1, <1>2

\* But for a listing, Connection reads the result as ClientHandler writes it.
LEMMA ResultsAgree ==
  ASSUME NEW type \in RequestType, type # "ListDirectory", NEW n
  PROVE  /\ write_result(type, n) = read_result(type)
         /\ read_result(type) \in Seq({"stat", "u32", "u64", "data"})
<1>1. write_result(type, n) = read_result(type)
  BY DEF write_result, read_result, RequestType
<1>2. read_result(type) \in {<< >>, <<"stat">>, <<"u32">>, <<"u32", "data">>, <<"u64", "u64", "u64">>}
  BY DEF read_result
<1> QED
  BY <1>1, <1>2, ShortSeqs

LEMMA ResultWritten ==
  ASSUME NEW type \in RequestType, NEW n \in Nat
  PROVE  write_result(type, n) \in Seq(AnswerKinds)
<1>1. CASE type = "ListDirectory"
  BY <1>1, ListingTyped
<1>2. CASE type # "ListDirectory"
  BY <1>2, ResultsAgree, SeqMonotonic DEF AnswerKinds
<1> QED
  BY <1>1, <1>2

LEMMA ReplyTyped ==
  ASSUME NEW type \in RequestType, NEW status \in {"Success", "Failure"}, NEW n \in Nat
  PROVE  Reply(type, status, n) \in Seq(AnswerKinds)
<1>1. write_result(type, n) \in Seq(AnswerKinds)
  BY ResultWritten
<1>2. <<status>> \in Seq(AnswerKinds) /\ << >> \in Seq(AnswerKinds)
  BY DEF AnswerKinds
<1> QED
  BY <1>1, <1>2, Joined DEF Reply

-----------------------------------------------------------------------------
(* Types and the mutex.                                                    *)

LEMMA OwnedSeqs ==
  ASSUME NEW s \in Seq(Field), Owned(s)
  PROVE  /\ s # << >> => Tail(s) \in Seq(Field) /\ Owned(Tail(s))
         /\ \A u \in Seq(Field) : Owned(u) => s \o u \in Seq(Field) /\ Owned(s \o u)
         /\ \A n \in 0..Len(s) : SubSeq(s, 1, n) \in Seq(Field) /\ Owned(SubSeq(s, 1, n))
<1>0. Len(s) \in Nat
  OBVIOUS
<1>1. s # << >> => Tail(s) \in Seq(Field) /\ Owned(Tail(s))
  BY <1>0, FirstField DEF Owned
<1>2. ASSUME NEW u \in Seq(Field), Owned(u) PROVE s \o u \in Seq(Field) /\ Owned(s \o u)
  BY <1>0, <1>2, Joined DEF Owned
<1>3. ASSUME NEW n \in 0..Len(s) PROVE SubSeq(s, 1, n) \in Seq(Field) /\ Owned(SubSeq(s, 1, n))
  BY <1>0, Prefix DEF Owned
<1> QED
  BY <1>1, <1>2, <1>3

LEMMA OwnedPart ==
  ASSUME NEW s, NEW kinds, NEW t \in Threads, PartOf(s, kinds, t)
  PROVE  Owned(s)
<1> SUFFICES ASSUME NEW i \in 1..Len(s) PROVE s[i].of = t
  BY DEF Owned
<1>1. s[i] = [kind |-> kinds[i], of |-> t]
  BY DEF PartOf
<1> QED
  BY <1>1

\* The fields a thread writes.
LEMMA MessageTyped ==
  ASSUME TypeInv, NEW t \in Threads
  PROVE  /\ Message(t) \in Seq(Field) /\ Owned(Message(t))
         /\ Fields(<<"type">>, t) \in Seq(Field) /\ Owned(Fields(<<"type">>, t))
<1>1. /\ <<"type">> \in Seq(Kinds) /\ <<"type">> \o write_args(req[t].type) \in Seq(Kinds)
  <2>1. write_args(req[t].type) \in Seq(Kinds)
    BY ArgsTyped, RequestsAssumption, SeqMonotonic DEF TypeInv, TypeOK, Request, ArgKinds, Kinds
  <2>2. <<"type">> \in Seq(Kinds)
    BY DEF Kinds
  <2> QED
    BY <2>1, <2>2, Joined
<1>2. ASSUME NEW kinds \in Seq(Kinds)
      PROVE  Fields(kinds, t) \in Seq(Field) /\ Owned(Fields(kinds, t))
  <2>1. Fields(kinds, t) \in Seq([kind : Kinds, of : {t}]) /\ PartOf(Fields(kinds, t), kinds, t)
    BY FieldsTyped
  <2>2. [kind : Kinds, of : {t}] \subseteq Field
    BY DEF Field
  <2>3. Fields(kinds, t) \in Seq(Field)
    BY <2>1, <2>2, SeqMonotonic
  <2>4. Owned(Fields(kinds, t))
    BY <2>1, OwnedPart
  <2> QED
    BY <2>3, <2>4
<1> QED
  BY <1>1, <1>2 DEF Message

\* The fields the daemon writes.
LEMMA ReplyFieldsTyped ==
  ASSUME TypeInv, daemon = "reading", NEW status \in {"Success", "Failure"}, NEW n \in 0..MaxEntries
  PROVE  Fields(Reply(req[asker].type, status, n), asker) \in Seq(Field)
<1>1. asker \in Threads /\ req[asker].type \in RequestType /\ n \in Nat
  BY RequestsAssumption, BoundsAssumption DEF TypeInv, TypeOK, Typed, Request
<1>2. Reply(req[asker].type, status, n) \in Seq(Kinds)
  <2>1. AnswerKinds \subseteq Kinds
    BY DEF AnswerKinds, Kinds
  <2>2. Reply(req[asker].type, status, n) \in Seq(AnswerKinds)
    BY <1>1, ReplyTyped
  <2> QED
    BY <2>1, <2>2, SeqMonotonic
<1>3. [kind : Kinds, of : {asker}] \subseteq Field
  BY <1>1 DEF Field
<1>4. Seq([kind : Kinds, of : {asker}]) \subseteq Seq(Field)
  BY <1>3, SeqMonotonic
<1> QED
  BY <1>2, <1>4, FieldsTyped

LEMMA CarriedTyped ==
  ASSUME NEW s \in Seq(Field)
  PROVE  Carried(s) \in Seq(Field) /\ (Owned(s) => Owned(Carried(s)))
BY DEF Carried, Owned

LEMMA NoFields == << >> \in Seq(Field) /\ Owned(<< >>)
BY DEF Owned

LEMMA TypesInit == Init => TypeInv
<1> SUFFICES ASSUME Init PROVE TypeInv
  OBVIOUS
<1> USE NoThreadAssumption
<1>1. req \in [Threads -> Requests] /\ calls \in [Threads -> 0..MaxCalls]
  BY RequestsAssumption, BoundsAssumption DEF Init
<1>2. TypeOK
  BY <1>1, NoFields, ShortSeqs DEF Init, TypeOK
<1>3. MutexHeld /\ Typed
  BY NoFields DEF Init, MutexHeld, Typed
<1> QED
  BY <1>2, <1>3 DEF TypeInv

LEMMA TypesNext ==
  ASSUME TypeInv, [Next]_vars
  PROVE  TypeInv'
<1> USE NoThreadAssumption DEF threads
<1>1. CASE handshake
  <2>1. Fields(<<"magic">>, NoThread) \in Seq(Field) /\ Owned(Fields(<<"magic">>, NoThread))
    BY DEF Fields, Field, Kinds, Owned
  <2>2. to_daemon' \in Seq(Field) /\ Owned(to_daemon')
    BY <1>1, <2>1, CarriedTyped, OwnedSeqs DEF handshake, TypeInv, TypeOK, Typed
  <2> QED
    BY <1>1, <2>2 DEF handshake, TypeInv, TypeOK, MutexHeld, Typed
<1>2. CASE handshake_echo
  <2>1. to_daemon' \in Seq(Field) /\ Owned(to_daemon')
    BY <1>2, OwnedSeqs DEF handshake_echo, TypeInv, TypeOK, Typed
  <2>2. to_client' \in Seq(Field)
    BY <1>2, FirstField, CarriedTyped, Joined, ShortSeqs DEF handshake_echo, TypeInv, TypeOK
  <2> QED
    BY <1>2, <2>1, <2>2 DEF handshake_echo, TypeInv, TypeOK, MutexHeld, Typed
<1>3. CASE handshake_done
  <2>1. to_client' \in Seq(Field)
    <3>1. /\ to_client \in Seq(Field)
          /\ to_client' = to_client \/ (to_client # << >> /\ to_client' = Tail(to_client))
      BY <1>3 DEF handshake_done, TypeInv, TypeOK
    <3> QED
      BY <3>1, FirstField
  <2> QED
    BY <1>3, <2>1 DEF handshake_done, TypeInv, TypeOK, MutexHeld, Typed
<1>4. ASSUME NEW t \in Threads, NEW r \in Requests, Begin(t, r) PROVE TypeInv'
  BY <1>4, BoundsAssumption DEF Begin, Step, TypeInv, TypeOK, MutexHeld, Typed
<1>5. ASSUME NEW t \in Threads, Lock(t) PROVE TypeInv'
  BY <1>5 DEF Lock, Step, TypeInv, TypeOK, MutexHeld, Typed
<1>6. ASSUME NEW t \in Threads, Send(t) PROVE TypeInv'
  <2>1. to_daemon' \in Seq(Field) /\ Owned(to_daemon')
    BY <1>6, MessageTyped, CarriedTyped, OwnedSeqs DEF Send, TypeInv, TypeOK, Typed
  <2>2. result' \in Seq(ResultKinds) /\ result' # << >> /\ writer' \in Seq(Field) /\ Owned(writer')
    BY <1>6 DEF Send, ResultKinds, Owned
  <2> QED
    BY <1>6, <2>1, <2>2 DEF Send, Step, TypeInv, TypeOK, MutexHeld, Typed
<1>7. ASSUME NEW t \in Threads, SendTooLong(t) PROVE TypeInv'
  <2>1. writer' \in Seq(Field) /\ Owned(writer')
    BY <1>7, MessageTyped, OwnedSeqs DEF SendTooLong, TypeInv, TypeOK, Typed
  <2> QED
    BY <1>7, <2>1 DEF SendTooLong, Step, Unlock, TypeInv, TypeOK, MutexHeld, Typed
<1>8. ASSUME NEW t \in Threads, SendFails(t) PROVE TypeInv'
  <2>1. writer' \in Seq(Field) /\ Owned(writer')
    BY <1>8, MessageTyped, OwnedSeqs DEF SendFails, TypeInv, TypeOK, Typed
  <2> QED
    BY <1>8, <2>1 DEF SendFails, Step, Unlock, TypeInv, TypeOK, MutexHeld, Typed
<1>9. ASSUME NEW t \in Threads, Receive(t) PROVE TypeInv'
  <2>1. to_client' \in Seq(Field)
    BY <1>9, FirstField DEF Receive, TypeInv, TypeOK
  <2>2. result' \in Seq(ResultKinds)
    <3>1. read_result(req[t].type) \in Seq(ResultKinds)
      BY ResultTyped, RequestsAssumption DEF TypeInv, TypeOK, Request
    <3>2. result \in Seq(ResultKinds) /\ result # << >> /\ Tail(result) \in Seq(ResultKinds)
      BY <1>9, FirstField DEF Receive, TypeInv, TypeOK, Typed
    <3> QED
      BY <1>9, <3>1, <3>2, ShortSeqs DEF Receive, Received
  <2>3. CASE result' = << >>
    BY <1>9, <2>1, <2>2, <2>3 DEF Receive, Step, Unlock, TypeInv, TypeOK, MutexHeld, Typed
  <2>4. CASE result' # << >>
    BY <1>9, <2>1, <2>2, <2>4 DEF Receive, TypeInv, TypeOK, MutexHeld, Typed
  <2> QED
    BY <2>3, <2>4
<1>10. ASSUME NEW t \in Threads, ReceiveEOF(t) PROVE TypeInv'
  BY <1>10 DEF ReceiveEOF, Step, Unlock, TypeInv, TypeOK, MutexHeld, Typed
<1>11. CASE ReadType
  <2>1. to_daemon' \in Seq(Field) /\ Owned(to_daemon')
    BY <1>11, OwnedSeqs DEF ReadType, TypeInv, TypeOK, Typed
  <2>2. asker' \in Threads
    <3>1. Head(to_daemon) = to_daemon[1] /\ 1 \in 1..Len(to_daemon)
      BY <1>11, FirstField DEF ReadType, TypeInv, TypeOK
    <3> QED
      BY <1>11, <3>1 DEF ReadType, TypeInv, Typed, Owned
  <2>3. args' \in Seq(ArgKinds)
    BY <1>11, <2>2, ReadArgsTyped, RequestsAssumption DEF ReadType, TypeInv, TypeOK
  <2> QED
    BY <1>11, <2>1, <2>2, <2>3 DEF ReadType, DataSkipped, TypeInv, TypeOK, MutexHeld, Typed
<1>12. CASE ReadArg
  <2>1. to_daemon' \in Seq(Field) /\ Owned(to_daemon')
    BY <1>12, OwnedSeqs DEF ReadArg, TypeInv, TypeOK, Typed
  <2>2. args' \in Seq(ArgKinds)
    BY <1>12, FirstField DEF ReadArg, TypeInv, TypeOK
  <2> QED
    BY <1>12, <2>1, <2>2 DEF ReadArg, TypeInv, TypeOK, MutexHeld, Typed
<1>13. CASE Execute
  <2>1. to_client' \in Seq(Field)
    BY <1>13, ReplyFieldsTyped, CarriedTyped, Joined DEF Execute, Status, TypeInv, TypeOK
  <2> QED
    BY <1>13, <2>1 DEF Execute, TypeInv, TypeOK, MutexHeld, Typed
<1>14. CASE Garbled
  <2>1. to_daemon' \in Seq(Field) /\ Owned(to_daemon')
    <3>1. /\ to_daemon \in Seq(Field) /\ Owned(to_daemon) /\ to_daemon # << >>
          /\ to_daemon' = Tail(to_daemon) \/ to_daemon' = << >>
      BY <1>14 DEF Garbled, TypeInv, TypeOK, Typed
    <3> QED
      BY <3>1, OwnedSeqs, NoFields
  <2> QED
    BY <1>14, <2>1 DEF Garbled, TypeInv, TypeOK, MutexHeld, Typed
<1>15. CASE DaemonEOF
  BY <1>15 DEF DaemonEOF, TypeInv, TypeOK, MutexHeld, Typed
<1>16. CASE Disconnect
  <2>1. to_daemon' \in Seq(Field) /\ Owned(to_daemon')
    BY <1>16, OwnedSeqs DEF Disconnect, TypeInv, TypeOK, Typed
  <2>2. to_client' \in Seq(Field)
    BY <1>16, Prefix DEF Disconnect, TypeInv, TypeOK
  <2> QED
    BY <1>16, <2>1, <2>2 DEF Disconnect, TypeInv, TypeOK, MutexHeld, Typed
<1>17. CASE UNCHANGED vars
  BY <1>17 DEF vars, TypeInv, TypeOK, MutexHeld, Typed, Owned
<1> QED
  BY <1>1, <1>2, <1>3, <1>4, <1>5, <1>6, <1>7, <1>8, <1>9, <1>10, <1>11, <1>12, <1>13, <1>14,
     <1>15, <1>16, <1>17 DEF Next, Thread, Daemon

-----------------------------------------------------------------------------
(* The handshake.                                                          *)

LEMMA InvInit == Init => ChannelInv
BY TypesInit DEF Init, ChannelInv, HandshakeInv

LEMMA HandshakeNext ==
  ASSUME ChannelInv, [Next]_vars, client # "connected"
  PROVE  /\ client' # "connected" => HandshakeInv'
         /\ client' = "connected" => ConnectedInv'
<1>0. TypeInv /\ HandshakeInv
  BY DEF ChannelInv
<1> USE NoThreadAssumption DEF threads
<1>1. Tail(Magic) = << >> /\ Head(Magic) = [kind |-> "magic", of |-> NoThread] /\ Magic # << >>
      /\ Fields(<<"magic">>, NoThread) = Magic /\ << >> \o Magic = Magic /\ <<Head(Magic)>> = Magic
      /\ << >> \o << >> = << >>
  BY DEF Magic, Fields
<1>2. CASE handshake
  <2>1. Carried(Magic) = Magic \/ (Carried(Magic) = << >> /\ link = "down")
    BY <1>0 DEF Carried, TypeInv, TypeOK
  <2>2. to_daemon = << >> /\ to_daemon' = to_daemon \o Carried(Magic)
    BY <1>0, <1>1, <1>2 DEF handshake, HandshakeInv
  <2>3. to_daemon' = Magic \/ (to_daemon' = << >> /\ link = "down")
    BY <1>1, <2>1, <2>2
  <2>4. link = "down" => to_daemon' = << >>
    BY <1>1, <2>2 DEF Carried
  <2> QED
    BY <1>0, <1>2, <2>3, <2>4 DEF handshake, HandshakeInv
<1>3. CASE handshake_echo
  <2>1. /\ to_daemon = Magic /\ to_client = << >>
    BY <1>0, <1>3 DEF handshake_echo, HandshakeInv
  <2>2. Carried(Magic) = Magic \/ (Carried(Magic) = << >> /\ link = "down")
    BY <1>0 DEF Carried, TypeInv, TypeOK
  <2>3. to_client' = << >> \o Carried(Magic)
    BY <1>1, <1>3, <2>1 DEF handshake_echo
  <2>4. to_client' = Magic \/ (to_client' = << >> /\ link = "down")
    BY <1>1, <2>2, <2>3
  <2>5. link = "down" => to_client' = << >>
    BY <1>1, <2>3 DEF Carried
  <2> QED
    BY <1>0, <1>1, <1>3, <2>1, <2>4, <2>5 DEF handshake_echo, HandshakeInv
<1>4. CASE handshake_done
  <2>1. CASE client' = "refused"
    BY <1>0, <1>1, <1>4, <2>1 DEF handshake_done, HandshakeInv
  <2>2. CASE client' = "connected"
    <3>1. /\ daemon' \in {"ready", "stopped"} /\ to_daemon' = << >> /\ to_client' = << >>
          /\ writer' = << >> /\ (daemon' = "stopped" => link' = "down")
          /\ \A t \in Threads : pc'[t] = "idle"
      BY <1>0, <1>1, <1>4, <2>2 DEF handshake_done, HandshakeInv
    <3> QED
      BY <2>2, <3>1 DEF ConnectedInv, RequestsInv, ResponsesInv, UpInv
  <2> QED
    BY <1>4, <2>1, <2>2 DEF handshake_done
<1>5. ASSUME NEW t \in Threads, Thread(t) \/ \E r \in Requests : Begin(t, r) PROVE FALSE
  BY <1>0, <1>5 DEF HandshakeInv, Thread, Begin, Lock, Send, SendTooLong, SendFails, Receive, ReceiveEOF
<1>6. CASE ReadType \/ ReadArg \/ Execute \/ Garbled
  BY <1>0, <1>6 DEF HandshakeInv, ReadType, ReadArg, Execute, Garbled
<1>7. CASE DaemonEOF
  BY <1>0, <1>7 DEF DaemonEOF, HandshakeInv
<1>8. CASE Disconnect
  <2>1. ASSUME NEW n \in 0..Len(Magic) PROVE SubSeq(Magic, 1, n) = Magic \/ SubSeq(Magic, 1, n) = << >>
    <3>1. Magic \in Seq({Magic[1]}) /\ Len(Magic) = 1
      BY DEF Magic
    <3>2. n = 0 \/ n = Len(Magic)
      BY <3>1
    <3> QED
      BY <3>1, <3>2
  <2>2. ASSUME NEW n \in 0..Len(<< >>) PROVE SubSeq(<< >>, 1, n) = << >>
    OBVIOUS
  <2> QED
    BY <1>0, <1>8, <2>1, <2>2 DEF Disconnect, HandshakeInv
<1>9. CASE UNCHANGED vars
  BY <1>0, <1>9 DEF vars, HandshakeInv
<1> QED
  BY <1>2, <1>3, <1>4, <1>5, <1>6, <1>7, <1>8, <1>9 DEF Next, Daemon

-----------------------------------------------------------------------------
(* Steps of the threads, once connected, up to a request that is cut short. *)

LEMMA BeginNext ==
  ASSUME TypeInv, ConnectedInv, NEW t \in Threads, NEW r \in Requests, Begin(t, r)
  PROVE  ConnectedInv'
<1>1. /\ pc[t] = "idle" /\ request_mutex # t
      /\ UNCHANGED <<daemon, link, request_mutex, writer, to_daemon, to_client, args, asker, result>>
  BY DEF Begin, TypeInv, MutexHeld
<1>2. \A u \in Threads \ {t} : pc'[u] = pc[u] /\ req'[u] = req[u] /\ executed'[u] = executed[u]
  BY DEF Begin, Step, TypeInv, TypeOK
<1>3. pc'[t] = "lock" /\ ~executed'[t]
  BY DEF Begin, Step, TypeInv, TypeOK
<1>4. \A u \in Threads : Outstanding(u) => u # t /\ Outstanding(u)'
  BY <1>1, <1>2 DEF Outstanding
<1>5. RequestsInv'
  BY <1>1, <1>2, <1>4 DEF RequestsInv, ConnectedInv, InFlight, TypeInv, Typed
<1>6. ResponsesInv'
  BY <1>1, <1>2 DEF ResponsesInv, ConnectedInv, Answered, InFlight
<1>7. UpInv'
  BY <1>1, <1>2, <1>3 DEF UpInv, ConnectedInv
<1> QED
  BY <1>1, <1>2, <1>3, <1>5, <1>6, <1>7 DEF ConnectedInv

LEMMA LockNext ==
  ASSUME TypeInv, ConnectedInv, NEW t \in Threads, Lock(t)
  PROVE  ConnectedInv'
<1>1. /\ pc[t] = "lock" /\ request_mutex = NoThread
      /\ UNCHANGED <<daemon, link, req, writer, to_daemon, to_client, args, asker, result, executed>>
  BY DEF Lock
<1>2. pc'[t] = "send" /\ \A u \in Threads \ {t} : pc'[u] = pc[u]
  BY DEF Lock, Step, TypeInv, TypeOK
<1>3. \A u \in Threads : Outstanding(u) => Outstanding(u)'
  BY <1>1, <1>2, NoThreadAssumption DEF Outstanding
<1>4. to_client = << >>
  BY <1>1, NoThreadAssumption DEF ConnectedInv, ResponsesInv
<1>5. RequestsInv'
  BY <1>1, <1>3 DEF RequestsInv, ConnectedInv, InFlight, TypeInv, Typed
<1>6. ResponsesInv'
  BY <1>1, <1>4 DEF ResponsesInv
<1>7. UpInv'
  BY <1>1, <1>2 DEF UpInv, ConnectedInv
<1> QED
  BY <1>1, <1>2, <1>5, <1>6, <1>7 DEF ConnectedInv

LEMMA SendFailsNext ==
  ASSUME TypeInv, ConnectedInv, NEW t \in Threads, SendFails(t)
  PROVE  ConnectedInv'
<1>1. /\ pc[t] = "send" /\ request_mutex = t /\ link = "down"
      /\ UNCHANGED <<daemon, link, req, to_daemon, to_client, args, asker, result, executed>>
  BY DEF SendFails, TypeInv, MutexHeld
<1>2. pc'[t] = "failed" /\ \A u \in Threads \ {t} : pc'[u] = pc[u]
  BY DEF SendFails, Step, TypeInv, TypeOK
<1>3. \A u \in Threads : Outstanding(u) => Outstanding(u)'
  BY <1>1, <1>2 DEF Outstanding
<1>4. to_client = << >>
  BY <1>1 DEF ConnectedInv, ResponsesInv
<1>5. RequestsInv'
  BY <1>1, <1>3 DEF RequestsInv, ConnectedInv, InFlight, TypeInv, Typed
<1>6. ResponsesInv' /\ UpInv'
  BY <1>1, <1>4 DEF ResponsesInv, UpInv
<1> QED
  BY <1>1, <1>2, <1>5, <1>6 DEF ConnectedInv

LEMMA ReceiveEOFNext ==
  ASSUME TypeInv, ConnectedInv, NEW t \in Threads, ReceiveEOF(t)
  PROVE  ConnectedInv'
<1>1. /\ pc[t] = "receive" /\ request_mutex = t /\ link = "down" /\ to_client = << >>
      /\ UNCHANGED <<daemon, link, req, to_daemon, to_client, args, asker, executed>>
  BY DEF ReceiveEOF, TypeInv, MutexHeld
<1>2. pc'[t] = "failed" /\ \A u \in Threads \ {t} : pc'[u] = pc[u]
  BY DEF ReceiveEOF, Step, TypeInv, TypeOK
<1>3. \A u \in Threads : Outstanding(u) => Outstanding(u)'
  BY <1>1, <1>2 DEF Outstanding
<1>4. RequestsInv'
  BY <1>1, <1>3 DEF RequestsInv, ConnectedInv, InFlight, TypeInv, Typed
<1>5. ResponsesInv' /\ UpInv'
  BY <1>1 DEF ResponsesInv, UpInv
<1> QED
  BY <1>1, <1>2, <1>4, <1>5 DEF ConnectedInv

LEMMA SendNext ==
  ASSUME TypeInv, ConnectedInv, NEW t \in Threads, Send(t)
  PROVE  ConnectedInv'
<1>1. /\ pc[t] = "send" /\ request_mutex = t /\ ~executed[t] /\ result' = <<"status">> /\ writer' = << >>
      /\ UNCHANGED <<daemon, link, request_mutex, req, to_client, args, asker, executed>>
  BY DEF Send, TypeInv, MutexHeld, ConnectedInv
<1>2. pc'[t] = "receive" /\ \A u \in Threads \ {t} : pc'[u] = pc[u] /\ pc[u] # "receive"
  BY <1>1 DEF Send, Step, TypeInv, TypeOK, MutexHeld
<1>3. to_client = << >>
  BY <1>1 DEF ConnectedInv, ResponsesInv
<1>4. \A u \in Threads : Outstanding(u) => Outstanding(u)' /\ link = "down"
  BY <1>1, <1>2 DEF Outstanding
<1>5. CASE link = "down"
  <2>1. to_daemon' = to_daemon
    BY <1>5 DEF Send, Carried, TypeInv, TypeOK
  <2>2. RequestsInv'
    BY <1>1, <1>4, <2>1 DEF RequestsInv, ConnectedInv, InFlight, TypeInv, Typed
  <2>3. ResponsesInv' /\ UpInv'
    BY <1>1, <1>3, <1>5 DEF ResponsesInv, UpInv
  <2> QED
    BY <1>1, <1>2, <2>2, <2>3 DEF ConnectedInv
<1>6. CASE link = "up"
  <2>1. /\ daemon = "ready" /\ to_daemon = << >> /\ writer = << >>
    BY <1>4, <1>6 DEF ConnectedInv, RequestsInv, UpInv, TypeInv, TypeOK, Typed
  <2>2. to_daemon' = Message(t)
    BY <1>6, <2>1, MessageTyped DEF Send, Carried
  <2> DEFINE kinds == <<"type">> \o write_args(req[t].type)
  <2>3. kinds \in Seq(Kinds) /\ Len(kinds) >= 1
    <3>1. write_args(req[t].type) \in Seq(Kinds)
      BY ArgsTyped, RequestsAssumption, SeqMonotonic DEF TypeInv, TypeOK, Request, ArgKinds, Kinds
    <3>2. <<"type">> \in Seq(Kinds) /\ Len(<<"type">>) = 1
      BY DEF Kinds
    <3> QED
      BY <3>1, <3>2, Joined
  <2>4. PartOf(to_daemon', kinds, t) /\ Len(to_daemon') = Len(kinds)
    BY <2>2, <2>3, FieldsTyped DEF Message
  <2>5. to_daemon' # << >>
    BY <2>3, <2>4
  <2>6. Outstanding(t)'
    BY <1>1, <1>2, <1>3 DEF Outstanding
  <2>7. InFlight(to_daemon, <<"type">> \o write_args(req[t].type), t)'
    BY <1>1, <2>4 DEF InFlight
  <2>8. RequestsInv'
    BY <1>1, <2>1, <2>6, <2>7 DEF RequestsInv
  <2>9. ResponsesInv' /\ UpInv'
    BY <1>1, <1>2, <1>3, <2>1, <2>5 DEF ResponsesInv, UpInv
  <2> QED
    BY <1>1, <1>2, <2>1, <2>8, <2>9 DEF ConnectedInv
<1> QED
  BY <1>5, <1>6 DEF TypeInv, TypeOK

\* What the answer to t consists of after its next field.
LEMMA ReceiveAnswer ==
  ASSUME TypeInv, ConnectedInv, NEW t \in Threads, Receive(t)
  PROVE  /\ result' = << >> => to_client' = << >>
         /\ result' # << >> => Answered(t)' /\ (link = "up" => to_client' # << >>)
<1>1. /\ pc[t] = "receive" /\ request_mutex = t /\ to_client # << >> /\ to_client \in Seq(Field)
      /\ to_client' = Tail(to_client) /\ result' = Received(t, Head(to_client).kind)
      /\ UNCHANGED <<link, req>> /\ Answered(t)
  BY DEF Receive, TypeInv, TypeOK, MutexHeld, ConnectedInv, ResponsesInv
<1>2. /\ to_client' \in Seq(Field) /\ Len(to_client') \in Nat
      /\ to_client' = << >> <=> Len(to_client') = 0
  <2>1. Tail(to_client) \in Seq(Field)
    BY <1>1, FirstField
  <2> QED
    BY <1>1, <2>1, NoFieldsLeft
<1>3. req[t].type \in RequestType
  BY RequestsAssumption DEF TypeInv, TypeOK, Request
<1>4. ASSUME NEW K, NEW kinds \in Seq(K), InFlight(to_client, kinds, t)
      PROVE  /\ Head(to_client).kind = Head(kinds) /\ kinds # << >>
             /\ Len(Tail(kinds)) \in Nat /\ Len(to_client') <= Len(Tail(kinds))
             /\ InFlight(to_client', Tail(kinds), t)
             /\ link = "up" => Len(to_client') = Len(Tail(kinds))
  <2>1. /\ kinds # << >> /\ Head(to_client) = [kind |-> Head(kinds), of |-> t]
        /\ PartOf(to_client', Tail(kinds), t)
        /\ Len(to_client) = Len(kinds) => Len(to_client') = Len(Tail(kinds))
    BY <1>1, <1>4, PartOfTail DEF InFlight
  <2>2. Len(Tail(kinds)) \in Nat
    BY <2>1, FirstField
  <2>3. link = "up" => Len(to_client') = Len(Tail(kinds))
    BY <1>4, <2>1 DEF InFlight
  <2>4. Head(to_client).kind = Head(kinds)
    BY <2>1
  <2> QED
    BY <2>1, <2>2, <2>3, <2>4 DEF InFlight, PartOf
<1>5. ASSUME result = <<"status">>, NEW status \in {"Success", "Failure"}, NEW n \in 0..MaxEntries,
             InFlight(to_client, Reply(req[t].type, status, n), t)
      PROVE  /\ result' = << >> => to_client' = << >>
             /\ result' # << >> => Answered(t)' /\ (link = "up" => to_client' # << >>)
  <2> DEFINE kinds == Reply(req[t].type, status, n)
             w == IF status = "Success" THEN write_result(req[t].type, n) ELSE << >>
  <2>0. n \in Nat
    BY BoundsAssumption
  <2>1. n \in Nat /\ kinds \in Seq(AnswerKinds)
    BY <1>3, <2>0, ReplyTyped
  <2>2. w \in Seq(AnswerKinds)
    BY <1>3, <2>1, ResultWritten, ShortSeqs
  <2>3. kinds = <<status>> \o w
    BY DEF Reply
  <2>4. Head(kinds) = status /\ Tail(kinds) = w
    BY <2>2, <2>3, HeadTailOfJoined DEF AnswerKinds
  <2> HIDE DEF kinds, w
  <2>5. /\ result' = Received(t, status) /\ InFlight(to_client', w, t)
        /\ Len(w) \in Nat /\ Len(to_client') <= Len(w) /\ (link = "up" => Len(to_client') = Len(w))
    BY <1>1, <1>4, <1>5, <2>1, <2>4 DEF kinds
  <2>6. CASE status = "Failure"
    <3>1. result' = << >> /\ Len(w) = 0
      BY <2>5, <2>6 DEF Received, w
    <3> QED
      BY <1>2, <2>5, <3>1
  <2>7. CASE status = "Success" /\ req[t].type = "ListDirectory"
    <3>1. result' = <<"entry">> /\ w = write_result("ListDirectory", n) /\ Len(w) = n + 1
      BY <2>1, <2>5, <2>7, ListingTyped DEF Received, read_result, w
    <3>2. InFlight(to_client, write_result("ListDirectory", n), t)'
      BY <1>1, <2>5, <3>1 DEF InFlight
    <3>3. Answered(t)'
      BY <1>1, <2>7, <3>1, <3>2 DEF Answered
    <3> QED
      BY <1>2, <2>1, <2>5, <3>1, <3>3
  <2>8. CASE status = "Success" /\ req[t].type # "ListDirectory"
    <3>1. result' = w /\ w \in Seq({"stat", "u32", "u64", "data"})
      BY <1>3, <2>5, <2>8, ResultsAgree DEF Received, w
    <3>2. /\ result' = << >> <=> Len(w) = 0
          /\ \A i \in 1..Len(w) : w[i] \in {"stat", "u32", "u64", "data"}
      BY <3>1
    <3>3. InFlight(to_client, result, t)'
      BY <1>1, <2>5, <3>1 DEF InFlight
    <3>4. Answered(t)'
      BY <3>1, <3>2, <3>3 DEF Answered
    <3> QED
      BY <1>2, <2>5, <3>2, <3>4
  <2> QED
    BY <2>6, <2>7, <2>8
<1>6. ASSUME result = <<"entry">>, req[t].type = "ListDirectory", NEW n \in 0..MaxEntries,
             InFlight(to_client, write_result("ListDirectory", n), t)
      PROVE  /\ result' = << >> => to_client' = << >>
             /\ result' # << >> => Answered(t)' /\ (link = "up" => to_client' # << >>)
  <2> DEFINE kinds == write_result("ListDirectory", n)
  <2>1. n \in Nat /\ kinds \in Seq(AnswerKinds) /\ Len(kinds) = n + 1
        /\ \A i \in 1..(n + 1) : kinds[i] = IF i <= n THEN "entry" ELSE "NoMoreEntries"
    BY BoundsAssumption, ListingTyped
  <2> HIDE DEF kinds
  <2>2. /\ Head(kinds) = (IF n > 0 THEN "entry" ELSE "NoMoreEntries") /\ kinds # << >>
        /\ Len(Tail(kinds)) = n /\ \A i \in 1..n : Tail(kinds)[i] = kinds[i + 1]
    BY <2>1, FirstField
  <2>3. /\ result' = Received(t, Head(kinds)) /\ Len(to_client') <= n
        /\ link = "up" => Len(to_client') = n
        /\ PartOf(to_client', Tail(kinds), t)
    BY <1>1, <1>4, <1>6, <2>1, <2>2 DEF kinds, InFlight
  <2>4. CASE n = 0
    BY <1>2, <1>6, <2>2, <2>3, <2>4 DEF Received
  <2>5. CASE n > 0
    <3> DEFINE left == write_result("ListDirectory", n - 1)
    <3>1. result' = <<"entry">>
      BY <1>6, <2>2, <2>3, <2>5 DEF Received
    <3>2. n - 1 \in 0..MaxEntries /\ n - 1 \in Nat
      BY <2>1, <2>5, BoundsAssumption
    <3>3. /\ Len(left) = (n - 1) + 1
          /\ \A i \in 1..((n - 1) + 1) : left[i] = IF i <= n - 1 THEN "entry" ELSE "NoMoreEntries"
      BY <3>2, ListingTyped
    <3> HIDE DEF left
    <3>4. Len(left) = n /\ \A i \in 1..n : left[i] = Tail(kinds)[i]
      BY <2>1, <2>2, <2>5, <3>3
    <3>5. InFlight(to_client', left, t)
      BY <1>2, <2>1, <2>2, <2>3, <3>4 DEF InFlight, PartOf
    <3>6. InFlight(to_client, write_result("ListDirectory", n - 1), t)'
      BY <1>1, <3>5 DEF InFlight, left
    <3>7. Answered(t)'
      BY <1>1, <1>6, <3>1, <3>2, <3>6 DEF Answered
    <3>8. n # 0 /\ result' # << >>
      BY <2>1, <2>5, <3>1
    <3> QED
      BY <1>2, <2>3, <3>7, <3>8
  <2> QED
    BY <2>1, <2>4, <2>5
<1>7. ASSUME \A i \in 1..Len(result) : result[i] \in {"stat", "u32", "u64", "data"},
             InFlight(to_client, result, t)
      PROVE  /\ result' = << >> => to_client' = << >>
             /\ result' # << >> => Answered(t)' /\ (link = "up" => to_client' # << >>)
  <2>1. result \in Seq(ResultKinds) /\ result # << >>
    BY <1>1 DEF TypeInv, TypeOK, Typed
  <2>2. /\ Head(result) \in {"stat", "u32", "u64", "data"} /\ Tail(result) \in Seq(ResultKinds)
        /\ \A i \in 1..Len(Tail(result)) : Tail(result)[i] \in {"stat", "u32", "u64", "data"}
    BY <1>7, <2>1, FirstField
  <2>3. result' = Tail(result)
    BY <1>1, <1>4, <1>7, <2>1, <2>2 DEF Received
  <2>4. InFlight(to_client', result', t) /\ Len(result') \in Nat /\ Len(to_client') <= Len(result')
        /\ (link = "up" => Len(to_client') = Len(result'))
    BY <1>4, <1>7, <2>1, <2>3
  <2>5. result' = << >> <=> Len(result') = 0
    BY <2>2, <2>3, NoFieldsLeft
  <2>6. InFlight(to_client, result, t)'
    BY <1>1, <2>4 DEF InFlight
  <2>7. Answered(t)'
    BY <2>2, <2>3, <2>6 DEF Answered
  <2> QED
    BY <1>2, <2>4, <2>5, <2>7
<1> QED
  BY <1>1, <1>5, <1>6, <1>7 DEF Answered

LEMMA ReceiveNext ==
  ASSUME TypeInv, ConnectedInv, NEW t \in Threads, Receive(t)
  PROVE  ConnectedInv'
<1>1. /\ pc[t] = "receive" /\ request_mutex = t /\ to_client # << >>
      /\ UNCHANGED <<daemon, link, req, writer, to_daemon, args, asker, executed>>
  BY DEF Receive, TypeInv, MutexHeld
<1>2. executed[t] /\ to_daemon = << >> /\ daemon # "reading"
  BY <1>1 DEF ConnectedInv, ResponsesInv
<1>3. \A u \in Threads \ {t} : pc'[u] = pc[u] /\ pc[u] # "receive"
  BY <1>1 DEF Receive, Step, TypeInv, TypeOK, MutexHeld
<1>4. IF result' = << >> THEN pc'[t] = "idle" ELSE pc'[t] = "receive" /\ request_mutex' = t
  BY <1>1 DEF Receive, Step, TypeInv, TypeOK
<1>5. /\ result' = << >> => to_client' = << >>
      /\ result' # << >> => Answered(t)' /\ (link = "up" => to_client' # << >>)
  BY ReceiveAnswer
<1>6. RequestsInv'
  BY <1>1, <1>2 DEF RequestsInv
<1>7. ResponsesInv'
  <2>1. CASE to_client' = << >>
    BY <2>1 DEF ResponsesInv
  <2>2. CASE to_client' # << >>
    <3>1. request_mutex' = t /\ pc'[t] = "receive" /\ Answered(t)'
      BY <1>4, <1>5, <2>2
    <3>2. Answered(request_mutex)'
      BY <3>1 DEF Answered, InFlight
    <3> QED
      BY <1>1, <1>2, <3>1, <3>2 DEF ResponsesInv
  <2> QED
    BY <2>1, <2>2
<1>8. UpInv'
  BY <1>1, <1>2, <1>3, <1>4, <1>5 DEF UpInv, ConnectedInv
<1> QED
  BY <1>1, <1>3, <1>4, <1>6, <1>7, <1>8 DEF ConnectedInv

LEMMA RequestTyped ==
  ASSUME NEW type \in RequestType
  PROVE  /\ write_args(type) \in Seq(Kinds) /\ <<"type">> \o write_args(type) \in Seq(Kinds)
         /\ Head(<<"type">> \o write_args(type)) = "type"
         /\ Tail(<<"type">> \o write_args(type)) = write_args(type)
<1>1. write_args(type) \in Seq(Kinds)
  BY ArgsTyped, SeqMonotonic DEF ArgKinds, Kinds
<1>2. "type" \in Kinds /\ <<"type">> \in Seq(Kinds)
  BY DEF Kinds
<1> QED
  BY <1>1, <1>2, HeadTailOfJoined, Joined

\* The daemon takes the RequestType for that of the request it belongs to, and
\* then expects the very fields that are in flight, unless it will skip some.
LEMMA ReadTypeNext ==
  ASSUME TypeInv, ConnectedInv, ReadType, ~poisoned'
  PROVE  ConnectedInv'
<1>1. /\ daemon = "ready" /\ to_daemon # << >> /\ daemon' = "reading" /\ to_daemon' = Tail(to_daemon)
      /\ UNCHANGED <<link, request_mutex, pc, req, writer, to_client, result, executed>>
  BY DEF ReadType, threads
<1>2. to_daemon \in Seq(Field)
  BY DEF TypeInv, TypeOK
<1>3. PICK u \in Threads :
        Outstanding(u) /\ InFlight(to_daemon, <<"type">> \o write_args(req[u].type), u)
  BY <1>1 DEF ConnectedInv, RequestsInv
<1>4. req[u] \in Request /\ req[u].type \in RequestType
  BY RequestsAssumption DEF TypeInv, TypeOK, Request
<1> DEFINE kinds == <<"type">> \o write_args(req[u].type)
<1>5. kinds \in Seq(Kinds) /\ Head(kinds) = "type" /\ Tail(kinds) = write_args(req[u].type)
  BY <1>4, RequestTyped
<1> HIDE DEF kinds
<1>6. PartOf(to_daemon, kinds, u) /\ (link = "up" => Len(to_daemon) = Len(kinds))
  BY <1>3 DEF kinds, InFlight
<1>7. /\ Head(to_daemon) = [kind |-> Head(kinds), of |-> u]
      /\ PartOf(Tail(to_daemon), Tail(kinds), u)
      /\ Len(to_daemon) = Len(kinds) => Len(Tail(to_daemon)) = Len(Tail(kinds))
  BY <1>1, <1>2, <1>5, <1>6, PartOfTail
<1>8. asker' = u
  BY <1>7 DEF ReadType
<1>9. args' = read_args(req[u]) /\ ~DataSkipped(req[u])
  BY <1>1, <1>8 DEF ReadType
<1>10. args' = write_args(req[u].type)
  BY <1>4, <1>9, ArgsAgree
<1>11. InFlight(to_daemon', args', u)
  BY <1>1, <1>5, <1>6, <1>7, <1>10 DEF InFlight
<1>12. InFlight(to_daemon, args, asker)' /\ Outstanding(asker)'
  BY <1>1, <1>3, <1>8, <1>11 DEF InFlight, Outstanding
<1>13. RequestsInv'
  BY <1>1, <1>12 DEF RequestsInv
<1>14. to_client = << >>
  BY <1>1 DEF ConnectedInv, ResponsesInv
<1>15. ResponsesInv' /\ UpInv'
  BY <1>1, <1>14 DEF ResponsesInv, UpInv, ConnectedInv
<1> QED
  BY <1>1, <1>13, <1>15 DEF ConnectedInv

LEMMA ReadArgNext ==
  ASSUME TypeInv, ConnectedInv, ReadArg
  PROVE  ConnectedInv'
<1>1. /\ daemon = "reading" /\ to_daemon # << >> /\ to_daemon' = Tail(to_daemon) /\ args' = Tail(args)
      /\ UNCHANGED <<daemon, link, request_mutex, pc, req, writer, to_client, asker, result, executed>>
  BY DEF ReadArg, threads
<1>2. to_daemon \in Seq(Field) /\ args \in Seq(ArgKinds)
  BY DEF TypeInv, TypeOK
<1>3. Outstanding(asker) /\ InFlight(to_daemon, args, asker)
  BY <1>1 DEF ConnectedInv, RequestsInv
<1>4. /\ PartOf(Tail(to_daemon), Tail(args), asker)
      /\ link = "up" => Len(Tail(to_daemon)) = Len(Tail(args))
  BY <1>1, <1>2, <1>3, PartOfTail DEF InFlight
<1>5. InFlight(to_daemon', args', asker)
  BY <1>1, <1>4 DEF InFlight
<1>6. InFlight(to_daemon, args, asker)' /\ Outstanding(asker)'
  BY <1>1, <1>3, <1>5 DEF InFlight, Outstanding
<1>7. RequestsInv'
  BY <1>1, <1>6 DEF RequestsInv
<1>8. to_client = << >>
  BY <1>1 DEF ConnectedInv, ResponsesInv
<1>9. ResponsesInv' /\ UpInv'
  BY <1>1, <1>8 DEF ResponsesInv, UpInv, ConnectedInv
<1> QED
  BY <1>1, <1>7, <1>9 DEF ConnectedInv

LEMMA ReplyBegins ==
  ASSUME NEW type \in RequestType, NEW status \in {"Success", "Failure"}, NEW n \in Nat
  PROVE  Len(Reply(type, status, n)) \in Nat /\ Len(Reply(type, status, n)) >= 1
<1> DEFINE w == IF status = "Success" THEN write_result(type, n) ELSE << >>
<1>1. w \in Seq(AnswerKinds)
  BY ResultWritten, ShortSeqs
<1> HIDE DEF w
<1>2. <<status>> \in Seq(AnswerKinds) /\ Len(<<status>>) = 1
  BY DEF AnswerKinds
<1>3. Len(<<status>> \o w) = 1 + Len(w) /\ Len(w) \in Nat
  BY <1>1, <1>2, Joined
<1> QED
  BY <1>3 DEF Reply, w

\* A request is executed once all of it is read; both streams are empty then,
\* and the answer is the only thing in flight.
LEMMA ExecuteNext ==
  ASSUME TypeInv, ConnectedInv, Execute
  PROVE  ConnectedInv'
<1>1. /\ daemon = "reading" /\ args = << >> /\ asker \in Threads
      /\ UNCHANGED <<link, request_mutex, pc, req, writer, to_daemon, asker, result>>
  BY DEF Execute, threads, TypeInv, Typed
<1>2. Outstanding(asker) /\ InFlight(to_daemon, << >>, asker) /\ to_client = << >>
  BY <1>1 DEF ConnectedInv, RequestsInv, ResponsesInv
<1>3. to_daemon = << >>
  <2>1. Len(to_daemon) <= 0 /\ to_daemon \in Seq(Field)
    BY <1>2 DEF InFlight, PartOf, TypeInv, TypeOK
  <2> QED
    BY <2>1
<1>4. executed'[asker] /\ \A u \in Threads \ {asker} : executed'[u] = executed[u]
  BY <1>1 DEF Execute, TypeInv, TypeOK
<1>5. pc[asker] \in {"receive", "failed"}
  BY <1>2 DEF Outstanding
<1>6. PICK status \in {"Success", "Failure"}, n \in 0..MaxEntries :
        to_client' = to_client \o Carried(Fields(Reply(req[asker].type, status, n), asker))
  BY DEF Execute, Status
<1>7. CASE link = "down"
  <2>1. to_client' = << >> /\ daemon' = "stopped"
    BY <1>2, <1>6, <1>7, NoFields DEF Carried, Execute
  <2> QED
    BY <1>1, <1>4, <1>5, <1>7, <2>1 DEF ConnectedInv, RequestsInv, ResponsesInv, UpInv
<1>8. CASE link = "up"
  <2> DEFINE kinds == Reply(req[asker].type, status, n)
  <2>1. n \in Nat /\ req[asker].type \in RequestType
    BY <1>1, RequestsAssumption, BoundsAssumption DEF TypeInv, TypeOK, Request
  <2>2. kinds \in Seq(AnswerKinds) /\ Len(kinds) \in Nat /\ Len(kinds) >= 1
    BY <2>1, ReplyTyped, ReplyBegins
  <2>3. Fields(kinds, asker) \in Seq(Field)
    BY <1>1, ReplyFieldsTyped
  <2> HIDE DEF kinds
  <2>4. to_client' = Fields(kinds, asker) /\ daemon' = "ready"
    BY <1>2, <1>6, <1>8, <2>3 DEF Carried, Execute, kinds
  <2>5. PartOf(to_client', kinds, asker) /\ Len(to_client') = Len(kinds)
    BY <2>2, <2>4, FieldsTyped
  <2>6. to_client' # << >>
    BY <2>2, <2>5
  <2>7. request_mutex = asker /\ pc[asker] = "receive" /\ result = <<"status">>
    BY <1>2, <1>8 DEF Outstanding
  <2>8. InFlight(to_client, Reply(req[asker].type, status, n), asker)'
    BY <1>1, <2>5 DEF InFlight, kinds
  <2>9. Answered(request_mutex)'
    BY <1>1, <2>7, <2>8 DEF Answered
  <2>10. ResponsesInv'
    BY <1>1, <1>3, <1>4, <2>4, <2>7, <2>9 DEF ResponsesInv
  <2>11. UpInv'
    BY <1>1, <1>4, <2>4, <2>6, <2>7 DEF UpInv, ConnectedInv, TypeInv, MutexHeld
  <2>12. RequestsInv'
    BY <1>1, <1>3, <2>4 DEF RequestsInv
  <2> QED
    BY <1>1, <1>4, <1>5, <2>4, <2>10, <2>11, <2>12 DEF ConnectedInv
<1> QED
  BY <1>7, <1>8 DEF TypeInv, TypeOK

\* What the daemon is about to read is what it expects.
LEMMA ExpectedNext ==
  ASSUME TypeInv, ConnectedInv, to_daemon # << >>
  PROVE  /\ daemon = "ready" => \E u \in Threads :
              Outstanding(u) /\ Head(to_daemon) = [kind |-> "type", of |-> u]
         /\ daemon = "reading" => /\ args # << >> /\ Outstanding(asker)
                                  /\ Head(to_daemon) = [kind |-> Head(args), of |-> asker]
<1>1. to_daemon \in Seq(Field) /\ args \in Seq(ArgKinds)
  BY DEF TypeInv, TypeOK
<1>2. ASSUME daemon = "ready"
      PROVE  \E u \in Threads : Outstanding(u) /\ Head(to_daemon) = [kind |-> "type", of |-> u]
  <2>1. PICK u \in Threads :
          Outstanding(u) /\ InFlight(to_daemon, <<"type">> \o write_args(req[u].type), u)
    BY <1>2 DEF ConnectedInv, RequestsInv
  <2>2. req[u].type \in RequestType
    BY RequestsAssumption DEF TypeInv, TypeOK, Request
  <2> DEFINE kinds == <<"type">> \o write_args(req[u].type)
  <2>3. kinds \in Seq(Kinds) /\ Head(kinds) = "type"
    BY <2>2, RequestTyped
  <2>4. PartOf(to_daemon, kinds, u)
    BY <2>1 DEF InFlight
  <2> HIDE DEF kinds
  <2>5. Head(to_daemon) = [kind |-> Head(kinds), of |-> u]
    BY <1>1, <2>3, <2>4, PartOfTail
  <2> QED
    BY <2>1, <2>3, <2>5
<1>3. ASSUME daemon = "reading"
      PROVE  /\ args # << >> /\ Outstanding(asker)
             /\ Head(to_daemon) = [kind |-> Head(args), of |-> asker]
  BY <1>1, <1>3, PartOfTail DEF ConnectedInv, RequestsInv, InFlight
<1> QED
  BY <1>2, <1>3

LEMMA NotGarbled ==
  ASSUME TypeInv, ConnectedInv
  PROVE  ~Garbled
<1> SUFFICES ASSUME Garbled PROVE FALSE
  OBVIOUS
<1>1. to_daemon # << >>
  BY DEF Garbled
<1>2. daemon = "ready" => Head(to_daemon).kind = "type"
  BY <1>1, ExpectedNext
<1>3. daemon = "reading" => Head(to_daemon).kind = Head(args)
  BY <1>1, ExpectedNext
<1> QED
  BY <1>2, <1>3 DEF Garbled

LEMMA DaemonEOFNext ==
  ASSUME TypeInv, ConnectedInv, DaemonEOF
  PROVE  ConnectedInv'
<1>1. /\ link = "down" /\ daemon' = "stopped"
      /\ UNCHANGED <<link, request_mutex, pc, req, to_daemon, to_client, result, executed>>
  BY DEF DaemonEOF, threads
<1>2. RequestsInv' /\ UpInv'
  BY <1>1 DEF RequestsInv, UpInv
<1>3. ResponsesInv'
  BY <1>1 DEF ResponsesInv, ConnectedInv, Answered, InFlight
<1> QED
  BY <1>1, <1>2, <1>3 DEF ConnectedInv

\* What is left of the streams when the link breaks is still a beginning of what
\* was in flight.
LEMMA DisconnectNext ==
  ASSUME TypeInv, ConnectedInv, Disconnect
  PROVE  ConnectedInv'
<1>1. /\ link' = "down"
      /\ UNCHANGED <<daemon, request_mutex, pc, req, writer, args, asker, result, executed>>
  BY DEF Disconnect, threads
<1>2. /\ to_daemon \in Seq(Field) /\ to_client \in Seq(Field)
      /\ args \in Seq(ArgKinds) /\ result \in Seq(ResultKinds)
  BY DEF TypeInv, TypeOK
<1>3. PICK n \in 0..Len(to_daemon) : to_daemon' = SubSeq(to_daemon, 1, n)
  BY DEF Disconnect
<1>4. PICK m \in 0..Len(to_client) : to_client' = SubSeq(to_client, 1, m)
  BY DEF Disconnect
<1>5. ASSUME NEW s \in Seq(Field), NEW k \in 0..Len(s), s = << >>
      PROVE  SubSeq(s, 1, k) = << >>
  <2>1. SubSeq(s, 1, k) \in Seq(Field) /\ Len(SubSeq(s, 1, k)) = 0
    BY <1>5, Prefix
  <2> QED
    BY <2>1
<1>6. (to_daemon = << >> => to_daemon' = << >>) /\ (to_client = << >> => to_client' = << >>)
  BY <1>2, <1>3, <1>4, <1>5
<1>7. ASSUME NEW K, NEW kinds \in Seq(K), NEW u
      PROVE  /\ PartOf(to_daemon, kinds, u) => PartOf(to_daemon', kinds, u)
             /\ PartOf(to_client, kinds, u) => PartOf(to_client', kinds, u)
  BY <1>2, <1>3, <1>4, PartOfPrefix
<1>8. \A u \in Threads : req[u].type \in RequestType
  BY RequestsAssumption DEF TypeInv, TypeOK, Request
<1>9. \A u \in Threads : Outstanding(u) => Outstanding(u)'
  BY <1>1, <1>6 DEF Outstanding
<1>10. RequestsInv'
  <2>1. ASSUME daemon = "ready", to_daemon' # << >>
        PROVE  \E u \in Threads : Outstanding(u)' /\
                 InFlight(to_daemon, <<"type">> \o write_args(req[u].type), u)'
    <3>1. PICK u \in Threads :
            Outstanding(u) /\ InFlight(to_daemon, <<"type">> \o write_args(req[u].type), u)
      BY <1>6, <2>1 DEF ConnectedInv, RequestsInv
    <3>2. <<"type">> \o write_args(req[u].type) \in Seq(Kinds)
      BY <1>8, RequestTyped
    <3>3. PartOf(to_daemon', <<"type">> \o write_args(req[u].type), u)
      BY <1>7, <3>1, <3>2 DEF InFlight
    <3>4. InFlight(to_daemon, <<"type">> \o write_args(req[u].type), u)'
      BY <1>1, <3>3 DEF InFlight
    <3> QED
      BY <1>9, <3>1, <3>4
  <2>2. ASSUME daemon = "reading"
        PROVE  Outstanding(asker)' /\ InFlight(to_daemon, args, asker)'
    <3>1. Outstanding(asker) /\ PartOf(to_daemon, args, asker) /\ asker \in Threads
      BY <2>2 DEF ConnectedInv, RequestsInv, InFlight, TypeInv, Typed
    <3>2. PartOf(to_daemon', args, asker)
      BY <1>2, <1>7, <3>1
    <3>3. InFlight(to_daemon, args, asker)'
      BY <1>1, <3>2 DEF InFlight
    <3>4. Outstanding(asker)'
      BY <1>1, <1>9, <3>1 DEF Outstanding
    <3> QED
      BY <3>3, <3>4
  <2> QED
    BY <1>1, <2>1, <2>2 DEF RequestsInv
<1>11. ResponsesInv'
  <2> SUFFICES ASSUME to_client' # << >>
               PROVE  (/\ request_mutex \in Threads /\ pc[request_mutex] = "receive"
                       /\ executed[request_mutex] /\ Answered(request_mutex)
                       /\ to_daemon = << >> /\ daemon # "reading")'
    BY DEF ResponsesInv
  <2>1. /\ request_mutex \in Threads /\ pc[request_mutex] = "receive"
        /\ executed[request_mutex] /\ Answered(request_mutex)
        /\ to_daemon = << >> /\ daemon # "reading"
    BY <1>6 DEF ConnectedInv, ResponsesInv
  <2>2. CASE /\ result = <<"status">>
             /\ \E status \in {"Success", "Failure"}, k \in 0..MaxEntries :
                  InFlight(to_client, Reply(req[request_mutex].type, status, k), request_mutex)
    <3>1. PICK status \in {"Success", "Failure"}, k \in 0..MaxEntries :
            PartOf(to_client, Reply(req[request_mutex].type, status, k), request_mutex)
      BY <2>2 DEF InFlight
    <3>2. k \in Nat
      BY BoundsAssumption
    <3>3. Reply(req[request_mutex].type, status, k) \in Seq(AnswerKinds)
      BY <1>8, <2>1, <3>2, ReplyTyped
    <3>4. PartOf(to_client', Reply(req[request_mutex].type, status, k), request_mutex)
      BY <1>7, <3>1, <3>3
    <3>5. InFlight(to_client, Reply(req[request_mutex].type, status, k), request_mutex)'
      BY <1>1, <3>4 DEF InFlight
    <3>6. Answered(request_mutex)'
      BY <1>1, <2>2, <3>5 DEF Answered
    <3> QED
      BY <1>1, <1>6, <2>1, <3>6
  <2>3. CASE /\ result = <<"entry">> /\ req[request_mutex].type = "ListDirectory"
             /\ \E k \in 0..MaxEntries :
                  InFlight(to_client, write_result("ListDirectory", k), request_mutex)
    <3>1. PICK k \in 0..MaxEntries : PartOf(to_client, write_result("ListDirectory", k), request_mutex)
      BY <2>3 DEF InFlight
    <3>2. k \in Nat
      BY BoundsAssumption
    <3>3. write_result("ListDirectory", k) \in Seq(AnswerKinds)
      BY <3>2, ListingTyped
    <3>4. PartOf(to_client', write_result("ListDirectory", k), request_mutex)
      BY <1>7, <3>1, <3>3
    <3>5. InFlight(to_client, write_result("ListDirectory", k), request_mutex)'
      BY <1>1, <3>4 DEF InFlight
    <3>6. Answered(request_mutex)'
      BY <1>1, <2>3, <3>5 DEF Answered
    <3> QED
      BY <1>1, <1>6, <2>1, <3>6
  <2>4. CASE /\ \A i \in 1..Len(result) : result[i] \in {"stat", "u32", "u64", "data"}
             /\ InFlight(to_client, result, request_mutex)
    <3>1. PartOf(to_client', result, request_mutex)
      BY <1>2, <1>7, <2>4 DEF InFlight
    <3>2. InFlight(to_client, result, request_mutex)'
      BY <1>1, <3>1 DEF InFlight
    <3>3. Answered(request_mutex)'
      BY <1>1, <2>4, <3>2 DEF Answered
    <3> QED
      BY <1>1, <1>6, <2>1, <3>3
  <2> QED
    BY <2>1, <2>2, <2>3, <2>4 DEF Answered
<1>12. UpInv'
  BY <1>1 DEF UpInv
<1> QED
  BY <1>1, <1>10, <1>11, <1>12 DEF ConnectedInv

-----------------------------------------------------------------------------
(* The invariant is inductive.                                             *)

LEMMA ConnectedNext ==
  ASSUME TypeInv, ConnectedInv, client = "connected", [Next]_vars, ~poisoned'
  PROVE  ConnectedInv'
<1>1. CASE handshake \/ handshake_done \/ handshake_echo
  BY <1>1 DEF handshake, handshake_done, handshake_echo, ConnectedInv
<1>2. ASSUME NEW t \in Threads, Thread(t)
      PROVE  ConnectedInv'
  <2>1. ~SendTooLong(t)
    BY DEF SendTooLong
  <2> QED
    BY <1>2, <2>1, LockNext, SendNext, SendFailsNext, ReceiveNext, ReceiveEOFNext DEF Thread
<1>3. ASSUME NEW t \in Threads, NEW r \in Requests, Begin(t, r)
      PROVE  ConnectedInv'
  BY <1>3, BeginNext
<1>4. CASE ReadType \/ ReadArg \/ Execute \/ Garbled \/ DaemonEOF
  BY <1>4, ReadTypeNext, ReadArgNext, ExecuteNext, NotGarbled, DaemonEOFNext
<1>5. CASE Disconnect
  BY <1>5, DisconnectNext
<1>6. CASE UNCHANGED vars
  <2>1. UNCHANGED <<daemon, link, request_mutex, pc, req, writer, to_daemon, to_client, args, asker,
                    result, executed>>
    BY <1>6 DEF vars, threads
  <2>2. RequestsInv'
    BY <2>1 DEF ConnectedInv, RequestsInv, Outstanding, InFlight
  <2>3. ResponsesInv'
    BY <2>1 DEF ConnectedInv, ResponsesInv, Answered, InFlight
  <2>4. UpInv'
    BY <2>1 DEF ConnectedInv, UpInv
  <2> QED
    BY <2>1, <2>2, <2>3, <2>4 DEF ConnectedInv
<1> QED
  BY <1>1, <1>2, <1>3, <1>4, <1>5, <1>6 DEF Next, Daemon

\* A request cut short stays so, and a connection is made once.
LEMMA Monotone ==
  ASSUME [Next]_vars
  PROVE  (poisoned => poisoned') /\ (client = "connected" => client' = "connected")
<1>1. CASE UNCHANGED <<client, poisoned>>
  BY <1>1
<1>2. CASE handshake
  BY <1>2 DEF handshake
<1>3. CASE handshake_done
  BY <1>3 DEF handshake_done
<1>4. CASE ReadType
  BY <1>4, Zenon DEF ReadType
<1>5. handshake_echo \/ DaemonEOF \/ Disconnect => UNCHANGED <<client, poisoned>>
  BY DEF handshake_echo, DaemonEOF, Disconnect
<1>6. ReadArg => UNCHANGED <<client, poisoned>>
  BY DEF ReadArg
<1>7. Execute => UNCHANGED <<client, poisoned>>
  BY DEF Execute
<1>8. Garbled => UNCHANGED <<client, poisoned>>
  BY DEF Garbled
<1>9. UNCHANGED vars => UNCHANGED <<client, poisoned>>
  BY DEF vars
<1>10. ASSUME NEW t \in Threads, Thread(t) \/ \E r \in Requests : Begin(t, r)
       PROVE  (poisoned => poisoned') /\ (client = "connected" => client' = "connected")
  <2>1. (\E r \in Requests : Begin(t, r)) => UNCHANGED <<client, poisoned>>
    BY DEF Begin
  <2>2. Lock(t) => UNCHANGED <<client, poisoned>>
    BY DEF Lock
  <2>3. Send(t) => UNCHANGED <<client, poisoned>>
    BY DEF Send
  <2>4. SendTooLong(t) => poisoned' /\ UNCHANGED client
    BY DEF SendTooLong
  <2>5. SendFails(t) => UNCHANGED <<client, poisoned>>
    BY DEF SendFails
  <2>6. Receive(t) => UNCHANGED <<client, poisoned>>
    BY DEF Receive
  <2>7. ReceiveEOF(t) => UNCHANGED <<client, poisoned>>
    BY DEF ReceiveEOF
  <2> QED
    BY <1>1, <1>10, <2>1, <2>2, <2>3, <2>4, <2>5, <2>6, <2>7, Zenon DEF Thread
<1> QED
  BY <1>1, <1>2, <1>3, <1>4, <1>5, <1>6, <1>7, <1>8, <1>9, <1>10 DEF Next, Daemon

LEMMA InvNext ==
  ASSUME ChannelInv, [Next]_vars
  PROVE  ChannelInv'
<1>1. TypeInv'
  BY TypesNext DEF ChannelInv
<1>2. CASE client # "connected"
  BY <1>1, <1>2, HandshakeNext DEF ChannelInv
<1>3. CASE client = "connected"
  <2>1. client' = "connected" /\ (~poisoned' => ~poisoned)
    BY <1>3, Monotone
  <2>2. ~poisoned' => ConnectedInv'
    BY <1>3, <2>1, ConnectedNext DEF ChannelInv
  <2> QED
    BY <1>1, <2>1, <2>2 DEF ChannelInv
<1> QED
  BY <1>2, <1>3

\* The inductive invariant holds throughout: types, the handshake, and, until a
\* request is cut short, what is in flight in each direction.
THEOREM ChannelCorrect == Spec => []ChannelInv
BY InvInit, InvNext, PTL DEF Spec

\* Every variable of the channel stays within its type, after a cut request too.
THEOREM TypeCorrect == Spec => []TypeOK
<1>1. ChannelInv => TypeOK
  BY DEF ChannelInv, TypeInv
<1> QED
  BY <1>1, ChannelCorrect, PTL

\* request_mutex is held by a thread exactly from the moment it may write to the
\* socket until its response is read or an exception leaves the method.
THEOREM MutexCorrect == Spec => []MutexHeld
<1>1. ChannelInv => MutexHeld
  BY DEF ChannelInv, TypeInv
<1> QED
  BY <1>1, ChannelCorrect, PTL

LEMMA AlignedHolds ==
  ASSUME ChannelInv
  PROVE  Aligned
<1> SUFFICES ASSUME ~poisoned, daemon \in {"ready", "reading"}, to_daemon # << >>
             PROVE  /\ daemon = "ready" => Head(to_daemon).kind = "type"
                    /\ daemon = "reading" =>
                         args # << >> /\ Head(to_daemon) = [kind |-> Head(args), of |-> asker]
                    /\ link = "up" => Head(to_daemon).of = request_mutex
  BY DEF Aligned
<1>1. client = "connected"
  BY DEF ChannelInv, HandshakeInv
<1>2. TypeInv /\ ConnectedInv
  BY <1>1 DEF ChannelInv
<1>3. \A u : Outstanding(u) /\ link = "up" => request_mutex = u
  BY DEF Outstanding
<1>4. CASE daemon = "ready"
  BY <1>2, <1>3, <1>4, ExpectedNext
<1>5. CASE daemon = "reading"
  BY <1>2, <1>3, <1>5, ExpectedNext
<1> QED
  BY <1>4, <1>5

\* Until a request is cut short, whatever ClientHandler is about to read is what
\* it takes it for, and while the link is up it belongs to the thread that holds
\* request_mutex.
THEOREM StreamAligned == Spec => []Aligned
BY AlignedHolds, ChannelCorrect, PTL

LEMMA ResponsesHold ==
  ASSUME ChannelInv
  PROVE  ResponsesMatch
<1> SUFFICES ASSUME ~poisoned, client = "connected", to_client # << >>
             PROVE  /\ request_mutex # NoThread
                    /\ Head(to_client).of = request_mutex
                    /\ executed[request_mutex]
                    /\ CASE Head(to_client).kind \in {"Success", "Failure"} -> result = <<"status">>
                         [] Head(to_client).kind = "NoMoreEntries" -> Head(result) = "entry"
                         [] OTHER -> result # << >> /\ Head(result) = Head(to_client).kind
  BY DEF ResponsesMatch
<1> DEFINE t == request_mutex
<1>1. /\ TypeInv /\ t \in Threads /\ pc[t] = "receive" /\ executed[t] /\ Answered(t)
      /\ to_client \in Seq(Field) /\ result # << >> /\ result \in Seq(ResultKinds)
  BY DEF ChannelInv, ConnectedInv, ResponsesInv, TypeInv, TypeOK, Typed
<1>2. req[t].type \in RequestType
  BY <1>1, RequestsAssumption DEF TypeOK, TypeInv, Request
<1> HIDE DEF t
<1>3. ASSUME NEW K, NEW kinds \in Seq(K), InFlight(to_client, kinds, t)
      PROVE  /\ kinds # << >> /\ Head(to_client).kind = Head(kinds) /\ Head(to_client).of = t
  <2>1. kinds # << >> /\ Head(to_client) = [kind |-> Head(kinds), of |-> t]
    BY <1>1, <1>3, PartOfTail DEF InFlight
  <2> QED
    BY <2>1
<1>4. CASE /\ result = <<"status">>
           /\ \E status \in {"Success", "Failure"}, n \in 0..MaxEntries :
                InFlight(to_client, Reply(req[t].type, status, n), t)
  <2>1. PICK status \in {"Success", "Failure"}, n \in 0..MaxEntries :
          InFlight(to_client, Reply(req[t].type, status, n), t)
    BY <1>4
  <2>2. n \in Nat
    BY BoundsAssumption
  <2> DEFINE w == IF status = "Success" THEN write_result(req[t].type, n) ELSE << >>
  <2>3. w \in Seq(AnswerKinds)
    BY <1>2, <2>2, ResultWritten, ShortSeqs
  <2>4. Reply(req[t].type, status, n) = <<status>> \o w
    BY DEF Reply
  <2>5. Head(Reply(req[t].type, status, n)) = status
    BY <2>3, <2>4, HeadTailOfJoined DEF AnswerKinds
  <2>6. Reply(req[t].type, status, n) \in Seq(AnswerKinds)
    BY <1>2, <2>2, ReplyTyped
  <2>7. Head(to_client).kind = status /\ Head(to_client).of = t
    BY <1>3, <2>1, <2>5, <2>6
  <2> QED
    BY <1>1, <1>4, <2>7, NoThreadAssumption DEF t
<1>5. CASE /\ result = <<"entry">>
           /\ \E n \in 0..MaxEntries : InFlight(to_client, write_result("ListDirectory", n), t)
  <2>1. PICK n \in 0..MaxEntries : InFlight(to_client, write_result("ListDirectory", n), t)
    BY <1>5
  <2>2. n \in Nat
    BY BoundsAssumption
  <2> DEFINE kinds == write_result("ListDirectory", n)
  <2>3. /\ kinds \in Seq(AnswerKinds) /\ Len(kinds) = n + 1
        /\ \A i \in 1..(n + 1) : kinds[i] = IF i <= n THEN "entry" ELSE "NoMoreEntries"
    BY <2>2, ListingTyped
  <2> HIDE DEF kinds
  <2>4. kinds # << >> /\ Head(to_client).kind = Head(kinds) /\ Head(to_client).of = t
    BY <1>3, <2>1, <2>3 DEF kinds
  <2>5. Head(kinds) \in {"entry", "NoMoreEntries"}
    BY <2>2, <2>3, <2>4, FirstField
  <2> QED
    BY <1>1, <1>5, <2>4, <2>5, NoThreadAssumption DEF t
<1>6. CASE /\ \A i \in 1..Len(result) : result[i] \in {"stat", "u32", "u64", "data"}
           /\ InFlight(to_client, result, t)
  <2>1. Head(result) \in {"stat", "u32", "u64", "data"}
    BY <1>1, <1>6, FirstField
  <2>2. Head(to_client).kind = Head(result) /\ Head(to_client).of = t
    BY <1>1, <1>3, <1>6
  <2> QED
    BY <1>1, <2>1, <2>2, NoThreadAssumption DEF t
<1> QED
  BY <1>1, <1>4, <1>5, <1>6 DEF Answered

\* Until a request is cut short, a thread reads only the response to its own
\* request, which was executed, each field as what it was written as, and leaves
\* nothing behind for the next thread.
THEOREM ResponsesCorrect == Spec => []ResponsesMatch
BY ResponsesHold, ChannelCorrect, PTL

\* While the link is up and no request was cut short, a thread that waits for a
\* response never waits in vain: its answer is in flight, or its request is in
\* flight or being read by a daemon that has not stopped, and Connection's writer
\* holds nothing back.
THEOREM WaitersServed == Spec => [](client = "connected" /\ ~poisoned => UpInv)
<1>1. ChannelInv => (client = "connected" /\ ~poisoned => UpInv)
  BY DEF ChannelInv, ConnectedInv
<1> QED
  BY <1>1, ChannelCorrect, PTL

-----------------------------------------------------------------------------
(* The refinement.                                                         *)

\* A step that changes pc and executed of one thread changes that call only.
LEMMA OneCall ==
  ASSUME NEW t \in Threads,
         \A u \in Threads \ {t} : pc'[u] = pc[u] /\ executed'[u] = executed[u]
  PROVE  CallState' = [CallState EXCEPT ![t] = CallState'[t]]
BY DEF CallState

LEMMA SameCalls ==
  ASSUME UNCHANGED <<pc, executed>>
  PROVE  UNCHANGED CallState
BY DEF CallState

\* An answer is outstanding only to the thread that reads it.
LEMMA ExecutedReads ==
  ASSUME ChannelInv, ~poisoned, NEW t \in Threads, CallState[t] = "executed"
  PROVE  pc[t] = "receive" /\ request_mutex = t /\ executed[t] /\ ConnectedInv
<1>1. pc[t] \notin {"idle", "failed"} /\ executed[t]
  BY DEF CallState
<1>2. client = "connected"
  BY <1>1 DEF ChannelInv, HandshakeInv
<1>3. ConnectedInv
  BY <1>2 DEF ChannelInv
<1>4. pc[t] = "receive"
  BY <1>1, <1>3 DEF ConnectedInv, ChannelInv, TypeInv, TypeOK
<1> QED
  BY <1>1, <1>3, <1>4 DEF ChannelInv, TypeInv, MutexHeld

\* The daemon executes the request that the holder of request_mutex asked for,
\* or one whose thread gave up when the link broke.
LEMMA ExecuteRefines ==
  ASSUME ChannelInv, ~poisoned, Execute
  PROVE  (Atomic!Execute(asker) /\ asker \in Threads) \/ UNCHANGED CallState
<1>1. /\ daemon = "reading" /\ asker \in Threads /\ UNCHANGED <<pc, request_mutex>>
      /\ executed' = [executed EXCEPT ![asker] = TRUE] /\ executed \in [Threads -> BOOLEAN]
  BY DEF Execute, threads, ChannelInv, TypeInv, TypeOK, Typed
<1>2. Outstanding(asker)
  BY <1>1 DEF ChannelInv, HandshakeInv, ConnectedInv, RequestsInv
<1>3. \A u \in Threads \ {asker} : pc'[u] = pc[u] /\ executed'[u] = executed[u]
  BY <1>1
<1>4. executed'[asker] = TRUE
  BY <1>1
<1>5. CASE pc[asker] = "failed"
  BY <1>1, <1>3, <1>5 DEF CallState
<1>6. CASE request_mutex = asker /\ pc[asker] = "receive" /\ ~executed[asker]
  <2>1. CallState[asker] = "asked" /\ CallState'[asker] = "executed"
    BY <1>1, <1>4, <1>6 DEF CallState
  <2>2. \A u \in Threads : CallState[u] # "executed"
    BY <1>6, ExecutedReads
  <2>3. CallState' = [CallState EXCEPT ![asker] = "executed"]
    BY <1>1, <1>3, <2>1, OneCall
  <2> QED
    BY <1>1, <2>1, <2>2, <2>3 DEF Atomic!Execute, Atomic!Goes
<1> QED
  BY <1>2, <1>5, <1>6 DEF Outstanding

LEMMA ThreadRefines ==
  ASSUME ChannelInv, ~poisoned, ~poisoned', NEW t \in Threads,
         Thread(t) \/ \E r \in Requests : Begin(t, r)
  PROVE  \/ Atomic!Begin(t) \/ Atomic!Return(t) \/ Atomic!Fail(t)
         \/ UNCHANGED CallState
<1>0. pc \in [Threads -> {"idle", "lock", "send", "receive", "failed"}]
  BY DEF ChannelInv, TypeInv, TypeOK
<1>1. ASSUME NEW r \in Requests, Begin(t, r)
      PROVE  Atomic!Begin(t)
  <2>1. \A u \in Threads \ {t} : pc'[u] = pc[u] /\ executed'[u] = executed[u]
    BY <1>0, <1>1 DEF Begin, Step, ChannelInv, TypeInv, TypeOK
  <2>2. pc[t] = "idle" /\ pc'[t] = "lock" /\ ~executed'[t]
    BY <1>0, <1>1 DEF Begin, Step, ChannelInv, TypeInv, TypeOK
  <2>3. CallState[t] = "idle" /\ CallState'[t] = "asked"
    BY <2>2 DEF CallState
  <2> QED
    BY <2>1, <2>3, OneCall DEF Atomic!Begin, Atomic!Goes
<1>2. CASE Lock(t) \/ Send(t)
  <2>1. /\ UNCHANGED executed /\ \A u \in Threads \ {t} : pc'[u] = pc[u]
        /\ pc[t] \in {"lock", "send"} /\ pc'[t] \in {"send", "receive"}
    BY <1>0, <1>2 DEF Lock, Send, Step
  <2> QED
    BY <2>1 DEF CallState
<1>3. CASE SendFails(t) \/ ReceiveEOF(t)
  <2>1. /\ UNCHANGED executed /\ \A u \in Threads \ {t} : pc'[u] = pc[u]
        /\ pc[t] \in {"send", "receive"} /\ pc'[t] = "failed"
    BY <1>0, <1>3 DEF SendFails, ReceiveEOF, Step
  <2>2. CallState[t] \in {"asked", "executed"} /\ CallState'[t] = "failed"
    BY <2>1 DEF CallState
  <2> QED
    BY <2>1, <2>2, OneCall DEF Atomic!Fail, Atomic!Goes
<1>4. CASE Receive(t)
  <2>1. pc[t] = "receive" /\ UNCHANGED executed /\ to_client # << >>
    BY <1>4 DEF Receive
  <2>2. executed[t]
    BY <2>1 DEF ChannelInv, HandshakeInv, ConnectedInv, ResponsesInv, TypeInv, MutexHeld
  <2>3. CASE result' = << >>
    <3>1. pc'[t] = "idle" /\ \A u \in Threads \ {t} : pc'[u] = pc[u]
      BY <1>0, <1>4, <2>3 DEF Receive, Step
    <3>2. CallState[t] = "executed" /\ CallState'[t] = "idle"
      BY <2>1, <2>2, <3>1 DEF CallState
    <3> QED
      BY <2>1, <3>1, <3>2, OneCall DEF Atomic!Return, Atomic!Goes
  <2>4. CASE result' # << >>
    BY <1>4, <2>1, <2>4, SameCalls DEF Receive
  <2> QED
    BY <2>3, <2>4
<1> QED
  BY <1>1, <1>2, <1>3, <1>4 DEF Thread, SendTooLong

LEMMA RefinementStep ==
  ASSUME ChannelInv, ChannelInv', [Next]_vars
  PROVE  [Atomic!Next]_<<CallState, poisoned>>
<1>0. poisoned \in BOOLEAN /\ poisoned' \in BOOLEAN
  BY DEF ChannelInv, TypeInv, TypeOK
<1>1. CASE poisoned'
  <2>1. CallState' \in [Threads -> Atomic!States]
    BY DEF CallState, Atomic!States
  <2> QED
    BY <1>0, <1>1, <2>1 DEF Atomic!Next, Atomic!Broken
<1>2. CASE ~poisoned'
  <2>1. ~poisoned /\ poisoned' = poisoned
    BY <1>0, <1>2, Monotone
  <2>2. ASSUME NEW t \in Threads, Thread(t) \/ \E r \in Requests : Begin(t, r)
        PROVE  [Atomic!Next]_<<CallState, poisoned>>
    BY <1>2, <2>1, <2>2, ThreadRefines DEF Atomic!Next, Atomic!Kept
  <2>3. CASE Execute
    BY <2>1, <2>3, ExecuteRefines DEF Atomic!Next, Atomic!Kept
  <2>4. CASE \/ handshake \/ handshake_done \/ handshake_echo \/ ReadType \/ ReadArg \/ Garbled
             \/ DaemonEOF \/ Disconnect \/ UNCHANGED vars
    <3>1. UNCHANGED <<pc, executed>>
      BY <2>4 DEF handshake, handshake_done, handshake_echo, ReadType, ReadArg, Garbled, DaemonEOF,
                  Disconnect, vars, threads
    <3> QED
      BY <2>1, <3>1, SameCalls
  <2> QED
    BY <2>2, <2>3, <2>4 DEF Next, Daemon
<1> QED
  BY <1>1, <1>2

\* Until a request is cut short, an exchange between Connection and
\* ClientHandler is a procedure call: one request at a time, executed at most
\* once, answered only if executed.
THEOREM Refinement == Spec => ImplementsAtomicRequests
<1>1. Init => Atomic!Init
  BY DEF Init, Atomic!Init, CallState
<1> QED
  BY InvInit, InvNext, RefinementStep, <1>1, PTL
  DEF Spec, ImplementsAtomicRequests, Atomic!Spec
=============================================================================
