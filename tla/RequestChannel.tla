---------------------------- MODULE RequestChannel ---------------------------
(***************************************************************************)
(* Requests and responses between Connection (many Dokan threads sharing   *)
(* one socket under request_mutex) and ClientHandler (one loop on the      *)
(* device).  There is no length prefix and no request number: each side    *)
(* knows where a message ends only from the fields it expects, so one      *)
(* field too many or too few shifts everything that follows.               *)
(*                                                                         *)
(* The two directions of the socket are sequences of fields.  A field has  *)
(* a kind (which DataWriter/DataReader call it goes through) and, as       *)
(* history, the thread it belongs to.  The fields of one flush are sent    *)
(* together: a reader blocks until it has the field it wants, so it cannot *)
(* tell a flush from its pieces, except when the link breaks, and then any *)
(* suffix of what was in flight is lost.                                   *)
(***************************************************************************)
EXTENDS Integers, Sequences

CONSTANTS
  Threads,    \* the Dokan worker threads
  NoThread,   \* request_mutex is free
  Requests,   \* requests: [type, long, seekable]
  MaxCalls,   \* bound on the calls of one thread
  MaxEntries  \* bound on the entries of a directory

RequestType ==
  {"StatFile", "ListDirectory", "CreateDirectory", "CheckRemoveFile", "CheckRemoveDirectory",
   "RemoveFile", "RemoveDirectory", "MoveEntry", "OpenHandle", "CloseHandle", "ReadHandle",
   "WriteHandle", "TruncateHandle", "SetFileTime", "GetDiskStats"}

\* long: a path of the request takes more than the 65535 bytes a string may have.
\* seekable: lseek succeeds on the handle and offset of a read or write.
Request == [type : RequestType, long : BOOLEAN, seekable : BOOLEAN]

ASSUME RequestsAssumption == Requests \subseteq Request /\ Requests # {}
ASSUME NoThreadAssumption == NoThread \notin Threads
ASSUME BoundsAssumption == MaxCalls \in Nat /\ MaxEntries \in Nat

VARIABLES
  client,         \* the constructor of Connection: "new", "handshake", "connected", "refused"
  daemon,         \* ClientHandler: "handshake", "ready", "reading", "stopped"
  link,           \* the socket: "up", "down"
  request_mutex,
  pc, req, calls, \* each thread's step, its request, and how many it made
  writer,         \* fields in Connection's DataWriter that are not flushed yet
  to_daemon, to_client,  \* fields in flight
  args,           \* the fields the daemon still reads of its request, ...
  asker,          \* ... and, as history, the thread whose request it took it for
  result,         \* the fields the holder of request_mutex still reads
  executed,       \* history: the daemon has executed the thread's current request
  poisoned        \* history: a request was written, or read, only in part

threads == <<request_mutex, pc, req, calls>>
vars == <<client, daemon, link, threads, writer, to_daemon, to_client, args, asker, result,
          executed, poisoned>>

-----------------------------------------------------------------------------
(* Layouts.  Each is given twice: as the side that writes it writes it, and *)
(* as the side that reads it reads it.                                     *)

PathRequests ==
  {"StatFile", "ListDirectory", "CreateDirectory", "CheckRemoveFile", "CheckRemoveDirectory",
   "RemoveFile", "RemoveDirectory"}

\* What Connection writes after the RequestType.
write_args(type) ==
  CASE type \in PathRequests     -> <<"string">>
    [] type = "MoveEntry"        -> <<"string", "string", "byte">>
    [] type = "OpenHandle"       -> <<"string", "byte">>
    [] type = "CloseHandle"      -> <<"u32">>
    [] type = "ReadHandle"       -> <<"u32", "u32", "u64">>
    [] type = "WriteHandle"      -> <<"u32", "u64", "u32", "data">>
    [] type = "TruncateHandle"   -> <<"u32", "u64">>
    [] type = "SetFileTime"      -> <<"string", "u64", "u64">>
    [] OTHER                     -> << >>

\* Faulty variant of read_args: handle_list_dir_stats forgets its argument.
read_args_listing_root(r) ==
  IF r.type = "ListDirectory" THEN << >> ELSE write_args(r.type)

\* What ClientHandler reads after the RequestType: handle_write_file returns
\* before it reads the data when it cannot seek.
read_args(r) ==
  CASE r.type \in PathRequests   -> <<"string">>
    [] r.type = "MoveEntry"      -> <<"string", "string", "byte">>
    [] r.type = "OpenHandle"     -> <<"string", "byte">>
    [] r.type = "CloseHandle"    -> <<"u32">>
    [] r.type = "ReadHandle"     -> <<"u32", "u32", "u64">>
    [] r.type = "WriteHandle"    -> <<"u32", "u64", "u32">> \o
                                    (IF r.seekable THEN <<"data">> ELSE << >>)
    [] r.type = "TruncateHandle" -> <<"u32", "u64">>
    [] r.type = "SetFileTime"    -> <<"string", "u64", "u64">>
    [] OTHER                     -> << >>

\* What ClientHandler writes after a status of Success.  An entry of a listing,
\* be it status, name and stat or only the status of a stat that failed, is
\* one field here; n of them precede the status NoMoreEntries.
write_result(type, n) ==
  CASE type = "StatFile"      -> <<"stat">>
    [] type = "ListDirectory" -> [i \in 1..(n + 1) |-> IF i <= n THEN "entry" ELSE "NoMoreEntries"]
    [] type = "OpenHandle"    -> <<"u32">>
    [] type = "ReadHandle"    -> <<"u32", "data">>
    [] type = "GetDiskStats"  -> <<"u64", "u64", "u64">>
    [] OTHER                  -> << >>

\* Faulty variant of read_result: the stat is left unread.
read_result_without_stat(type) == IF type = "ListDirectory" THEN <<"entry">> ELSE << >>

\* Faulty variant of read_result: a status is read once more after the loop.
read_result_status_twice(type) ==
  IF type = "ListDirectory" THEN <<"entry", "NoMoreEntries">> ELSE << >>

\* What Connection reads after a status of Success; "entry" stands for the loop
\* of req_list_file_stats, which ends at NoMoreEntries.
read_result(type) ==
  CASE type = "StatFile"      -> <<"stat">>
    [] type = "ListDirectory" -> <<"entry">>
    [] type = "OpenHandle"    -> <<"u32">>
    [] type = "ReadHandle"    -> <<"u32", "data">>
    [] type = "GetDiskStats"  -> <<"u64", "u64", "u64">>
    [] OTHER                  -> << >>

\* Fields of the given kinds that belong to thread t.
Fields(kinds, t) == [i \in 1..Len(kinds) |-> [kind |-> kinds[i], of |-> t]]

Kinds == {"magic", "type", "string", "byte", "u32", "u64", "data",
          "Success", "Failure", "stat", "entry", "NoMoreEntries"}
ArgKinds == {"string", "byte", "u32", "u64", "data"}
ResultKinds == {"status", "stat", "entry", "u32", "u64", "data"}
Field == [kind : Kinds, of : Threads \cup {NoThread}]

TypeOK ==
  /\ client \in {"new", "handshake", "connected", "refused"}
  /\ daemon \in {"handshake", "ready", "reading", "stopped"}
  /\ link \in {"up", "down"}
  /\ request_mutex \in Threads \cup {NoThread}
  /\ pc \in [Threads -> {"idle", "lock", "send", "receive", "failed"}]
  /\ req \in [Threads -> Requests]
  /\ calls \in [Threads -> 0..MaxCalls]
  /\ writer \in Seq(Field) /\ to_daemon \in Seq(Field) /\ to_client \in Seq(Field)
  /\ args \in Seq(ArgKinds) /\ result \in Seq(ResultKinds)
  /\ asker \in Threads \cup {NoThread}
  /\ executed \in [Threads -> BOOLEAN]
  /\ poisoned \in BOOLEAN

Init ==
  /\ client = "new" /\ daemon = "handshake" /\ link = "up"
  /\ request_mutex = NoThread
  /\ pc = [t \in Threads |-> "idle"]
  /\ req = [t \in Threads |-> CHOOSE r \in Requests : TRUE]
  /\ calls = [t \in Threads |-> 0]
  /\ writer = << >> /\ to_daemon = << >> /\ to_client = << >>
  /\ args = << >> /\ result = << >>
  /\ asker = NoThread
  /\ executed = [t \in Threads |-> FALSE]
  /\ poisoned = FALSE

-----------------------------------------------------------------------------
(* The handshake, in the constructors of Connection and ClientHandler.     *)

\* What link carries of the fields s: all of them, or none once it is down.
Carried(s) == IF link = "up" THEN s ELSE << >>

handshake ==
  /\ client = "new"
  /\ client' = "handshake"
  /\ to_daemon' = to_daemon \o Carried(Fields(<<"magic">>, NoThread))
  /\ UNCHANGED <<daemon, link, threads, writer, to_client, args, asker, result, executed, poisoned>>

handshake_echo ==
  /\ daemon = "handshake" /\ to_daemon # << >>
  /\ daemon' = "ready"
  /\ to_daemon' = Tail(to_daemon)
  /\ to_client' = to_client \o Carried(<<Head(to_daemon)>>)
  /\ UNCHANGED <<client, link, threads, writer, args, asker, result, executed, poisoned>>

handshake_done ==
  /\ client = "handshake"
  /\ \/ to_client # << >> /\ to_client' = Tail(to_client) /\ client' = "connected"
     \/ to_client = << >> /\ link = "down" /\ client' = "refused" /\ UNCHANGED to_client
  /\ UNCHANGED <<daemon, link, threads, writer, to_daemon, args, asker, result, executed, poisoned>>

-----------------------------------------------------------------------------
(* A req_ method of Connection, called by a Dokan thread.                  *)

Step(t, to) == pc' = [pc EXCEPT ![t] = to]

Begin(t, r) ==
  /\ client = "connected" /\ pc[t] = "idle" /\ calls[t] < MaxCalls
  /\ Step(t, "lock")
  /\ req' = [req EXCEPT ![t] = r]
  /\ calls' = [calls EXCEPT ![t] = @ + 1]
  /\ executed' = [executed EXCEPT ![t] = FALSE]
  /\ UNCHANGED <<client, daemon, link, request_mutex, writer, to_daemon, to_client, args, asker,
                 result, poisoned>>

\* Faulty variant of Lock: no lock_guard.
Lock_unguarded(t) ==
  /\ pc[t] = "lock"
  /\ request_mutex' = t
  /\ Step(t, "send")
  /\ UNCHANGED <<client, daemon, link, req, calls, writer, to_daemon, to_client, args, asker,
                 result, executed, poisoned>>

Lock(t) ==
  /\ pc[t] = "lock" /\ request_mutex = NoThread
  /\ request_mutex' = t
  /\ Step(t, "send")
  /\ UNCHANGED <<client, daemon, link, req, calls, writer, to_daemon, to_client, args, asker,
                 result, executed, poisoned>>

\* Faulty variant of Unlock: the mutex is locked by hand and not released.
Unlock_forgotten == UNCHANGED request_mutex

\* lock_guard releases the mutex when the method returns and when it throws.
Unlock == request_mutex' = NoThread

Message(t) == Fields(<<"type">> \o write_args(req[t].type), t)

\* The request is written and flushed.  Once the link is down, send still takes
\* what it is given until the peer's reset has arrived.
Send(t) ==
  /\ pc[t] = "send" /\ ~req[t].long
  /\ to_daemon' = to_daemon \o Carried(writer \o Message(t))
  /\ writer' = << >>
  /\ result' = <<"status">>
  /\ Step(t, "receive")
  /\ UNCHANGED <<client, daemon, link, request_mutex, req, calls, to_client, args, asker, executed, poisoned>>

\* write_utf8_string throws on a path that is too long; the RequestType that
\* went before it stays in the writer.
SendTooLong(t) ==
  /\ pc[t] = "send" /\ req[t].long
  /\ writer' = writer \o Fields(<<"type">>, t)
  /\ poisoned' = TRUE
  /\ Step(t, "failed") /\ Unlock
  /\ UNCHANGED <<client, daemon, link, req, calls, to_daemon, to_client, args, asker, result,
                 executed>>

\* send throws; DataWriter::flush then leaves the buffer filled.
SendFails(t) ==
  /\ pc[t] = "send" /\ ~req[t].long /\ link = "down"
  /\ writer' = writer \o Message(t)
  /\ Step(t, "failed") /\ Unlock
  /\ UNCHANGED <<client, daemon, link, req, calls, to_daemon, to_client, args, asker, result,
                 executed, poisoned>>

\* Faulty variant of Received: the result is read whatever the status.
Received_unchecked(t, kind) ==
  CASE kind \in {"Success", "Failure"} -> read_result(req[t].type)
    [] kind = "entry"                  -> result
    [] OTHER                           -> Tail(result)

\* The next field of the response is read, the status first.
Received(t, kind) ==
  CASE kind = "Success"       -> read_result(req[t].type)
    [] kind = "Failure"       -> << >>
    [] kind = "entry"         -> result
    [] OTHER                  -> Tail(result)

Receive(t) ==
  /\ pc[t] = "receive" /\ to_client # << >>
  /\ to_client' = Tail(to_client)
  /\ result' = Received(t, Head(to_client).kind)
  /\ IF result' = << >> THEN Step(t, "idle") /\ Unlock
                        ELSE UNCHANGED <<pc, request_mutex>>
  /\ UNCHANGED <<client, daemon, link, req, calls, writer, to_daemon, args, asker, executed, poisoned>>

\* recv returns 0, or an error: an exception reaches the callback.
ReceiveEOF(t) ==
  /\ pc[t] = "receive" /\ to_client = << >> /\ link = "down"
  /\ result' = << >>
  /\ Step(t, "failed") /\ Unlock
  /\ UNCHANGED <<client, daemon, link, req, calls, writer, to_daemon, to_client, args, asker,
                 executed, poisoned>>

-----------------------------------------------------------------------------
(* ClientHandler::handle_messages.                                         *)

\* handle_write_file returns without reading the data that follows.
DataSkipped(r) == r.type = "WriteHandle" /\ ~r.seekable

ReadType ==
  /\ daemon = "ready" /\ to_daemon # << >> /\ Head(to_daemon).kind = "type"
  /\ daemon' = "reading"
  /\ asker' = Head(to_daemon).of
  /\ args' = read_args(req[asker'])
  /\ poisoned' = (poisoned \/ DataSkipped(req[asker']))
  /\ to_daemon' = Tail(to_daemon)
  /\ UNCHANGED <<client, link, threads, writer, to_client, result, executed>>

ReadArg ==
  /\ daemon = "reading" /\ args # << >> /\ to_daemon # << >>
  /\ Head(to_daemon).kind = Head(args)
  /\ args' = Tail(args)
  /\ to_daemon' = Tail(to_daemon)
  /\ UNCHANGED <<client, daemon, link, threads, writer, to_client, asker, result, executed, poisoned>>

Status(r) == IF r.type \in {"ReadHandle", "WriteHandle"} /\ ~r.seekable
             THEN {"Failure"} ELSE {"Success", "Failure"}

Reply(type, status, n) ==
  <<status>> \o IF status = "Success" THEN write_result(type, n) ELSE << >>

\* The handler runs and its response is flushed; when that throws, the daemon
\* stops.
Execute ==
  /\ daemon = "reading" /\ args = << >>
  /\ executed' = [executed EXCEPT ![asker] = TRUE]
  /\ \E status \in Status(req[asker]), n \in 0..MaxEntries :
       to_client' = to_client \o Carried(Fields(Reply(req[asker].type, status, n), asker))
  /\ daemon' = IF link = "up" THEN "ready" ELSE "stopped"
  /\ UNCHANGED <<client, link, threads, writer, to_daemon, args, asker, result, poisoned>>

\* Bytes are taken for something they are not: they are swallowed as part of
\* some other field, or they make the daemon give up.  (That they also happen to
\* form a request nobody made is left out.)
Garbled ==
  /\ to_daemon # << >>
  /\ \/ daemon = "ready" /\ Head(to_daemon).kind # "type"
     \/ daemon = "reading" /\ args # << >> /\ Head(to_daemon).kind # Head(args)
  /\ \/ to_daemon' = Tail(to_daemon) /\ UNCHANGED <<daemon, link>>
     \/ to_daemon' = << >> /\ daemon' = "stopped" /\ link' = "down"
  /\ UNCHANGED <<client, threads, writer, to_client, args, asker, result, executed, poisoned>>

\* EOF: between requests handle_messages returns, within one it throws; either
\* way the daemon exits.
DaemonEOF ==
  /\ daemon # "stopped" /\ link = "down" /\ to_daemon = << >>
  /\ daemon = "reading" => args # << >>
  /\ daemon' = "stopped"
  /\ UNCHANGED <<client, link, threads, writer, to_daemon, to_client, args, asker, result, executed, poisoned>>

\* The device is unplugged, adb is killed, or the daemon is: what was in flight
\* may be lost, in either direction.
Disconnect ==
  /\ link = "up"
  /\ link' = "down"
  /\ \E n \in 0..Len(to_daemon) : to_daemon' = SubSeq(to_daemon, 1, n)
  /\ \E n \in 0..Len(to_client) : to_client' = SubSeq(to_client, 1, n)
  /\ UNCHANGED <<client, daemon, threads, writer, args, asker, result, executed, poisoned>>

Thread(t) == Lock(t) \/ Send(t) \/ SendTooLong(t) \/ SendFails(t) \/ Receive(t) \/ ReceiveEOF(t)

Daemon == handshake_echo \/ ReadType \/ ReadArg \/ Execute \/ Garbled \/ DaemonEOF

Next ==
  \/ handshake \/ handshake_done
  \/ \E t \in Threads : Thread(t) \/ \E r \in Requests : Begin(t, r)
  \/ Daemon
  \/ Disconnect

Spec == Init /\ [][Next]_vars

\* A thread that can go on does (request_mutex is not fair, but the calls are
\* bounded), and so does the daemon.
Fairness ==
  /\ WF_vars(handshake \/ handshake_done)
  /\ \A t \in Threads : WF_vars(Thread(t))
  /\ WF_vars(Daemon)

FairSpec == Spec /\ Fairness

-----------------------------------------------------------------------------
(* Properties.                                                             *)

\* request_mutex is held exactly during an exchange.
MutexHeld ==
  \A t \in Threads : pc[t] \in {"send", "receive"} <=> request_mutex = t

\* As long as no request was cut short, whatever the daemon is about to read is
\* what it takes it for, and belongs to the thread that holds request_mutex (or
\* to one that failed when the link broke).
Aligned ==
  ~poisoned /\ daemon \in {"ready", "reading"} /\ to_daemon # << >> =>
    /\ daemon = "ready" => Head(to_daemon).kind = "type"
    /\ daemon = "reading" =>
         args # << >> /\ Head(to_daemon) = [kind |-> Head(args), of |-> asker]
    /\ link = "up" => Head(to_daemon).of = request_mutex

\* As long as no request was cut short, a thread reads only responses to its own
\* request, each field as what it was written as, and leaves nothing behind for
\* the next thread.
ResponsesMatch ==
  ~poisoned /\ client = "connected" /\ to_client # << >> =>
    /\ request_mutex # NoThread \/ link = "down"
    /\ request_mutex # NoThread =>
         /\ Head(to_client).of = request_mutex
         /\ executed[request_mutex]
         /\ CASE Head(to_client).kind \in {"Success", "Failure"} -> result = <<"status">>
              [] Head(to_client).kind = "NoMoreEntries" -> Head(result) = "entry"
              [] OTHER -> result # << >> /\ Head(result) = Head(to_client).kind

\* requests.hpp:6: "Requests are sent as a RequestType (1 byte), followed by the
\* request body."  Where the daemon expects a RequestType there is one.
RequestsStartWithType ==
  daemon = "ready" /\ to_daemon # << >> => Head(to_daemon).kind = "type"

\* Every call comes to an end, by a response or by an exception, as long as no
\* request was cut short.
CallsEnd ==
  \A t \in Threads : pc[t] = "lock" ~> (pc[t] \in {"idle", "failed"} \/ poisoned)

\* What the callers see of the exchange.
CallState ==
  [t \in Threads |-> IF pc[t] \in {"idle", "failed"} THEN pc[t]
                     ELSE IF executed[t] THEN "executed" ELSE "asked"]

Atomic == INSTANCE AtomicRequests WITH call <- CallState, broken <- poisoned

\* Until a request is cut short, the exchange is a procedure call: one request
\* at a time, executed at most once, and answered only if executed.
ImplementsAtomicRequests == Atomic!Spec
=============================================================================
