------------------------------- MODULE DataPath -------------------------------
(***************************************************************************)
(* What the requests carry: numbers, paths, file contents and times, from  *)
(* a Dokan callback through Connection, the byte streams and ClientHandler *)
(* to a file of the device and back.  One thread at a time has             *)
(* request_mutex, so there is one client here; RequestChannel models the   *)
(* threads.                                                                *)
(***************************************************************************)
EXTENDS ByteStream, Numbers, FileTimes

CONSTANTS
  Requests,     \* a sequence: the requests that may be made first, second, ...
  Handle,       \* the descriptor of the open file
  InitialFile,  \* what the file holds
  InitialTimes, \* when it was last read and written, [access, write]
  Disk          \* statvfs of /sdcard: [bsize, bfree, favail, blocks]

VARIABLES
  client,    \* a req_ method: "idle", "sending", "receiving", "done", "failed"
  request,   \* its arguments
  calls,     \* the calls made
  result,    \* what it gave the callback
  daemon,    \* ClientHandler: "reading", "data", "copying", "writing", "replying", "stopped"
  fields,    \* the fields each side has still to write
  have,      \* the fields each side has read
  device,    \* the file: [file, times]
  pos,       \* the offset of its descriptor
  total,     \* total_read, total_written
  rw_buffer,
  before     \* history: device when the call was made

client_vars == <<client, request, calls, result>>
daemon_vars == <<daemon, device, pos, total, rw_buffer>>
path == <<client_vars, daemon_vars, fields, have, before>>
vars == <<streams, path>>

ASSUME ChannelsAssumption == Channels = {"requests", "responses"} /\ Byte = 0..(Base - 1)

-----------------------------------------------------------------------------
(* Layouts, with the values.                                               *)

Code(type) ==
  CASE type = "ReadHandle" -> 0 [] type = "WriteHandle" -> 1 [] type = "TruncateHandle" -> 2
    [] type = "StatFile" -> 3 [] type = "SetFileTime" -> 4 [] type = "GetDiskStats" -> 5
Success == 0
GenericFailure == 1

\* A time as set_file_time sends it.
SentTime(t) == write_u64_win32(AsUnsigned(signed_time_from_ptr(t), Range64))

\* What Connection writes for a request, one write_exact for each field.
RequestFields(r) ==
  <<write_byte(Code(r.type))>> \o
  CASE r.type = "ReadHandle" -> <<write_u32(r.handle), write_u32(r.len), write_u64_win32(r.offset)>>
    [] r.type = "WriteHandle" ->
         <<write_u32(r.handle), write_u64_win32(r.offset), write_u32(Len(r.bytes)), r.bytes>>
    [] r.type = "TruncateHandle" -> <<write_u32(r.handle), write_u64_win32(r.new_length)>>
    [] r.type = "StatFile" -> write_utf8_string(r.path)
    [] r.type = "SetFileTime" ->
         write_utf8_string(r.path) \o <<SentTime(r.access), SentTime(r.write)>>
    [] OTHER -> << >>

\* How many bytes the daemon reads for each field of a request of which it has
\* the fields h; the data of a write comes after the seek.
RequestLengths(h) ==
  IF h = << >> THEN <<1>>
  ELSE <<1>> \o
    CASE h[1][1] = Code("ReadHandle")     -> <<U32, U32, U64>>
      [] h[1][1] = Code("WriteHandle")    -> <<U32, U64, U32>>
      [] h[1][1] = Code("TruncateHandle") -> <<U32, U64>>
      [] h[1][1] = Code("GetDiskStats")   -> << >>
      [] OTHER ->
           IF Len(h) < 2 THEN <<U16>>
           ELSE <<U16, read_u16(h[2])>> \o
                IF h[1][1] = Code("SetFileTime") THEN <<U64, U64>> ELSE << >>

\* How many bytes the client reads for each field of its response.
ResponseLengths(h) ==
  IF h = << >> THEN <<1>>
  ELSE <<1>> \o
    CASE h[1][1] # Success -> << >>
      [] request.type = "ReadHandle" ->
           IF Len(h) < 2 THEN <<U32>>
           ELSE LET bytes_read == AsSigned(read_u32(h[2]), Range32)
                IN  <<U32, IF bytes_read > 0 THEN bytes_read ELSE 0>>
      [] request.type = "StatFile" -> <<U16, U64, U64, U64>>
      [] request.type = "GetDiskStats" -> <<U64, U64, U64>>
      [] OTHER -> << >>

Args == have["requests"]
Type == Args[1][1]

\* The length and the offset a read or a write asks for.
data_len == read_u32(IF Type = Code("ReadHandle") THEN Args[3] ELSE Args[4])
offset == read_u64(IF Type = Code("ReadHandle") THEN Args[4] ELSE Args[3])

\* The lengths of the fields the reader of c reads before it goes on.
Expected(c) ==
  CASE c = "responses" /\ client = "receiving" -> ResponseLengths(have[c])
    [] c = "requests" /\ daemon = "reading"    -> RequestLengths(have[c])
    [] c = "requests" /\ daemon = "data"       -> RequestLengths(have[c]) \o <<data_len>>
    [] OTHER                                   -> << >>

AllRead(c) == rpc[c] = "idle" /\ Len(have[c]) = Len(Expected(c))

TypeOK ==
  /\ StreamsOK
  /\ client \in {"idle", "sending", "receiving", "done", "failed"}
  /\ calls \in 0..Len(Requests) /\ request \in UNION {Requests[i] : i \in 1..Len(Requests)}
  /\ daemon \in {"reading", "data", "copying", "writing", "replying", "stopped"}
  /\ fields \in [Channels -> Seq(Seq(Byte))]
  /\ have \in [Channels -> Seq(Seq(Byte))]
  /\ device.file \in Seq(Byte) /\ rw_buffer \in Seq(Byte)
  /\ pos \in Nat /\ total \in Nat
  /\ daemon \in {"data", "copying", "writing"} => total <= data_len /\ data_len <= Len(rw_buffer)

Init ==
  /\ InitStreams
  /\ client = "idle" /\ daemon = "reading"
  /\ request = CHOOSE r \in Requests[1] : TRUE
  /\ calls = 0 /\ result = [status |-> GenericFailure]
  /\ fields = [c \in Channels |-> << >>] /\ have = [c \in Channels |-> << >>]
  /\ device = [file |-> InitialFile, times |-> InitialTimes]
  /\ pos = 0 /\ total = 0 /\ rw_buffer = << >>
  /\ before = device

-----------------------------------------------------------------------------
(* Both sides.                                                             *)

\* The next field is written.
WriteField(c) ==
  /\ fields[c] # << >>
  /\ WriteExact(c, Head(fields[c]))
  /\ fields' = [fields EXCEPT ![c] = Tail(@)]
  /\ UNCHANGED <<client_vars, daemon_vars, have, before>>

\* The next field is read, once what was written before is flushed.
Other(c) == IF c = "requests" THEN "responses" ELSE "requests"

ReadField(c) ==
  /\ wpc[Other(c)] = "idle" /\ Len(have[c]) < Len(Expected(c))
  /\ ReadExact(c, Expected(c)[Len(have[c]) + 1])
  /\ UNCHANGED path

TakeField(c) ==
  /\ Return(c)
  /\ have' = [have EXCEPT ![c] = Append(@, into[c])]
  /\ UNCHANGED <<client_vars, daemon_vars, fields, before>>

-----------------------------------------------------------------------------
(* Connection, and the callbacks read_file, write_file, set_end_of_file,    *)
(* get_file_information, set_file_time and get_disk_free_space.            *)

Call(r) ==
  /\ client \in {"idle", "done"} /\ calls < Len(Requests) /\ r \in Requests[calls + 1]
  /\ client' = "sending" /\ request' = r /\ calls' = calls + 1
  /\ fields' = [fields EXCEPT !["requests"] = RequestFields(r)]
  /\ before' = device
  /\ UNCHANGED <<streams, result, daemon_vars, have>>

\* Faulty variant of ClientFlush: the request stays in the buffer.
ClientFlush_forgotten ==
  /\ client = "sending" /\ fields["requests"] = << >> /\ wpc["requests"] = "idle"
  /\ client' = "receiving"
  /\ have' = [have EXCEPT !["responses"] = << >>]
  /\ UNCHANGED <<streams, request, calls, result, daemon_vars, fields, before>>

ClientFlush ==
  /\ client = "sending" /\ fields["requests"] = << >>
  /\ Flush("requests")
  /\ client' = "receiving"
  /\ have' = [have EXCEPT !["responses"] = << >>]
  /\ UNCHANGED <<request, calls, result, daemon_vars, fields, before>>

\* What the callback makes of the fields of a response.
Result(h) ==
  IF h[1][1] # Success THEN [status |-> h[1][1]]
  ELSE [status |-> Success] @@
    CASE request.type = "ReadHandle" -> [bytes |-> h[3]]
      [] request.type = "StatFile" ->
           [size |-> read_u64_win32(h[3]),
            access |-> filetime_from_unix_time(read_u64_win32(h[4])),
            write |-> filetime_from_unix_time(read_u64_win32(h[5]))]
      [] request.type = "GetDiskStats" ->
           [free |-> read_u64_win32(h[2]), available |-> read_u64_win32(h[3]),
            total |-> read_u64_win32(h[4])]
      [] OTHER -> << >>

ClientDone ==
  /\ client = "receiving" /\ AllRead("responses")
  /\ result' = Result(have["responses"])
  /\ client' = "done"
  /\ UNCHANGED <<streams, request, calls, daemon_vars, fields, have, before>>

ClientThrows ==
  /\ client \in {"sending", "receiving"}
  /\ wpc["requests"] = "failed" \/ rpc["responses"] = "failed"
  /\ client' = "failed"
  /\ UNCHANGED <<streams, request, calls, result, daemon_vars, fields, have, before>>

-----------------------------------------------------------------------------
(* ClientHandler.                                                          *)

HasRequest(type) == daemon = "reading" /\ AllRead("requests") /\ Type = Code(type)

Reply(response) ==
  /\ daemon' = "replying"
  /\ fields' = [fields EXCEPT !["responses"] = response]

Fail == Reply(<<write_byte(GenericFailure)>>)
Succeed(response) == Reply(<<write_byte(Success)>> \o response)

\* s with t in place of what follows its first k elements, and zeros in a gap.
Overlay(s, k, t) ==
  [i \in 1..(IF t = << >> THEN Len(s) ELSE IF Len(s) < k + Len(t) THEN k + Len(t) ELSE Len(s)) |->
     IF i \in (k + 1)..(k + Len(t)) THEN t[i - k] ELSE IF i <= Len(s) THEN s[i] ELSE 0]

Resized(s, n) == [i \in 1..n |-> IF i <= Len(s) THEN s[i] ELSE 0]

\* Faulty variant of ensure_rw_buffer_size: an existing buffer is never enlarged.
ensure_rw_buffer_size_once(n) == IF rw_buffer = << >> THEN Resized(rw_buffer, n) ELSE rw_buffer

ensure_rw_buffer_size(n) == IF n > Len(rw_buffer) THEN Resized(rw_buffer, n) ELSE rw_buffer

\* handle_read_file and handle_write_file begin with lseek, which fails for a
\* handle that is not open and for an offset that is negative as an off64_t.
Seek ==
  /\ HasRequest("ReadHandle") \/ HasRequest("WriteHandle")
  /\ IF read_u32(Args[2]) = Handle /\ AsSigned(offset, Range64) >= 0
     THEN /\ daemon' = IF Type = Code("ReadHandle") THEN "copying" ELSE "data"
          /\ pos' = offset /\ total' = 0
          /\ rw_buffer' = ensure_rw_buffer_size(data_len)
          /\ UNCHANGED fields
     ELSE Fail /\ UNCHANGED <<pos, total, rw_buffer>>
  /\ UNCHANGED <<streams, client_vars, device, have, before>>

\* Faulty variant of ReadSome: the first read that returns ends the loop.
ReadSome_once ==
  /\ daemon = "copying" /\ total = 0
  /\ \E n \in 0..Least(data_len, IF pos < Len(device.file) THEN Len(device.file) - pos ELSE 0) :
       /\ total' = n /\ pos' = pos + n
       /\ rw_buffer' = Overlay(rw_buffer, 0, SubSeq(device.file, pos + 1, pos + n))
       /\ Succeed(<<write_u32(n), First(rw_buffer', n)>>)
  /\ UNCHANGED <<streams, client_vars, device, have, before>>

\* A turn of the loop of handle_read_file: read returns some bytes, or none at
\* the end of the file.
ReadSome ==
  /\ daemon = "copying" /\ total < data_len
  /\ LET available == IF pos < Len(device.file) THEN Len(device.file) - pos ELSE 0
     IN  \/ /\ available = 0
            /\ Succeed(<<write_u32(total), First(rw_buffer, total)>>)
            /\ UNCHANGED <<pos, total, rw_buffer>>
         \/ \E n \in 1..Least(data_len - total, available) :
              /\ rw_buffer' = Overlay(rw_buffer, total, SubSeq(device.file, pos + 1, pos + n))
              /\ total' = total + n /\ pos' = pos + n
              /\ UNCHANGED <<daemon, fields>>
  /\ UNCHANGED <<streams, client_vars, device, have, before>>

ReadAll ==
  /\ daemon = "copying" /\ total = data_len
  /\ Succeed(<<write_u32(total), First(rw_buffer, total)>>)
  /\ UNCHANGED <<streams, client_vars, device, pos, total, rw_buffer, have, before>>

\* handle_write_file has the data.
TakeData ==
  /\ daemon = "data" /\ AllRead("requests")
  /\ rw_buffer' = Overlay(rw_buffer, 0, Args[5])
  /\ daemon' = "writing"
  /\ UNCHANGED <<streams, client_vars, device, pos, total, fields, have, before>>

\* A turn of the loop of handle_write_file: write takes some of the bytes.
WriteSome ==
  /\ daemon = "writing" /\ total < data_len
  /\ \E n \in 1..(data_len - total) :
       /\ device' = [device EXCEPT !.file = Overlay(@, pos, SubSeq(rw_buffer, total + 1, total + n))]
       /\ total' = total + n /\ pos' = pos + n
  /\ UNCHANGED <<streams, client_vars, daemon, rw_buffer, fields, have, before>>

WroteAll ==
  /\ daemon = "writing" /\ total = data_len
  /\ Succeed(<< >>)
  /\ UNCHANGED <<streams, client_vars, device, pos, total, rw_buffer, have, before>>

\* read, write, ftruncate, stat, utimensat or statvfs fails.
CallFails ==
  /\ \/ daemon \in {"copying", "writing"} /\ total < data_len
     \/ \E type \in {"TruncateHandle", "StatFile", "SetFileTime", "GetDiskStats"} : HasRequest(type)
  /\ Fail
  /\ UNCHANGED <<streams, client_vars, device, pos, total, rw_buffer, have, before>>

handle_truncate_file ==
  /\ HasRequest("TruncateHandle")
  /\ LET new_length == AsSigned(read_u64(Args[3]), Range64)
     IN  IF read_u32(Args[2]) = Handle /\ new_length >= 0
         THEN device' = [device EXCEPT !.file = Resized(@, new_length)] /\ Succeed(<< >>)
         ELSE Fail /\ UNCHANGED device
  /\ UNCHANGED <<streams, client_vars, pos, total, rw_buffer, have, before>>

Mode == 1

handle_stat_file ==
  /\ HasRequest("StatFile")
  /\ Succeed(<<write_u16(Mode), write_u64(Len(device.file)),
               write_u64(AsUnsigned(device.times.access, Range64)),
               write_u64(AsUnsigned(device.times.write, Range64))>>)
  /\ UNCHANGED <<streams, client_vars, device, pos, total, rw_buffer, have, before>>

handle_set_file_time ==
  /\ HasRequest("SetFileTime")
  /\ LET Time(i, old) == get_timspec_from_timestamp(AsSigned(read_u64(Args[i]), Range64), old)
     IN  device' = [device EXCEPT !.times = [access |-> Time(4, @.access), write |-> Time(5, @.write)]]
  /\ Succeed(<< >>)
  /\ UNCHANGED <<streams, client_vars, pos, total, rw_buffer, have, before>>

\* available_bytes is computed from f_favail, the number of free inodes.
handle_get_disk_stats ==
  /\ HasRequest("GetDiskStats")
  /\ LET Bytes(blocks) == write_u64(AsUnsigned(Disk.bsize * blocks, Range64))
     IN  Succeed(<<Bytes(Disk.bfree), Bytes(Disk.favail), Bytes(Disk.blocks)>>)
  /\ UNCHANGED <<streams, client_vars, device, pos, total, rw_buffer, have, before>>

\* handle_messages flushes the response and goes on to the next request.
DaemonFlush ==
  /\ daemon = "replying" /\ fields["responses"] = << >>
  /\ Flush("responses")
  /\ daemon' = "reading"
  /\ have' = [have EXCEPT !["requests"] = << >>]
  /\ UNCHANGED <<client_vars, device, pos, total, rw_buffer, fields, before>>

DaemonThrows ==
  /\ daemon # "stopped"
  /\ rpc["requests"] = "failed" \/ wpc["responses"] = "failed"
  /\ daemon' = "stopped"
  /\ UNCHANGED <<streams, client_vars, device, pos, total, rw_buffer, fields, have, before>>

-----------------------------------------------------------------------------
ClientStep == ClientFlush \/ ClientDone \/ ClientThrows

DaemonStep ==
  \/ Seek \/ ReadSome \/ ReadAll \/ TakeData \/ WriteSome \/ WroteAll \/ CallFails
  \/ handle_truncate_file \/ handle_stat_file \/ handle_set_file_time \/ handle_get_disk_stats
  \/ DaemonFlush \/ DaemonThrows

StreamStep(c) ==
  \/ (WriterTurn(c) \/ ReaderTurn(c)) /\ UNCHANGED path
  \/ WriteField(c) \/ ReadField(c) \/ TakeField(c)

Next ==
  \/ \E i \in 1..Len(Requests) : \E r \in Requests[i] : Call(r)
  \/ ClientStep
  \/ DaemonStep
  \/ \E c \in Channels : StreamStep(c)
  \/ Break /\ UNCHANGED path

\* Each side goes on while it can; send and recv return in the end.
Fairness ==
  /\ WF_vars(ClientStep) /\ WF_vars(DaemonStep)
  /\ \A c \in Channels : WF_vars(StreamStep(c))

Spec == Init /\ [][Next]_vars /\ Fairness

-----------------------------------------------------------------------------
(* Properties.                                                             *)

\* The time a file has after SetFileTime was asked to make it t, in seconds
\* without a width: the second t lies in, but not before 1970.
TimeAsked(t, old) ==
  IF t = NoTime THEN old
  ELSE IF Ticks(t) = 0 THEN old
  ELSE LET second == Ticks(t) \div Resolution - EPOCH_DIFFERENCE
       IN  IF second < 0 THEN 0 ELSE second

\* The files request may leave behind when it succeeds, and when it fails (a
\* write may then have been done in part).
Effects(d, r, succeeded) ==
  CASE r.type = "WriteHandle" ->
         {[d EXCEPT !.file = Overlay(@, r.offset, First(r.bytes, n))] :
            n \in IF succeeded THEN {Len(r.bytes)} ELSE 0..Len(r.bytes)}
    [] r.type = "TruncateHandle" /\ succeeded -> {[d EXCEPT !.file = Resized(@, r.new_length)]}
    [] r.type = "SetFileTime" /\ succeeded ->
         {[d EXCEPT !.times = [access |-> TimeAsked(r.access, @.access),
                               write |-> TimeAsked(r.write, @.write)]]}
    [] OTHER -> {d}

\* What a successful request gives its callback: a read as many bytes as were
\* asked for and the file has.
Answer(d, r) ==
  CASE r.type = "ReadHandle" ->
         [bytes |-> SubSeq(d.file, r.offset + 1, Least(r.offset + r.len, Len(d.file)))]
    [] r.type = "StatFile" ->
         [size |-> Len(d.file),
          access |-> filetime_from_unix_time(AsUnsigned(d.times.access, Range64)),
          write |-> filetime_from_unix_time(AsUnsigned(d.times.write, Range64))]
    [] r.type = "GetDiskStats" ->
         [free |-> Disk.bsize * Disk.bfree, available |-> Disk.bsize * Disk.favail,
          total |-> Disk.bsize * Disk.blocks]
    [] OTHER -> << >>

\* A call that returns has done to the file what its caller asked for and
\* brings back what the file held, whatever send, recv, read and write did in
\* pieces and whatever earlier requests left in rw_buffer.
CallsTruthful ==
  client = "done" =>
    /\ device \in Effects(before, request, result.status = Success)
    /\ result.status = Success => result = [status |-> Success] @@ Answer(device, request)

\* The times of a stat, set again as a copy of the file does, leave a file of
\* 1970 or later as it was.
TimesRoundTrip ==
  client = "done" /\ request.type = "StatFile" /\ result.status = Success =>
    \A t \in {"access", "write"} :
      device.times[t] >= 0 => TimeAsked(result[t], -1) = device.times[t]

RequestQueue == INSTANCE ByteQueue
  WITH put <- put["requests"], got <- got["requests"], asked <- Asked("requests")
ResponseQueue == INSTANCE ByteQueue
  WITH put <- put["responses"], got <- got["responses"], asked <- Asked("responses")

\* Each direction of the connection is a queue of bytes.
ImplementsByteQueue == RequestQueue!Spec /\ ResponseQueue!Spec

\* Every call comes to an end.
CallsEnd == client = "sending" ~> client \in {"done", "failed"}
=============================================================================
