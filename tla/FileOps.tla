------------------------------- MODULE FileOps -------------------------------
(***************************************************************************)
(* The Dokan callbacks of operations.cpp, run by several threads on        *)
(* several file objects over Connection and the device.  A callback is a   *)
(* sequence of calls of Connection with decisions in between: it begins    *)
(* with the first call, and goes on each time one has returned.            *)
(*                                                                         *)
(* Dokan is external and modelled by its contract: a file object is        *)
(* created by create_file, used by any callbacks, even at once, cleaned up *)
(* once, perhaps still read and written after that (memory-mapped pages),  *)
(* and closed once, when no other callback uses it.  After create_file has *)
(* failed the object is gone; STATUS_OBJECT_NAME_COLLISION is no failure   *)
(* for a disposition that may open what exists.  A successful delete_file  *)
(* sets DeleteOnClose, a successful move_file renames the object.          *)
(***************************************************************************)
EXTENDS Connection

CONSTANTS
  Objects,    \* file objects
  Creates,    \* the ways create_file is called, see CreateArgs
  Uses,       \* the callbacks that are used: a subset of AllUses
  Targets,    \* where move_file moves to
  MaxCallbacks \* bound on the callbacks other than clean_up and close_file

Dispositions == {"CREATE_ALWAYS", "CREATE_NEW", "OPEN_ALWAYS", "OPEN_EXISTING", "TRUNCATE_EXISTING"}
\* directory and file: FILE_DIRECTORY_FILE (Dokan then sets IsDirectory) and
\* FILE_NON_DIRECTORY_FILE; delete: FILE_FLAG_DELETE_ON_CLOSE.
CreateArgs ==
  [path : Paths, disposition : Dispositions, read : BOOLEAN, write : BOOLEAN,
   directory : BOOLEAN, file : BOOLEAN, delete : BOOLEAN]
AllUses == {"read_file", "write_file", "set_end_of_file", "get_file_information", "find_files",
            "set_file_time", "delete_file", "move_file", "get_disk_free_space"}

ASSUME CreatesAssumption == Creates \subseteq CreateArgs
ASSUME UsesAssumption == Uses \subseteq AllUses /\ Targets \subseteq Paths
ASSUME CallbacksAssumption == MaxCallbacks \in Nat

VARIABLES
  obj,     \* each file object: FileContext, DOKAN_FILE_INFO and its phase
  cb,      \* the callback each thread runs: its name, its object
  callbacks \* number of callbacks begun, but for clean_up and close_file

vars == <<conn_vars, obj, cb, callbacks>>

\* how: the arguments of create_file.  existed: what its stat told it.  ino and
\* made (did this open create the file?) are history.
NoObject ==
  [phase |-> "free", path |-> << >>, handle |-> NoFd, read |-> FALSE, write |-> FALSE,
   dir |-> FALSE, delete |-> FALSE, how |-> "none", existed |-> FALSE, status |-> "none",
   ino |-> 0, made |-> FALSE]
NoCallback == [op |-> "none", obj |-> "none"]

Phases == {"free", "creating", "open", "cleaned", "closing"}
NtStatuses == {"none", "SUCCESS", "COLLISION", "FAILED"}

TypeOK ==
  /\ ConnTypeOK
  /\ \A o \in Objects :
       /\ obj[o].phase \in Phases /\ obj[o].path \in Paths /\ obj[o].handle \in Nat \cup {NoFd}
       /\ obj[o].status \in NtStatuses
       /\ obj[o].phase # "free" => obj[o].how \in Creates
  /\ \A t \in Threads : (pc[t] = "idle") <=> (cb[t] = NoCallback)
  /\ callbacks \in 0..MaxCallbacks

Init ==
  /\ ConnInit
  /\ obj = [o \in Objects |-> NoObject]
  /\ cb = [t \in Threads |-> NoCallback]
  /\ callbacks = 0

-----------------------------------------------------------------------------
(* The shape of a callback.                                                *)

conn_rest == <<device, caches, request_mutex, walk, expiries, history>>

\* Thread t begins a callback on o with the call r.
Begin(t, op, o, r) ==
  /\ pc[t] = "idle"
  /\ cb' = [cb EXCEPT ![t] = [op |-> op, obj |-> o]]
  /\ Ask(t, r)
  /\ UNCHANGED conn_rest

\* The call that op made as request type has returned.
Returned(t, op, types) == pc[t] = "done" /\ cb[t].op = op /\ call[t].type \in types

End(t) ==
  /\ cb' = [cb EXCEPT ![t] = NoCallback]
  /\ Goes(t, "idle")
  /\ call' = [call EXCEPT ![t] = NoRequest]
  /\ response' = [response EXCEPT ![t] = NoResponse]
  /\ UNCHANGED conn_rest

\* The callback goes on with the call r.
Continue(t, r) == Ask(t, r) /\ UNCHANGED <<cb, conn_rest>>

On(type, p) == [type |-> type, path |-> p]
With_handle(type, f) == [type |-> type, fd |-> f]

ntstatus_from_respstatus(status) ==
  CASE status = "Success" -> "SUCCESS" [] status = "FileExists" -> "COLLISION" [] OTHER -> "FAILED"

-----------------------------------------------------------------------------
(* create_file: a stat, then an open, a mkdir or nothing.                  *)

\* Faulty variant of create_file: the handle is not initialised to -1.
create_file_zero_handle(t, o, how) ==
  /\ obj[o].phase = "free" /\ callbacks < MaxCallbacks
  /\ obj' = [obj EXCEPT ![o] =
       [NoObject EXCEPT !.phase = "creating", !.path = how.path, !.how = how, !.dir = how.directory,
                        !.read = how.read, !.write = how.write, !.delete = how.delete, !.handle = 0]]
  /\ callbacks' = callbacks + 1
  /\ Begin(t, "create_file", o, On("StatFile", how.path))

create_file(t, o, how) ==
  /\ obj[o].phase = "free" /\ callbacks < MaxCallbacks
  /\ obj' = [obj EXCEPT ![o] =
       [NoObject EXCEPT !.phase = "creating", !.path = how.path, !.how = how, !.dir = how.directory,
                        !.read = how.read, !.write = how.write, !.delete = how.delete]]
  /\ callbacks' = callbacks + 1
  /\ Begin(t, "create_file", o, On("StatFile", how.path))

\* Dokan keeps the object when create_file has opened it.
Kept(how, status) ==
  \/ status = "SUCCESS"
  \/ status = "COLLISION" /\ how.disposition \in {"OPEN_ALWAYS", "CREATE_ALWAYS"}

\* create_file returns status for object x.
Created(t, x, status) ==
  /\ obj' = [obj EXCEPT ![cb[t].obj] =
       IF Kept(x.how, status) THEN [x EXCEPT !.phase = "open", !.status = status] ELSE NoObject]
  /\ End(t)

handle_create_directory(t, x, is_dir) ==
  IF x.how.disposition \in {"OPEN_ALWAYS", "CREATE_NEW", "CREATE_ALWAYS"}
  THEN obj' = [obj EXCEPT ![cb[t].obj] = x] /\ Continue(t, On("CreateDirectory", x.path))
  ELSE Created(t, x, IF x.existed /\ is_dir THEN "SUCCESS" ELSE "FAILED")

\* Faulty variant of open_mode: CREATE_NEW relies on the stat alone.
open_mode_trusting_stat(disposition) ==
  CASE disposition = "CREATE_ALWAYS" -> "CreateOrTruncate"
    [] disposition \in {"CREATE_NEW", "OPEN_ALWAYS"} -> "CreateIfNotExist"
    [] disposition = "OPEN_EXISTING" -> "OpenOnly"
    [] disposition = "TRUNCATE_EXISTING" -> "Truncate"

open_mode(disposition) ==
  CASE disposition = "CREATE_ALWAYS"     -> "CreateOrTruncate"
    [] disposition = "CREATE_NEW"        -> "CreateAlways"
    [] disposition = "OPEN_ALWAYS"       -> "CreateIfNotExist"
    [] disposition = "OPEN_EXISTING"     -> "OpenOnly"
    [] disposition = "TRUNCATE_EXISTING" -> "Truncate"

\* Without access the object needs no handle if nothing has to be created;
\* otherwise it is opened for reading.
handle_create_file(t, x) ==
  LET d == x.how.disposition
      no_access == ~x.read /\ ~x.write
      y == [x EXCEPT !.read = @ \/ no_access]
  IN IF no_access /\ x.existed /\ d \in {"OPEN_ALWAYS", "OPEN_EXISTING"} THEN Created(t, x, "SUCCESS")
     ELSE IF d = "OPEN_EXISTING" /\ ~x.existed THEN Created(t, x, "FAILED")
     ELSE /\ obj' = [obj EXCEPT ![cb[t].obj] = y]
          /\ Continue(t, [type |-> "OpenHandle", path |-> x.path, mode |-> open_mode(d),
                          read |-> y.read, write |-> y.write])

create_file_stat(t) ==
  LET status == response[t].status
      exists == status = "Success"
      is_dir == exists /\ response[t].stats[call[t].path].stat.dir
      old == obj[cb[t].obj]
      x == [old EXCEPT !.existed = exists, !.dir = @ \/ is_dir]
  IN /\ Returned(t, "create_file", {"StatFile"})
     /\ IF status \notin {"Success", "FileNotFound"} \/ (is_dir /\ x.how.file) THEN Created(t, x, "FAILED")
        ELSE IF x.dir THEN handle_create_directory(t, x, is_dir)
        ELSE handle_create_file(t, x)
     /\ UNCHANGED callbacks

create_file_mkdir(t) ==
  /\ Returned(t, "create_file", {"CreateDirectory"})
  /\ Created(t, obj[cb[t].obj], ntstatus_from_respstatus(response[t].status))
  /\ UNCHANGED callbacks

\* Faulty variant of create_file_open: a file that existed counts as not opened.
create_file_open_lost(t) ==
  LET r == response[t]
      x == obj[cb[t].obj]
      opened == [x EXCEPT !.handle = r.fd, !.ino = r.ino, !.made = r.made]
  IN /\ Returned(t, "create_file", {"OpenHandle"})
     /\ IF r.status = "Success" THEN Created(t, IF x.existed THEN x ELSE opened, "SUCCESS")
                                ELSE Created(t, x, ntstatus_from_respstatus(r.status))
     /\ UNCHANGED callbacks

create_file_open(t) ==
  LET r == response[t]
      x == obj[cb[t].obj]
      opened == [x EXCEPT !.handle = r.fd, !.ino = r.ino, !.made = r.made]
      existed == x.existed /\ x.how.disposition \in {"OPEN_ALWAYS", "CREATE_ALWAYS"}
  IN /\ Returned(t, "create_file", {"OpenHandle"})
     /\ IF r.status = "Success" THEN Created(t, opened, IF existed THEN "COLLISION" ELSE "SUCCESS")
                                ELSE Created(t, x, ntstatus_from_respstatus(r.status))
     /\ UNCHANGED callbacks

-----------------------------------------------------------------------------
(* The callbacks of an open file object that make one call.                *)

Unused(o) == \A t \in Threads : cb[t].obj # o

\* Dokan may call op on x now, and the early returns of op let it go on.
Allowed(op, x) ==
  CASE op = "read_file"       -> x.phase \in {"open", "cleaned"} /\ x.read /\ x.handle # NoFd
    [] op = "write_file"      -> x.phase \in {"open", "cleaned"} /\ x.write /\ x.handle # NoFd
    [] op = "set_end_of_file" -> x.phase = "open" /\ x.write
    [] OTHER                  -> x.phase = "open"

\* The requests op may make for x: one, but for the targets of move_file.
\* set_allocation_size is set_end_of_file, and set_file_attributes looks at a
\* stat as get_file_information does.
Request(op, x) ==
  CASE op = "read_file"            -> {With_handle("ReadHandle", x.handle)}
    [] op = "write_file"           -> {With_handle("WriteHandle", x.handle)}
    [] op = "set_end_of_file"      -> {With_handle("TruncateHandle", x.handle)}
    [] op = "get_file_information" -> {On("StatFile", x.path)}
    [] op = "find_files"           -> {On("ListDirectory", x.path)}
    [] op = "set_file_time"        -> {On("SetFileTime", x.path)}
    [] op = "delete_file"          -> {On(IF x.dir THEN "CheckRemoveDirectory" ELSE "CheckRemoveFile", x.path)}
    [] op = "move_file"            -> {[type |-> "MoveEntry", path |-> x.path, to |-> p, overwrite |-> b] :
                                         p \in Targets, b \in BOOLEAN}
    [] op = "get_disk_free_space"  -> {[type |-> "GetDiskStats"]}

Use(t, o, op) ==
  /\ Allowed(op, obj[o]) /\ callbacks < MaxCallbacks
  /\ \E r \in Request(op, obj[o]) : Begin(t, op, o, r)
  /\ callbacks' = callbacks + 1
  /\ UNCHANGED obj

\* What the callback, and Dokan after it, do to the object once it succeeded.
Updated(t, x) ==
  CASE cb[t].op = "get_file_information" ->
         [x EXCEPT !.dir = @ \/ response[t].stats[call[t].path].stat.dir]
    [] cb[t].op = "delete_file" -> [x EXCEPT !.delete = TRUE]
    [] cb[t].op = "move_file"   -> [x EXCEPT !.path = call[t].to]
    [] OTHER                    -> x

Use_returns(t) ==
  /\ pc[t] = "done" /\ cb[t].op \in Uses
  /\ obj' = IF response[t].status = "Success" THEN [obj EXCEPT ![cb[t].obj] = Updated(t, @)] ELSE obj
  /\ End(t)
  /\ UNCHANGED callbacks

-----------------------------------------------------------------------------
(* clean_up removes the entry when it is to be deleted, whatever comes of  *)
(* it; close_file closes the handle and deletes the FileContext.           *)

\* Only reads and writes still run on o.
NoPathUse(o) == \A t \in Threads : cb[t].obj = o => cb[t].op \in {"read_file", "write_file"}

clean_up(t, o) ==
  LET x == obj[o] IN
  /\ x.phase = "open" /\ NoPathUse(o)
  /\ obj' = [obj EXCEPT ![o].phase = "cleaned"]
  /\ \/ /\ x.delete
        /\ Begin(t, "clean_up", o, On(IF x.dir THEN "RemoveDirectory" ELSE "RemoveFile", x.path))
     \/ ~x.delete /\ pc[t] = "idle" /\ UNCHANGED <<conn_vars, cb>>
  /\ UNCHANGED callbacks

clean_up_returns(t) ==
  /\ pc[t] = "done" /\ cb[t].op = "clean_up"
  /\ End(t)
  /\ UNCHANGED <<obj, callbacks>>

close_file(t, o) ==
  LET x == obj[o] IN
  /\ x.phase = "cleaned" /\ Unused(o)
  /\ \/ /\ x.handle # NoFd
        /\ obj' = [obj EXCEPT ![o].phase = "closing"]
        /\ Begin(t, "close_file", o, With_handle("CloseHandle", x.handle))
     \/ /\ x.handle = NoFd /\ pc[t] = "idle"
        /\ obj' = [obj EXCEPT ![o] = NoObject]
        /\ UNCHANGED <<conn_vars, cb>>
  /\ UNCHANGED callbacks

close_file_returns(t) ==
  /\ pc[t] = "done" /\ cb[t].op = "close_file"
  /\ obj' = [obj EXCEPT ![cb[t].obj] = NoObject]
  /\ End(t)
  /\ UNCHANGED callbacks

-----------------------------------------------------------------------------

ops == <<obj, cb, callbacks>>

\* Thread t, or the daemon for it, goes on with the callback it runs.
Goes_on(t) ==
  \/ Thread(t) /\ UNCHANGED ops
  \/ create_file_stat(t) \/ create_file_mkdir(t) \/ create_file_open(t)
  \/ Use_returns(t) \/ clean_up_returns(t) \/ close_file_returns(t)

Next ==
  \/ \E t \in Threads :
       \/ Goes_on(t)
       \/ \E o \in Objects :
            \/ \E how \in Creates : create_file(t, o, how)
            \/ \E op \in Uses : Use(t, o, op)
            \/ clean_up(t, o) \/ close_file(t, o)
  \/ AppChange /\ UNCHANGED <<caches, request_mutex, pc, call, response, walk, expiries, history, ops>>
  \/ Expire /\ UNCHANGED ops

Spec == Init /\ [][Next]_vars

\* A thread that can go on does, and the daemon answers.
FairSpec == Spec /\ \A t \in Threads : WF_vars(Goes_on(t))

-----------------------------------------------------------------------------
(* Properties.                                                             *)

Live(o) == obj[o].phase \in {"open", "cleaned"}

\* While a file object lives its handle is open, no other object has it, and it
\* leads to the file that create_file opened, with the access the object has:
\* whatever was renamed, removed, closed or opened again in the meantime.
HandleIntegrity ==
  \A o \in Objects : Live(o) /\ obj[o].handle # NoFd =>
    /\ obj[o].handle \in DOMAIN fds
    /\ fds[obj[o].handle] = [ino |-> obj[o].ino, read |-> obj[o].read, write |-> obj[o].write]
    /\ \A q \in Objects : Live(q) /\ obj[q].handle = obj[o].handle => q = o

\* No descriptor is lost on the device: each belongs to a file object, to an
\* answer that is on its way, or to a close that is.
NoHandleLeak ==
  \A f \in DOMAIN fds :
    \/ \E o \in Objects : obj[o].phase # "free" /\ obj[o].handle = f
    \/ \E t \in Threads : call[t].type = "OpenHandle" /\ response[t].fd = f

\* A file object that CREATE_NEW opened created its file, even if the stat that
\* create_file began with was out of date: no two callers get the same file.
CreateNewExclusive ==
  \A o \in Objects :
    Live(o) /\ obj[o].how.disposition = "CREATE_NEW" /\ obj[o].handle # NoFd => obj[o].made

\* operations.cpp:114: "Check if the file existed already and give the correct
\* status if so."  OPEN_ALWAYS and CREATE_ALWAYS report a file they opened as
\* existing exactly when they did not create it.
CreateStatusCorrect ==
  \A o \in Objects :
    Live(o) /\ obj[o].how.disposition \in {"OPEN_ALWAYS", "CREATE_ALWAYS"} /\ obj[o].handle # NoFd =>
      (obj[o].status = "COLLISION" <=> ~obj[o].made)

\* Every callback returns.
CallbacksReturn == \A t \in Threads : cb[t] # NoCallback ~> cb[t] = NoCallback
=============================================================================
