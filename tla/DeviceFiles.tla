----------------------------- MODULE DeviceFiles -----------------------------
(***************************************************************************)
(* The files of the Android device, and the request handlers of the daemon *)
(* (ClientHandler.cpp) as functions: each takes a request and gives its    *)
(* outcome, which is the response and the files and descriptors after it.  *)
(* The system calls underneath are POSIX and external to the repository.   *)
(*                                                                         *)
(* A path is the sequence of its names, the root is << >>.  An entry keeps *)
(* what a stat shows of it: whether it is a directory, and when it was     *)
(* last changed; ino (the change that created it) is history, as are seen, *)
(* ino and made in a response.  Times are numbers of changes.              *)
(***************************************************************************)
EXTENDS Integers, Sequences, PartialMaps

CONSTANTS
  Paths,         \* the absolute paths there can be; others are too long
  InitialTree,   \* the files at the start: a map from paths to entries
  InitialChanges, \* the number of changes that made them
  Denied,        \* paths the daemon has no access to
  MaxFds,        \* descriptors the daemon can have open for files and directories
  MaxAppChanges  \* bound on what other programs on the device change

\* The directory p is in, and its name there; the directories on the way to it;
\* whether p is d or lies under d.
Parent(p) == SubSeq(p, 1, Len(p) - 1)
Name(p) == p[Len(p)]
Above(p) == {SubSeq(p, 1, n) : n \in 0..(Len(p) - 1)}
Within(p, d) == Len(d) <= Len(p) /\ SubSeq(p, 1, Len(d)) = d

Fds == 0..(MaxFds - 1)
NoFd == -1
Entry(dir, n) == [dir |-> dir, ino |-> n, changed |-> n]
Entries == [dir : BOOLEAN, ino : Nat, changed : Nat]

\* A map of a tree: with a path there are the directories on the way to it.
IsTree(m) ==
  /\ DOMAIN m \subseteq Paths /\ \A p \in DOMAIN m : m[p] \in Entries
  /\ << >> \in DOMAIN m /\ m[<< >>].dir
  /\ \A p \in DOMAIN m : \A q \in Above(p) : q \in DOMAIN m /\ m[q].dir
  /\ \A p, q \in DOMAIN m : m[p].ino = m[q].ino => p = q

ASSUME PathsAssumption == Paths \subseteq Seq(STRING)
ASSUME TreeAssumption ==
  IsTree(InitialTree) /\ \A p \in DOMAIN InitialTree : InitialTree[p].ino <= InitialChanges
ASSUME AppAssumption == MaxAppChanges \in Nat /\ InitialChanges \in Nat
ASSUME FdsAssumption == MaxFds \in Nat

VARIABLES
  tree,        \* the entries, by path
  fds,         \* the daemon's open descriptors, by number
  changes,     \* number of changes to tree so far
  app_changes  \* those made by other programs

device == <<tree, fds, changes, app_changes>>

DeviceTypeOK ==
  /\ IsTree(tree)
  /\ \A f \in DOMAIN fds : f \in Fds /\ fds[f] \in [ino : Nat, read : BOOLEAN, write : BOOLEAN]
  /\ changes \in Nat
  /\ app_changes \in 0..MaxAppChanges

DeviceInit ==
  /\ tree = InitialTree /\ fds = EmptyMap
  /\ changes = InitialChanges /\ app_changes = 0

-----------------------------------------------------------------------------
(* Paths (path_utils.cpp) and path lookup.                                 *)

\* Faulty variant of get_full_path: the directory is forgotten.
get_full_path_of_name(dir, name) == <<name>>

get_full_path(dir, name) == Append(dir, name)

\* Faulty variant of get_parent_path: a path of two names has no parent either.
get_parent_path_deeper(p) == IF Len(p) <= 2 THEN {} ELSE {Parent(p)}

\* At most one path: nothing is left of "/a" when its last name is cut off.
get_parent_path(p) == IF Len(p) <= 1 THEN {} ELSE {Parent(p)}

Exists(p) == p \in DOMAIN tree
Children(p) == {q \in DOMAIN tree : q # << >> /\ Parent(q) = p}

\* errno, translated by get_status_from_errno, of looking p up.
Resolve(p) ==
  IF \E q \in Above(p) : Exists(q) /\ ~tree[q].dir THEN "NotADirectory"
  ELSE IF ~(Above(p) \subseteq DOMAIN tree) THEN "FileNotFound"
  ELSE "Success"

stat_file(p) ==
  IF Resolve(p) # "Success" THEN Resolve(p)
  ELSE IF p \in Denied THEN "AccessDenied"
  ELSE IF ~Exists(p) THEN "FileNotFound"
  ELSE "Success"

-----------------------------------------------------------------------------
(* Outcomes.  stats holds what the response tells of entries; seen is the  *)
(* number of changes it takes account of.                                  *)

Outcome(status) ==
  [tree |-> tree, fds |-> fds,
   response |-> [status |-> status, stats |-> EmptyMap, seen |-> changes,
                 fd |-> NoFd, ino |-> 0, made |-> FALSE]]

Success == Outcome("Success")

\* The outcome of a request that changes the files to t.
Changed(t) == [Success EXCEPT !.tree = t]

\* The outcome of a request that tells the stats of the paths S.
Told(S) ==
  [Success EXCEPT !.response.stats = [p \in S |-> [stat |-> tree[p], seen |-> changes]]]

\* The tree once the entry of inode i, if it still has a name, is changed.
Modified(i) ==
  [p \in DOMAIN tree |-> IF tree[p].ino = i THEN [tree[p] EXCEPT !.changed = changes + 1] ELSE tree[p]]

handle_stat_file(r) == IF stat_file(r.path) = "Success" THEN Told({r.path}) ELSE Outcome(stat_file(r.path))

\* A call takes the lowest descriptor that is free; without one it fails (EMFILE).
Lowest(f) == f \notin DOMAIN fds /\ 0..(f - 1) \subseteq DOMAIN fds
NoFdLeft == ~\E f \in Fds : Lowest(f)
LowestFree == CHOOSE f \in Fds : Lowest(f)

DirStatus(p) == IF stat_file(p) = "Success" /\ ~tree[p].dir THEN "NotADirectory" ELSE stat_file(p)

\* opendir; closedir follows before the handler returns.
OpenDir(p) == IF NoFdLeft THEN "GenericFailure" ELSE DirStatus(p)

\* An entry whose stat fails is told as a status only; the client skips it.
\* (readdir also gives "." and "..", which name no path of their own.)
handle_list_dir_stats(r) ==
  IF OpenDir(r.path) = "Success" THEN Told({p \in Children(r.path) : stat_file(p) = "Success"})
                                 ELSE Outcome(OpenDir(r.path))

handle_remove_file(r) ==
  IF stat_file(r.path) # "Success" THEN Outcome(stat_file(r.path))
  ELSE IF tree[r.path].dir THEN Outcome("NotAFile")
  ELSE Changed(Without(tree, {r.path}))

handle_remove_directory(r) ==
  IF DirStatus(r.path) # "Success" THEN Outcome(DirStatus(r.path))
  ELSE IF r.path = << >> THEN Outcome("GenericFailure")
  ELSE IF Children(r.path) # {} THEN Outcome("DirectoryNotEmpty")
  ELSE Changed(Without(tree, {r.path}))

handle_create_directory_request(r) ==
  IF Exists(r.path) THEN Outcome("FileExists")
  ELSE IF Resolve(r.path) # "Success" THEN Outcome(Resolve(r.path))
  ELSE Changed(With(tree, r.path, Entry(TRUE, changes + 1)))

handle_set_file_time(r) ==
  IF stat_file(r.path) = "Success" THEN Changed(Modified(tree[r.path].ino))
                                   ELSE Outcome(stat_file(r.path))

\* rename(from, to) of entries that exist, the target not below the source.
Renamed(from, to) ==
  LET moved == {p \in DOMAIN tree : Within(p, from)}
      new(p) == to \o SubSeq(p, Len(from) + 1, Len(p))
      kept == DOMAIN tree \ (moved \cup {to})
  IN [q \in kept \cup {new(p) : p \in moved} |->
        IF q \in kept THEN tree[q] ELSE tree[from \o SubSeq(q, Len(to) + 1, Len(q))]]

Rename(from, to) ==
  IF stat_file(from) # "Success" THEN Outcome(stat_file(from))
  ELSE IF from = to THEN Success
  ELSE IF Within(to, from) \/ ~(DOMAIN Renamed(from, to) \subseteq Paths)
       THEN Outcome("GenericFailure")
  ELSE IF Exists(to) /\ tree[from].dir /\ ~tree[to].dir THEN Outcome("NotADirectory")
  ELSE IF Exists(to) /\ ~tree[from].dir /\ tree[to].dir THEN Outcome("NotAFile")
  ELSE IF Children(to) # {} THEN Outcome("DirectoryNotEmpty")
  ELSE Changed(Renamed(from, to))

handle_move_entry(r) ==
  IF stat_file(r.to) \notin {"Success", "FileNotFound"} THEN Outcome(stat_file(r.to))
  ELSE IF stat_file(r.to) = "Success" /\ ~r.overwrite THEN Outcome("FileExists")
  ELSE IF Resolve(r.to) # "Success" THEN Outcome(Resolve(r.to))
  ELSE Rename(r.path, r.to)

\* access(parent): the parent must be a directory that can be changed.
can_remove_directory_entry(p) ==
  LET parents == get_parent_path(p) IN
  IF parents = {} THEN "AccessDenied"
  ELSE LET parent == CHOOSE q \in parents : TRUE IN
       IF stat_file(parent) = "Success" /\ ~tree[parent].dir THEN "AccessDenied"
                                                            ELSE stat_file(parent)

handle_check_remove_file(r) == Outcome(can_remove_directory_entry(r.path))

handle_check_remove_directory(r) ==
  IF can_remove_directory_entry(r.path) # "Success" THEN Outcome(can_remove_directory_entry(r.path))
  ELSE IF OpenDir(r.path) = "Success" /\ Children(r.path) # {} THEN Outcome("DirectoryNotEmpty")
  ELSE Outcome(OpenDir(r.path))

-----------------------------------------------------------------------------
(* Handles.                                                                *)

Creating == {"CreateIfNotExist", "CreateOrTruncate", "CreateAlways"}   \* O_CREAT
Truncating == {"Truncate", "CreateOrTruncate"}                         \* O_TRUNC

Opened(r, t, made) ==
  [tree |-> t,
   fds |-> With(fds, LowestFree, [ino |-> t[r.path].ino, read |-> r.read, write |-> r.write]),
   response |-> [status |-> "Success", stats |-> EmptyMap, seen |-> changes,
                 fd |-> LowestFree, ino |-> t[r.path].ino, made |-> made]]

handle_open_handle(r) ==
  IF (~r.read /\ ~r.write) \/ NoFdLeft THEN Outcome("GenericFailure")
  ELSE IF stat_file(r.path) = "FileNotFound" /\ Resolve(r.path) = "Success" /\ r.mode \in Creating
       THEN Opened(r, With(tree, r.path, Entry(FALSE, changes + 1)), TRUE)
  ELSE IF stat_file(r.path) # "Success" THEN Outcome(stat_file(r.path))
  ELSE IF r.mode = "CreateAlways" THEN Outcome("FileExists")
  ELSE IF tree[r.path].dir /\ (r.write \/ r.mode # "OpenOnly") THEN Outcome("NotAFile")
  ELSE Opened(r, IF r.mode \in Truncating THEN Modified(tree[r.path].ino) ELSE tree, FALSE)

\* close: its result is ignored.
handle_close(r) == [Success EXCEPT !.fds = Without(fds, {r.fd})]

handle_read_file(r) ==
  IF r.fd \in DOMAIN fds /\ fds[r.fd].read THEN Success ELSE Outcome("GenericFailure")

\* handle_write_file and handle_truncate_file: lseek, write and ftruncate
\* refuse a descriptor that is not open for writing.
handle_write_file(r) ==
  IF r.fd \in DOMAIN fds /\ fds[r.fd].write THEN Changed(Modified(fds[r.fd].ino))
                                            ELSE Outcome("GenericFailure")

PathRequests == {"StatFile", "ListDirectory", "MoveEntry", "RemoveFile", "RemoveDirectory",
                 "CreateDirectory", "OpenHandle", "SetFileTime", "CheckRemoveFile",
                 "CheckRemoveDirectory"}
HandleRequests == {"ReadHandle", "WriteHandle", "TruncateHandle", "CloseHandle"}

IsRequest(r) ==
  /\ r.type \in PathRequests \cup HandleRequests \cup {"GetDiskStats"}
  /\ r.type \in PathRequests => r.path \in Paths
  /\ r.type = "MoveEntry" => r.to \in Paths
  /\ r.type = "OpenHandle" => r.read \in BOOLEAN /\ r.write \in BOOLEAN

\* The switch of handle_messages.
Handled(r) ==
  CASE r.type = "StatFile"             -> handle_stat_file(r)
    [] r.type = "ListDirectory"        -> handle_list_dir_stats(r)
    [] r.type = "MoveEntry"            -> handle_move_entry(r)
    [] r.type = "RemoveFile"           -> handle_remove_file(r)
    [] r.type = "RemoveDirectory"      -> handle_remove_directory(r)
    [] r.type = "CreateDirectory"      -> handle_create_directory_request(r)
    [] r.type = "OpenHandle"           -> handle_open_handle(r)
    [] r.type = "ReadHandle"           -> handle_read_file(r)
    [] r.type \in {"WriteHandle", "TruncateHandle"} -> handle_write_file(r)
    [] r.type = "CloseHandle"          -> handle_close(r)
    [] r.type = "SetFileTime"          -> handle_set_file_time(r)
    [] r.type = "CheckRemoveFile"      -> handle_check_remove_file(r)
    [] r.type = "CheckRemoveDirectory" -> handle_check_remove_directory(r)
    [] r.type = "GetDiskStats"         -> Success

-----------------------------------------------------------------------------
\* Another program on the device creates, changes or removes a file.
AppChange ==
  /\ app_changes < MaxAppChanges
  /\ \E p \in Paths \ Denied :
       /\ Resolve(p) = "Success" /\ (Exists(p) => ~tree[p].dir)
       /\ \/ ~Exists(p) /\ tree' = With(tree, p, Entry(FALSE, changes + 1))
          \/ Exists(p) /\ tree' = Modified(tree[p].ino)
          \/ Exists(p) /\ tree' = Without(tree, {p})
  /\ changes' = changes + 1
  /\ app_changes' = app_changes + 1
  /\ UNCHANGED fds
=============================================================================
