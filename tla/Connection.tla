------------------------------ MODULE Connection -----------------------------
(***************************************************************************)
(* The req_ methods of Connection: many Dokan threads, one request_mutex,  *)
(* a cache of stats and a cache of directory listings in front of it.  A   *)
(* method looks into the caches without the mutex, then takes it, does     *)
(* what it does to the caches before it sends, and waits; the daemon       *)
(* handles the request; the method does what it does after the answer.     *)
(* Each of these is one step, except that a listing served from the cache  *)
(* takes a step per name.  What a step does to the two caches one after    *)
(* the other, another thread could only tell apart while it walks through  *)
(* a cached listing, and there it can be anywhere in its walk anyway.      *)
(*                                                                         *)
(* The exchange is the one of AtomicRequests, as long as it does not fail, *)
(* and the caches are the ones of ExpiringMap: an entry may vanish at any  *)
(* time.  lastop, lastdir and shown are history.                           *)
(***************************************************************************)
EXTENDS DeviceFiles

CONSTANTS
  Threads, NoThread,
  DesktopInis,  \* the names that end with "desktop.ini"
  MaxExpiries   \* bound on the entries that expire

ASSUME ThreadAssumption == NoThread \notin Threads /\ MaxExpiries \in Nat

VARIABLES
  stat_cache, dir_list_cache,
  request_mutex,
  pc,         \* each thread's step in its req_ method
  call,       \* the arguments it was called with
  response,   \* what it has got so far
  walk,       \* the entries of a cached listing it has still to look up
  expiries,
  lastop,     \* when this client last changed each path by name
  lastdir,    \* when this client last changed which names each directory has
  shown       \* the latest stat of each path that a caller was given

caches == <<stat_cache, dir_list_cache>>
history == <<lastop, lastdir, shown>>
conn_vars == <<device, caches, request_mutex, pc, call, response, walk, expiries, history>>

NoResponse == [status |-> "none", stats |-> EmptyMap, seen |-> 0,
               fd |-> NoFd, ino |-> 0, made |-> FALSE]
Statuses == {"none", "Success", "FileNotFound", "AccessDenied", "FileExists", "NotADirectory",
             "NotAFile", "DirectoryNotEmpty", "GenericFailure"}
SeenStat == [stat : Entries, seen : Nat]

IsStats(m) == DOMAIN m \subseteq Paths /\ \A p \in DOMAIN m : m[p] \in SeenStat

ConnTypeOK ==
  /\ DeviceTypeOK
  /\ IsStats(stat_cache)
  /\ DOMAIN dir_list_cache \subseteq Paths
  /\ \A d \in DOMAIN dir_list_cache :
       dir_list_cache[d].names \subseteq STRING /\ dir_list_cache[d].seen \in Nat
  /\ request_mutex \in Threads \cup {NoThread}
  /\ pc \in [Threads -> {"idle", "check", "walk", "lock", "wire", "reply", "done"}]
  /\ \A t \in Threads :
       /\ response[t].status \in Statuses /\ IsStats(response[t].stats)
       /\ response[t].fd \in Nat \cup {NoFd}
  /\ walk \in [Threads -> SUBSET Paths]
  /\ expiries \in 0..MaxExpiries
  /\ lastop \in [Paths -> Nat] /\ lastdir \in [Paths -> Nat] /\ shown \in [Paths -> Nat]

NoRequest == [type |-> "GetDiskStats"]

ConnInit ==
  /\ DeviceInit
  /\ stat_cache = EmptyMap /\ dir_list_cache = EmptyMap
  /\ request_mutex = NoThread
  /\ pc = [t \in Threads |-> "idle"]
  /\ call = [t \in Threads |-> NoRequest]
  /\ response = [t \in Threads |-> NoResponse]
  /\ walk = [t \in Threads |-> {}]
  /\ expiries = 0
  /\ lastop = [p \in Paths |-> 0] /\ lastdir = [p \in Paths |-> 0] /\ shown = [p \in Paths |-> 0]

-----------------------------------------------------------------------------
(* Steps of a method.                                                      *)

Goes(t, to) == pc' = [pc EXCEPT ![t] = to]

\* A method is called with request r.
Ask(t, r) ==
  /\ call' = [call EXCEPT ![t] = r]
  /\ response' = [response EXCEPT ![t] = NoResponse]
  /\ Goes(t, IF r.type \in {"StatFile", "ListDirectory"} THEN "check" ELSE "lock")

\* The stats m are handed to the caller of t's method.
Show(t, status, m) ==
  /\ response' = [response EXCEPT ![t].status = status, ![t].stats = m]
  /\ shown' = [p \in Paths |-> IF p \in DOMAIN m /\ m[p].seen > shown[p] THEN m[p].seen ELSE shown[p]]

\* req_stat_file looks into the cache.
check_stat(t) ==
  /\ pc[t] = "check" /\ call[t].type = "StatFile"
  /\ \/ /\ call[t].path \in DOMAIN stat_cache
        /\ Show(t, "Success", Only(stat_cache, {call[t].path}))
        /\ Goes(t, "done")
     \/ /\ call[t].path \notin DOMAIN stat_cache
        /\ Goes(t, "lock")
        /\ UNCHANGED <<response, shown>>
  /\ UNCHANGED <<device, caches, request_mutex, call, walk, expiries, lastop, lastdir>>

\* try_use_cached_dir_listing, up to its loop ...
check_listing(t) ==
  /\ pc[t] = "check" /\ call[t].type = "ListDirectory"
  /\ \/ /\ call[t].path \in DOMAIN dir_list_cache
        /\ walk' = [walk EXCEPT ![t] =
             {get_full_path(call[t].path, n) : n \in dir_list_cache[call[t].path].names}]
        /\ Goes(t, "walk")
     \/ /\ call[t].path \notin DOMAIN dir_list_cache
        /\ Goes(t, "lock")
        /\ UNCHANGED walk
  /\ UNCHANGED <<device, caches, request_mutex, call, response, expiries, history>>

\* ... and a turn of the loop, or its end.  A name without a stat is skipped.
walk_listing(t) ==
  /\ pc[t] = "walk"
  /\ \/ \E p \in walk[t] :
          /\ walk' = [walk EXCEPT ![t] = @ \ {p}]
          /\ Show(t, "none", Overlaid(response[t].stats, Only(stat_cache, {p})))
          /\ UNCHANGED pc
     \/ /\ walk[t] = {}
        /\ response' = [response EXCEPT ![t].status = "Success"]
        /\ Goes(t, "done")
        /\ UNCHANGED <<walk, shown>>
  /\ UNCHANGED <<device, caches, request_mutex, call, expiries, lastop, lastdir>>

\* Faulty variant of Send: request_mutex is not taken.
Send_unguarded(t, S, D) ==
  /\ pc[t] = "lock"
  /\ request_mutex' = t
  /\ Goes(t, "wire")
  /\ stat_cache' = Without(stat_cache, S)
  /\ dir_list_cache' = Without(dir_list_cache, D)
  /\ UNCHANGED <<device, call, response, walk, expiries, history>>

\* The mutex is taken and the request sent, stat_cache without the paths of S
\* and dir_list_cache without those of D.
Send(t, S, D) ==
  /\ pc[t] = "lock" /\ request_mutex = NoThread
  /\ request_mutex' = t
  /\ Goes(t, "wire")
  /\ stat_cache' = Without(stat_cache, S)
  /\ dir_list_cache' = Without(dir_list_cache, D)
  /\ UNCHANGED <<device, call, response, walk, expiries, history>>

IsDesktopIni(p) == p # << >> /\ Name(p) \in DesktopInis

\* Faulty variant of ReturnEarly: the mutex is locked by hand and not released.
ReturnEarly_locked(t) ==
  /\ pc[t] = "lock" /\ request_mutex = NoThread
  /\ request_mutex' = t
  /\ Goes(t, "done")
  /\ UNCHANGED <<device, caches, call, walk, expiries, lastop, lastdir>>

\* A method returns with the mutex taken, but without a request.
ReturnEarly(t) ==
  /\ pc[t] = "lock" /\ request_mutex = NoThread
  /\ Goes(t, "done")
  /\ UNCHANGED <<device, caches, request_mutex, call, walk, expiries, lastop, lastdir>>

\* req_stat_file looks again: another thread may have cached the stat.
req_stat_file(t) ==
  LET p == call[t].path IN
  /\ call[t].type = "StatFile"
  /\ \/ p \in DOMAIN stat_cache /\ ReturnEarly(t) /\ Show(t, "Success", Only(stat_cache, {p}))
     \/ p \notin DOMAIN stat_cache /\ IsDesktopIni(p) /\ ReturnEarly(t)
        /\ Show(t, "FileNotFound", EmptyMap)
     \/ p \notin DOMAIN stat_cache /\ ~IsDesktopIni(p) /\ Send(t, {}, {})

\* req_list_file_stats does not look again.
req_list_file_stats(t) == call[t].type = "ListDirectory" /\ Send(t, {}, {})

req_open_file(t) ==
  /\ call[t].type = "OpenHandle"
  /\ \/ /\ IsDesktopIni(call[t].path) /\ ReturnEarly(t)
        /\ Show(t, "GenericFailure", EmptyMap)
     \/ ~IsDesktopIni(call[t].path) /\ Send(t, {}, {})

\* invalidate_parent_dir is the erasure of get_parent_path(path).
req_move_entry(t) ==
  /\ call[t].type = "MoveEntry"
  /\ Send(t, {call[t].path, call[t].to},
             get_parent_path(call[t].path) \cup get_parent_path(call[t].to))

\* req_remove_file, req_remove_directory and req_create_directory.
req_change_entry(t) ==
  /\ call[t].type \in {"RemoveFile", "RemoveDirectory", "CreateDirectory"}
  /\ Send(t, {call[t].path}, get_parent_path(call[t].path))

\* Faulty variant of req_set_file_time: it forgets the cached stat.
req_set_file_time_only(t) == call[t].type = "SetFileTime" /\ Send(t, {}, {})

req_set_file_time(t) == call[t].type = "SetFileTime" /\ Send(t, {call[t].path}, {})

\* The methods that leave the caches alone.
PlainRequests == {"CheckRemoveFile", "CheckRemoveDirectory", "CloseHandle", "ReadHandle",
                  "WriteHandle", "TruncateHandle", "GetDiskStats"}
req_plain(t) == call[t].type \in PlainRequests /\ Send(t, {}, {})

-----------------------------------------------------------------------------
(* The daemon.                                                             *)

\* History: the paths a request changes by name, and the directories whose
\* names it changes.
Named(r) ==
  CASE r.type \in {"RemoveFile", "RemoveDirectory", "CreateDirectory", "SetFileTime"} -> {r.path}
    [] r.type = "MoveEntry" -> {r.path, r.to}
    [] OTHER -> {}
Relisted(r, made) ==
  {Parent(p) : p \in (CASE r.type = "OpenHandle" -> IF made THEN {r.path} ELSE {}
                      [] r.type = "SetFileTime" -> {}
                      [] OTHER -> Named(r)) \ {<< >>}}

\* The handler runs.
Serve(t) ==
  LET o == Handled(call[t])
      time == IF o.tree = tree THEN changes ELSE changes + 1
      Stamped(last, S) == [p \in Paths |-> IF p \in S /\ o.tree # tree THEN time ELSE last[p]]
  IN /\ pc[t] = "wire"
     /\ tree' = o.tree /\ fds' = o.fds /\ changes' = time
     /\ response' = [response EXCEPT ![t] = o.response]
     /\ Goes(t, "reply")
     /\ lastop' = Stamped(lastop, Named(call[t]))
     /\ lastdir' = Stamped(lastdir, Relisted(call[t], o.response.made))
     /\ UNCHANGED <<app_changes, caches, request_mutex, call, walk, expiries, shown>>

\* A system call fails for a reason of its own (EIO, ENOSPC, EROFS, ...).
ServeFails(t) ==
  /\ pc[t] = "wire" /\ call[t].type # "CloseHandle"
  /\ response' = [response EXCEPT ![t] = Outcome("GenericFailure").response]
  /\ Goes(t, "reply")
  /\ UNCHANGED <<device, caches, request_mutex, call, walk, expiries, history>>

-----------------------------------------------------------------------------
(* The rest of a method, once the answer is there.                         *)

\* req_list_file_stats caches each stat and then the names; req_open_file
\* invalidates the parent's listing whatever the status.
Finish(t) ==
  LET r == call[t]
      got == response[t].stats
      ok == response[t].status = "Success"
  IN /\ pc[t] = "reply"
     /\ stat_cache' = Overlaid(stat_cache, got)
     /\ dir_list_cache' =
          IF r.type = "ListDirectory" /\ ok
          THEN With(dir_list_cache, r.path,
                    [names |-> {Name(p) : p \in DOMAIN got}, seen |-> response[t].seen])
          ELSE IF r.type = "OpenHandle" /\ r.mode \in Creating
               THEN Without(dir_list_cache, get_parent_path(r.path))
          ELSE dir_list_cache
     /\ Show(t, response[t].status, got)
     /\ request_mutex' = NoThread
     /\ Goes(t, "done")
     /\ UNCHANGED <<device, call, walk, expiries, lastop, lastdir>>

\* TimedCache: an entry expires.
Expire ==
  /\ expiries < MaxExpiries
  /\ \/ \E p \in DOMAIN stat_cache :
          stat_cache' = Without(stat_cache, {p}) /\ UNCHANGED dir_list_cache
     \/ \E d \in DOMAIN dir_list_cache :
          dir_list_cache' = Without(dir_list_cache, {d}) /\ UNCHANGED stat_cache
  /\ expiries' = expiries + 1
  /\ UNCHANGED <<device, request_mutex, pc, call, response, walk, history>>

\* The steps of a thread, and of the daemon for it.
Thread(t) ==
  \/ check_stat(t) \/ check_listing(t) \/ walk_listing(t)
  \/ req_stat_file(t) \/ req_list_file_stats(t) \/ req_open_file(t) \/ req_move_entry(t)
  \/ req_change_entry(t) \/ req_set_file_time(t) \/ req_plain(t)
  \/ Serve(t) \/ ServeFails(t)
  \/ Finish(t)

-----------------------------------------------------------------------------
(* Properties.                                                             *)

\* A cached stat is never older than what this client itself did to the path
\* by name: removed, created, moved or given new times.  (A request invalidates
\* the path before it is sent, and the caches are filled under request_mutex,
\* so no answer on its way can bring the old stat back.)
StatCacheCoherent ==
  \A p \in DOMAIN stat_cache : stat_cache[p].seen >= lastop[p]

\* The thread whose answer to an open is there but not yet looked at.
OpenReturning(d) ==
  \E t \in Threads :
    pc[t] = "reply" /\ call[t].type = "OpenHandle" /\ d \in get_parent_path(call[t].path)

\* A cached listing is never older than what this client itself created,
\* removed or moved in the directory, except while the answer to the open that
\* created a file is on its way: that listing is invalidated only afterwards.
ListingCoherent(d) ==
  d \in DOMAIN dir_list_cache => dir_list_cache[d].seen >= lastdir[d] \/ OpenReturning(d)

\* The root is left out: get_parent_path knows no parent of "/a".
ListCacheCoherent == \A d \in DOMAIN dir_list_cache \ {<< >>} : ListingCoherent(d)

\* Connection.hpp:94: "Invalidates the cached directory listing for the parent
\* of `path`. This does nothing if `path` has no parent."  The root is the
\* parent of "/a", so its listing is invalidated too.
RootListCoherent == ListingCoherent(<< >>)

\* Two callers never see a file go back in time: the cache holds no stat older
\* than one that some caller was already given.
StatsMonotone ==
  \A p \in DOMAIN stat_cache : stat_cache[p].seen >= shown[p]

\* Connection.hpp:32: "Requests to list the stats for all files in a directory."
\* A listing that succeeds has every file that was there all along.
ListingComplete ==
  \A t \in Threads :
    pc[t] = "done" /\ call[t].type = "ListDirectory" /\ response[t].status = "Success" =>
      \A p \in Children(call[t].path) : stat_file(p) = "Success" /\ p \in DOMAIN InitialTree
        /\ tree[p].ino = InitialTree[p].ino => p \in DOMAIN response[t].stats
=============================================================================
