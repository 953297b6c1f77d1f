------------------------- MODULE CachedRequestsProofs ------------------------
(* Proofs about CachedRequests.                                            *)
EXTENDS CachedRequests, ConnectionProofs, TLAPS

\* What the proofs need to know of the outcome o of the handler for r.
Harmless(r, o) ==
  /\ DOMAIN o.tree \subseteq Paths
  /\ DOMAIN o.response.stats \subseteq Paths
  /\ \A p \in DOMAIN o.response.stats : o.response.stats[p].seen = changes
  /\ o.tree = tree \/ DOMAIN o.response.stats = {}
  /\ o.response.seen = changes
  /\ IsResponse(o.response)
  /\ o.response.made => r.type = "OpenHandle" /\ r.mode \in Creating

LEMMA OutcomeHarmless ==
  ASSUME DOMAIN tree \subseteq Paths, NEW r, NEW s
  PROVE  Harmless(r, Outcome(s))
  BY Zenon DEF Harmless, IsResponse, Outcome, EmptyMap

LEMMA ChangedHarmless ==
  ASSUME NEW r, NEW t, DOMAIN t \subseteq Paths
  PROVE  Harmless(r, Changed(t))
  BY Zenon DEF Harmless, IsResponse, Changed, Success, Outcome, EmptyMap

LEMMA ToldHarmless ==
  ASSUME DOMAIN tree \subseteq Paths, NEW r, NEW S \in SUBSET DOMAIN tree
  PROVE  Harmless(r, Told(S))
  BY Zenon DEF Harmless, IsResponse, Told, Success, Outcome, EmptyMap

LEMMA RenameHarmless ==
  ASSUME DOMAIN tree \subseteq Paths, NEW r, NEW from, NEW to
  PROVE  Harmless(r, Rename(from, to))
<1>1. Harmless(r, Success)
  BY OutcomeHarmless DEF Success
<1>2. DOMAIN Renamed(from, to) \subseteq Paths => Harmless(r, Changed(Renamed(from, to)))
  BY ChangedHarmless
<1> QED
  BY <1>1, <1>2, OutcomeHarmless DEF Rename

\* Every handler is harmless: it names only paths there can be, it tells either
\* stats or a change, and what it tells is up to date.
LEMMA HandledHarmless ==
  ASSUME DOMAIN tree \subseteq Paths, NEW r, IsRequest(r)
  PROVE  Harmless(r, Handled(r))
<1>0. Harmless(r, Success)
  BY OutcomeHarmless DEF Success
<1>1. CASE r.type = "StatFile"
  <2>1. stat_file(r.path) = "Success" => {r.path} \in SUBSET DOMAIN tree
    BY DEF stat_file, Exists
  <2> QED
    BY <1>1, <2>1, OutcomeHarmless, ToldHarmless DEF Handled, handle_stat_file
<1>2. CASE r.type = "ListDirectory"
  <2>1. {p \in Children(r.path) : stat_file(p) = "Success"} \in SUBSET DOMAIN tree
    BY DEF Children
  <2> QED
    BY <1>2, <2>1, OutcomeHarmless, ToldHarmless DEF Handled, handle_list_dir_stats
<1>3. CASE r.type = "MoveEntry"
  BY <1>3, OutcomeHarmless, RenameHarmless DEF Handled, handle_move_entry
<1>4. CASE r.type \in {"RemoveFile", "RemoveDirectory"}
  <2>1. Harmless(r, Changed(Without(tree, {r.path})))
    BY ChangedHarmless DEF Without, Restrict
  <2> QED
    BY <1>4, <2>1, OutcomeHarmless DEF Handled, handle_remove_file, handle_remove_directory
<1>5. CASE r.type = "CreateDirectory"
  <2>1. Harmless(r, Changed(With(tree, r.path, Entry(TRUE, changes + 1))))
    BY <1>5, ChangedHarmless DEF With, IsRequest, PathRequests
  <2> QED
    BY Zenon, <1>5, <2>1, OutcomeHarmless DEF Handled, handle_create_directory_request
<1>6. ASSUME NEW i PROVE Harmless(r, Changed(Modified(i)))
  BY ChangedHarmless DEF Modified
<1>7. CASE r.type = "OpenHandle"
  <2>1. ASSUME NEW t, DOMAIN t \subseteq Paths, NEW made,
               made => r.mode \in Creating
        PROVE  Harmless(r, Opened(r, t, made))
    BY <1>7, <2>1, SMTT(30) DEF Harmless, IsResponse, Opened, EmptyMap
  <2>2. DOMAIN With(tree, r.path, Entry(FALSE, changes + 1)) \subseteq Paths
    BY <1>7 DEF With, IsRequest, PathRequests
  <2>3. \A i : DOMAIN Modified(i) \subseteq Paths
    BY DEF Modified
  <2> QED
    BY Zenon, <1>7, <2>1, <2>2, <2>3, OutcomeHarmless DEF Handled, handle_open_handle
<1>8. CASE r.type \in {"WriteHandle", "TruncateHandle"}
  BY <1>6, <1>8, OutcomeHarmless DEF Handled, handle_write_file
<1>9. CASE r.type = "CloseHandle"
  BY Zenon, <1>0, <1>9 DEF Handled, handle_close, Harmless, IsResponse, Success, Outcome
<1>10. CASE r.type = "SetFileTime"
  BY <1>6, <1>10, OutcomeHarmless DEF Handled, handle_set_file_time
<1>11. CASE r.type \in {"ReadHandle", "CheckRemoveFile", "CheckRemoveDirectory", "GetDiskStats"}
  BY <1>0, <1>11, OutcomeHarmless
     DEF Handled, handle_read_file, handle_check_remove_file, handle_check_remove_directory
<1> QED
  BY <1>1, <1>2, <1>3, <1>4, <1>5, <1>7, <1>8, <1>9, <1>10, <1>11
     DEF IsRequest, PathRequests, HandleRequests

-----------------------------------------------------------------------------
(* Control: types, and request_mutex.                                      *)

\* request_mutex is held exactly from the sending of a request to the end of
\* its method.
Control ==
  /\ changes \in Nat /\ DOMAIN tree \subseteq Paths
  /\ request_mutex \in Threads \cup {NoThread}
  /\ pc \in [Threads -> {"idle", "check", "walk", "lock", "wire", "reply", "done"}]
  /\ call \in [Threads -> Requests \cup {NoRequest}]
  /\ response = [t \in Threads |-> response[t]]
  /\ \A t \in Threads : IsResponse(response[t])
  /\ \A t \in Threads : pc[t] \in {"wire", "reply"} <=> request_mutex = t

\* What a method does when it sends: it invalidates at least the stats of the
\* paths it names and, unless it opens a file, the listings of their parents.
Sends(t) ==
  \E S, D :
    /\ Send(t, S, D)
    /\ Named(call[t]) \subseteq S
    /\ call[t].type # "OpenHandle" => Relisted(call[t], FALSE) \ {<< >>} \subseteq D

\* A method that ends without a request shows nothing, or what is cached.
EndsEarly(t) ==
  \E status, S : ReturnEarly(t) /\ Show(t, status, Only(stat_cache, S))

LEMMA CallIsRequest ==
  ASSUME Control, NEW t \in Threads
  PROVE  IsRequest(call[t])
  BY RequestsAssumption
     DEF Control, IsRequest, NoRequest, PathRequests, HandleRequests

LEMMA ParentOfPath ==
  ASSUME NEW p \in Paths, p # << >>, Parent(p) # << >>
  PROVE  get_parent_path(p) = {Parent(p)}
  BY PathsAssumption DEF Parent, get_parent_path

LEMMA OnlyNothing == EmptyMap = Only(stat_cache, {})
  BY DEF EmptyMap, Only, Restrict

\* Every step of a thread before its request is handled is of one of a few kinds.
LEMMA ThreadSteps ==
  ASSUME Control, NEW t \in Threads, Thread(t)
  PROVE  \/ check_stat(t) \/ check_listing(t) \/ walk_listing(t)
         \/ Sends(t) \/ EndsEarly(t) \/ Serve(t) \/ ServeFails(t) \/ Finish(t)
<1>1. ASSUME req_stat_file(t) PROVE Sends(t) \/ EndsEarly(t)
  BY <1>1, OnlyNothing DEF req_stat_file, Sends, EndsEarly, Named, Relisted
<1>2. ASSUME req_open_file(t) PROVE Sends(t) \/ EndsEarly(t)
  BY <1>2, OnlyNothing DEF req_open_file, Sends, EndsEarly, Named
<1>3. ASSUME req_list_file_stats(t) \/ req_plain(t) PROVE Sends(t)
  BY <1>3 DEF req_list_file_stats, req_plain, PlainRequests, Sends, Named, Relisted
<1>4. ASSUME req_set_file_time(t) PROVE Sends(t)
  BY <1>4 DEF req_set_file_time, Sends, Named, Relisted
<1>5. ASSUME req_change_entry(t) PROVE Sends(t)
  <2>1. call[t].path \in Paths
    BY <1>5, CallIsRequest DEF req_change_entry, IsRequest, PathRequests
  <2>2. Relisted(call[t], FALSE) \ {<< >>} \subseteq get_parent_path(call[t].path)
    BY <1>5, <2>1, ParentOfPath DEF req_change_entry, Relisted, Named
  <2> QED
    BY Zenon, <1>5, <2>2 DEF req_change_entry, Sends, Named
<1>6. ASSUME req_move_entry(t) PROVE Sends(t)
  <2>1. call[t].path \in Paths /\ call[t].to \in Paths
    BY <1>6, CallIsRequest DEF req_move_entry, IsRequest, PathRequests
  <2>2. Relisted(call[t], FALSE) \ {<< >>}
          \subseteq get_parent_path(call[t].path) \cup get_parent_path(call[t].to)
    BY <1>6, <2>1, ParentOfPath DEF req_move_entry, Relisted, Named
  <2> QED
    BY Zenon, <1>6, <2>2 DEF req_move_entry, Sends, Named
<1> QED
  BY <1>1, <1>2, <1>3, <1>4, <1>5, <1>6 DEF Thread

LEMMA ShowKeeps ==
  ASSUME Control, NEW t \in Threads, NEW status, NEW m, Show(t, status, m)
  PROVE  /\ response' = [u \in Threads |-> response'[u]]
         /\ \A u \in Threads : IsResponse(response'[u])
         /\ response'[t].stats = m /\ response'[t].seen = response[t].seen
         /\ \A u \in Threads \ {t} : response'[u] = response[u]
<1>1. response = [u \in Threads |-> response[u]] /\ IsResponse(response[t])
  BY DEF Control
<1>2. /\ response' = [u \in Threads |-> response'[u]]
      /\ IsResponse(response'[t])
      /\ response'[t].stats = m /\ response'[t].seen = response[t].seen
      /\ \A u \in Threads \ {t} : response'[u] = response[u]
  BY Zenon, <1>1 DEF Show, IsResponse
<1> QED
  BY <1>2 DEF Control

LEMMA ControlInit == Init => Control
<1> SUFFICES ASSUME Init PROVE Control
  OBVIOUS
<1>1. changes \in Nat /\ DOMAIN tree \subseteq Paths
  BY TreeAssumption, AppAssumption DEF Init, ConnInit, DeviceInit, IsTree
<1>2. IsResponse(NoResponse)
  BY DEF IsResponse, NoResponse
<1> QED
  BY <1>1, <1>2, ThreadAssumption DEF Init, ConnInit, Control

LEMMA ControlThread ==
  ASSUME Control, NEW t \in Threads, Thread(t)
  PROVE  Control'
<1>0. NoThread \notin Threads
  BY ThreadAssumption
<1>1. CASE check_stat(t)
  BY <1>0, <1>1, ShowKeeps DEF Control, check_stat, Goes, device
<1>2. CASE check_listing(t)
  BY <1>0, <1>2 DEF Control, check_listing, Goes, device
<1>3. CASE walk_listing(t)
  <2>1. CASE \E p \in walk[t] : Show(t, "none", Overlaid(response[t].stats, Only(stat_cache, {p}))) /\ UNCHANGED pc
    BY <1>0, <1>3, <2>1, ShowKeeps DEF Control, walk_listing, device
  <2>2. CASE response' = [response EXCEPT ![t].status = "Success"] /\ pc[t] = "walk" /\ Goes(t, "done")
    BY <1>0, <1>3, <2>2 DEF Control, walk_listing, Goes, device, IsResponse
  <2> QED
    BY <1>3, <2>1, <2>2 DEF walk_listing
<1>4. CASE Sends(t)
  BY <1>0, <1>4 DEF Control, Sends, Send, Goes, device
<1>5. CASE EndsEarly(t)
  BY <1>0, <1>5, ShowKeeps DEF Control, EndsEarly, ReturnEarly, Goes, device
<1>6. CASE Serve(t)
  <2>1. Harmless(call[t], Handled(call[t]))
    BY CallIsRequest, HandledHarmless DEF Control
  <2> QED
    <3>1. PICK o : o = Handled(call[t])
      OBVIOUS
    <3>2. changes' \in Nat /\ DOMAIN tree' \subseteq Paths
      BY <1>6, <2>1 DEF Control, Serve, Harmless
    <3>3. /\ response' = [response EXCEPT ![t] = o.response] /\ IsResponse(o.response)
          /\ pc[t] = "wire" /\ Goes(t, "reply") /\ UNCHANGED <<request_mutex, call>>
      BY <1>6, <2>1, <3>1 DEF Serve, Harmless
    <3> QED
      BY <1>0, <3>2, <3>3 DEF Control, Goes
<1>7. CASE ServeFails(t)
  <2>1. IsResponse(Outcome("GenericFailure").response)
    BY OutcomeHarmless DEF Harmless, Control
  <2> QED
    BY <1>0, <1>7, <2>1 DEF Control, ServeFails, Goes, device
<1>8. CASE Finish(t)
  BY <1>0, <1>8, ShowKeeps DEF Control, Finish, Goes, device
<1> QED
  BY <1>1, <1>2, <1>3, <1>4, <1>5, <1>6, <1>7, <1>8, ThreadSteps

LEMMA ControlNext ==
  ASSUME Control, [Next]_vars
  PROVE  Control'
<1>1. ASSUME NEW t \in Threads, Thread(t) PROVE Control'
  BY <1>1, ControlThread
<1>2. ASSUME NEW t \in Threads, Return(t) PROVE Control'
  BY Zenon, <1>2 DEF Control, Return, Goes, device, NoResponse, IsResponse
<1>3. ASSUME NEW t \in Threads, NEW r \in Requests, Call(t, r) PROVE Control'
  BY Zenon, <1>3 DEF Control, Call, Ask, Goes, device, NoResponse, IsResponse
<1>4. CASE AppChange /\ UNCHANGED <<caches, request_mutex, pc, call, response, walk, expiries, history, calls>>
  <2>1. changes' \in Nat
    BY <1>4 DEF Control, AppChange
  <2>2. PICK p \in Paths : \/ tree' = With(tree, p, Entry(FALSE, changes + 1))
                          \/ tree' = Modified(tree[p].ino)
                          \/ tree' = Without(tree, {p})
    BY Zenon, <1>4 DEF AppChange
  <2>3. DOMAIN tree' \subseteq Paths
    <3>1. /\ DOMAIN With(tree, p, Entry(FALSE, changes + 1)) = DOMAIN tree \cup {p}
          /\ DOMAIN Modified(tree[p].ino) = DOMAIN tree
          /\ DOMAIN Without(tree, {p}) \subseteq DOMAIN tree
      BY DEF With, Without, Restrict, Modified
    <3> QED
      BY Zenon, <2>2, <3>1 DEF Control
  <2> QED
    BY <1>4, <2>1, <2>3 DEF Control
<1>5. CASE Expire
  BY <1>5 DEF Control, Expire, device
<1>6. CASE UNCHANGED vars
  BY <1>6 DEF Control, vars, conn_vars, device
<1> QED
  BY <1>1, <1>2, <1>3, <1>4, <1>5, <1>6 DEF Next

-----------------------------------------------------------------------------
(* The stats.                                                              *)

\* Stats no older than what the client did, or what any caller was shown.
Fresh(m) ==
  \A p \in DOMAIN m :
    /\ p \in Paths /\ m[p].seen \in Nat
    /\ lastop[p] <= m[p].seen /\ shown[p] <= m[p].seen /\ m[p].seen <= changes

\* The inductive invariant behind StatCacheCoherent and StatsMonotone.  While a
\* request is on the wire the paths it names are not cached, and an answer on
\* its way is as fresh as the cache it is about to be put into.
StatInv ==
  /\ lastop \in [Paths -> Nat] /\ shown \in [Paths -> Nat]
  /\ \A p \in Paths : lastop[p] <= changes /\ shown[p] <= changes
  /\ Fresh(stat_cache)
  /\ \A t \in Threads :
       /\ pc[t] = "wire" => Named(call[t]) \cap DOMAIN stat_cache = {}
       /\ pc[t] = "reply" =>
            /\ Fresh(response[t].stats)
            /\ \A p \in DOMAIN response[t].stats \cap DOMAIN stat_cache :
                 stat_cache[p].seen <= response[t].stats[p].seen
       /\ pc[t] = "check" => DOMAIN response[t].stats = {}
       /\ pc[t] = "walk" =>
            \A p \in DOMAIN response[t].stats :
              /\ p \in Paths /\ response[t].stats[p].seen \in Nat
              /\ response[t].stats[p].seen <= shown[p]

LEMMA StatInit == Init => StatInv
  BY AppAssumption
     DEF Init, ConnInit, DeviceInit, StatInv, Fresh, EmptyMap

\* Showing what is cached, or what was shown before, keeps the invariant.
LEMMA StatShow ==
  ASSUME Control, StatInv, NEW t \in Threads, NEW status, NEW m, Show(t, status, m),
         UNCHANGED <<changes, stat_cache, lastop, call>>,
         \A u \in Threads \ {t} : pc'[u] = pc[u],
         pc'[t] \in {"walk", "done"},
         \A p \in DOMAIN m :
           \/ p \in DOMAIN stat_cache /\ m[p] = stat_cache[p]
           \/ p \in Paths /\ m[p].seen \in Nat /\ m[p].seen <= shown[p]
  PROVE  StatInv'
<1>1. /\ response'[t].stats = m
      /\ \A u \in Threads \ {t} : response'[u] = response[u]
  BY ShowKeeps
<1>2. \A p \in DOMAIN m : p \in Paths /\ m[p].seen \in Nat /\ m[p].seen <= changes
  BY DEF StatInv, Fresh, Control
<1>3. shown' \in [Paths -> Nat]
  BY <1>2 DEF Show, StatInv
<1>4. \A p \in Paths :
        /\ shown[p] <= shown'[p] /\ shown'[p] <= changes
        /\ p \in DOMAIN m => m[p].seen <= shown'[p]
        /\ p \in DOMAIN stat_cache => shown'[p] <= stat_cache[p].seen
        /\ shown'[p] = shown[p] \/ p \in DOMAIN stat_cache
  BY <1>2 DEF Show, StatInv, Fresh, Control
<1>5. Fresh(stat_cache)'
  BY <1>4 DEF StatInv, Fresh
<1>6. ASSUME NEW u \in Threads, pc'[u] = "reply"
      PROVE  Fresh(response[u].stats)'
  <2>1. response'[u] = response[u] /\ pc[u] = "reply"
    BY <1>1, <1>6
  <2>2. \A p \in DOMAIN response[u].stats :
          /\ p \in Paths /\ response[u].stats[p].seen \in Nat /\ shown[p] <= response[u].stats[p].seen
          /\ p \in DOMAIN stat_cache =>
               stat_cache[p].seen \in Nat /\ stat_cache[p].seen <= response[u].stats[p].seen
    BY <2>1 DEF StatInv, Fresh
  <2>3. \A p \in DOMAIN response[u].stats : shown'[p] <= response[u].stats[p].seen
    BY <1>3, <1>4, <2>2
  <2> QED
    BY <2>1, <2>3 DEF StatInv, Fresh
<1>7. ASSUME NEW u \in Threads, pc'[u] = "walk"
      PROVE  \A p \in DOMAIN response'[u].stats :
               /\ p \in Paths /\ response'[u].stats[p].seen \in Nat
               /\ response'[u].stats[p].seen <= shown'[p]
  <2>1. CASE u = t
    BY <1>1, <1>2, <1>4, <2>1
  <2>2. CASE u # t
    BY <1>1, <1>3, <1>4, <1>7, <2>2 DEF StatInv
  <2> QED
    BY <2>1, <2>2
<1> QED
  BY <1>1, <1>3, <1>4, <1>5, <1>6, <1>7 DEF StatInv

\* A step that only takes stats out of the cache and does not touch the rest.
LEMMA StatErase ==
  ASSUME StatInv, NEW S, stat_cache' = Without(stat_cache, S),
         UNCHANGED <<changes, lastop, shown, response, call>>,
         \A u \in Threads : \/ pc'[u] = pc[u]
                            \/ pc'[u] = "wire" /\ Named(call[u]) \subseteq S
  PROVE  StatInv'
<1>1. /\ DOMAIN stat_cache' \subseteq DOMAIN stat_cache
      /\ S \cap DOMAIN stat_cache' = {}
      /\ \A p \in DOMAIN stat_cache' : stat_cache'[p] = stat_cache[p]
  BY DEF Without, Restrict
<1>2. Fresh(stat_cache)'
  BY <1>1 DEF StatInv, Fresh
<1>3. \A u \in Threads : pc'[u] = "wire" => Named(call'[u]) \cap DOMAIN stat_cache' = {}
  BY <1>1 DEF StatInv
<1>4. \A u \in Threads : pc'[u] = "reply" =>
        /\ Fresh(response[u].stats)'
        /\ \A p \in DOMAIN response'[u].stats \cap DOMAIN stat_cache' :
             stat_cache'[p].seen <= response'[u].stats[p].seen
  BY <1>1 DEF StatInv, Fresh
<1> QED
  BY <1>2, <1>3, <1>4 DEF StatInv

LEMMA StatServe ==
  ASSUME Control, StatInv, NEW t \in Threads, Serve(t)
  PROVE  StatInv'
<1>0. PICK o : o = Handled(call[t])
  OBVIOUS
<1>1. Harmless(call[t], o)
  BY <1>0, CallIsRequest, HandledHarmless DEF Control
<1>2. /\ changes' \in Nat /\ changes <= changes'
      /\ o.tree = tree => changes' = changes
  BY <1>0 DEF Serve, Control
<1>3. /\ lastop' \in [Paths -> Nat]
      /\ \A p \in Paths : /\ lastop'[p] <= changes'
                          /\ lastop'[p] = lastop[p] \/ (p \in Named(call[t]) /\ o.tree # tree)
  <2>1. lastop' = [p \in Paths |-> IF p \in Named(call[t]) /\ o.tree # tree THEN changes' ELSE lastop[p]]
    BY <1>0 DEF Serve
  <2>2. lastop \in [Paths -> Nat] /\ changes \in Nat /\ \A p \in Paths : lastop[p] <= changes
    BY DEF StatInv, Control
  <2> QED
    BY <1>2, <2>1, <2>2
<1>4. Named(call[t]) \cap DOMAIN stat_cache = {}
  BY DEF Serve, StatInv
<1>5. stat_cache' = stat_cache /\ shown' = shown /\ call' = call
  BY DEF Serve, caches
<1>6. Fresh(stat_cache)'
  BY <1>2, <1>3, <1>4, <1>5 DEF StatInv, Fresh, Control
<1>7. /\ response'[t] = o.response /\ pc'[t] = "reply"
      /\ \A u \in Threads \ {t} : response'[u] = response[u] /\ pc'[u] = pc[u]
  BY <1>0 DEF Serve, Goes, Control
<1>8. \A u \in Threads \ {t} : pc[u] \notin {"wire", "reply"}
  BY DEF Serve, Control
<1>9. Fresh(response[t].stats)'
  <2>1. \A p \in DOMAIN o.response.stats : o.tree = tree
    BY <1>1 DEF Harmless
  <2> SUFFICES ASSUME NEW p \in DOMAIN response'[t].stats
               PROVE  /\ p \in Paths /\ response'[t].stats[p].seen \in Nat
                      /\ lastop'[p] <= response'[t].stats[p].seen
                      /\ shown'[p] <= response'[t].stats[p].seen
                      /\ response'[t].stats[p].seen <= changes'
    BY DEF Fresh
  <2>2. p \in Paths /\ response'[t].stats[p].seen = changes /\ changes' = changes
    BY <1>1, <1>2, <1>7, <2>1 DEF Harmless
  <2> QED
    BY <1>2, <1>3, <1>5, <2>2 DEF StatInv, Control
<1>10. \A p \in DOMAIN response'[t].stats \cap DOMAIN stat_cache' :
         stat_cache'[p].seen <= response'[t].stats[p].seen
  BY <1>1, <1>5, <1>7 DEF Harmless, StatInv, Fresh
<1>11. \A p \in Paths : shown'[p] <= changes'
  BY <1>2, <1>5 DEF StatInv, Control
<1> QED
  BY <1>3, <1>5, <1>6, <1>7, <1>8, <1>9, <1>10, <1>11 DEF StatInv

LEMMA StatFinish ==
  ASSUME Control, StatInv, NEW t \in Threads, Finish(t)
  PROVE  StatInv'
<1> DEFINE got == response[t].stats
<1>1. /\ stat_cache' = Overlaid(stat_cache, got)
      /\ Show(t, response[t].status, got)
      /\ UNCHANGED <<changes, lastop, call>>
  BY DEF Finish, device
<1>2. /\ pc'[t] = "done"
      /\ \A u \in Threads \ {t} : pc'[u] = pc[u] /\ pc[u] \notin {"wire", "reply"}
  BY DEF Finish, Goes, Control
<1>3. Fresh(got)
  BY DEF Finish, StatInv
<1>4. /\ shown' \in [Paths -> Nat]
      /\ \A p \in Paths : /\ shown[p] <= shown'[p] /\ shown'[p] <= changes
                          /\ p \in DOMAIN got => shown'[p] = got[p].seen
                          /\ p \notin DOMAIN got => shown'[p] = shown[p]
  <2>1. shown' = [p \in Paths |-> IF p \in DOMAIN got /\ got[p].seen > shown[p]
                                 THEN got[p].seen ELSE shown[p]]
    BY <1>1 DEF Show
  <2>2. shown \in [Paths -> Nat] /\ changes \in Nat /\ \A p \in Paths : shown[p] <= changes
    BY DEF StatInv, Control
  <2>3. \A p \in DOMAIN got : got[p].seen \in Nat /\ shown[p] <= got[p].seen /\ got[p].seen <= changes
    BY <1>3 DEF Fresh
  <2> HIDE DEF got
  <2> QED
    BY <2>1, <2>2, <2>3
<1>5. Fresh(stat_cache)'
  <2>1. DOMAIN stat_cache' = DOMAIN stat_cache \cup DOMAIN got
    BY <1>1 DEF Overlaid
  <2>2. \A p \in DOMAIN got : stat_cache'[p] = got[p]
    BY <1>1 DEF Overlaid
  <2>3. \A p \in DOMAIN stat_cache \ DOMAIN got : stat_cache'[p] = stat_cache[p]
    BY <1>1 DEF Overlaid
  <2>4. ASSUME NEW p \in DOMAIN got
        PROVE  /\ p \in Paths /\ got[p].seen \in Nat
               /\ lastop[p] <= got[p].seen /\ shown'[p] <= got[p].seen /\ got[p].seen <= changes
    <3>1. /\ p \in Paths /\ got[p].seen \in Nat
          /\ lastop[p] <= got[p].seen /\ got[p].seen <= changes
      BY <1>3 DEF Fresh
    <3> HIDE DEF got
    <3> QED
      BY <1>4, <3>1
  <2>5. ASSUME NEW p \in DOMAIN stat_cache \ DOMAIN got
        PROVE  /\ p \in Paths /\ stat_cache[p].seen \in Nat
               /\ lastop[p] <= stat_cache[p].seen /\ shown'[p] <= stat_cache[p].seen
               /\ stat_cache[p].seen <= changes
    <3>1. /\ p \in Paths /\ stat_cache[p].seen \in Nat
          /\ lastop[p] <= stat_cache[p].seen /\ shown[p] <= stat_cache[p].seen
          /\ stat_cache[p].seen <= changes
      BY DEF StatInv, Fresh
    <3> HIDE DEF got
    <3> QED
      BY <1>4, <3>1
  <2>6. lastop' = lastop /\ changes' = changes
    BY <1>1
  <2> HIDE DEF got
  <2> QED
    BY <2>1, <2>2, <2>3, <2>4, <2>5, <2>6 DEF Fresh
<1>6. \A u \in Threads \ {t} : response'[u] = response[u]
  BY <1>1, ShowKeeps
<1>7. \A u \in Threads \ {t} : pc[u] = "walk" =>
        \A p \in DOMAIN response[u].stats :
          /\ p \in Paths /\ response[u].stats[p].seen \in Nat
          /\ response[u].stats[p].seen <= shown'[p]
  <2> SUFFICES ASSUME NEW u \in Threads, pc[u] = "walk", NEW p \in DOMAIN response[u].stats
               PROVE  /\ p \in Paths /\ response[u].stats[p].seen \in Nat
                      /\ response[u].stats[p].seen <= shown'[p]
    OBVIOUS
  <2>1. /\ p \in Paths /\ response[u].stats[p].seen \in Nat
        /\ response[u].stats[p].seen <= shown[p] /\ shown[p] \in Nat
    BY DEF StatInv
  <2>2. shown[p] <= shown'[p] /\ shown'[p] \in Nat
    BY <1>4, <2>1
  <2> QED
    BY <2>1, <2>2
<1>8. /\ lastop' \in [Paths -> Nat] /\ shown' \in [Paths -> Nat]
      /\ \A p \in Paths : lastop'[p] <= changes' /\ shown'[p] <= changes'
  BY <1>1, <1>4 DEF StatInv
<1>9. ASSUME NEW u \in Threads \ {t}
      PROVE  /\ pc'[u] \notin {"wire", "reply"}
             /\ pc'[u] = "check" => DOMAIN response'[u].stats = {}
  BY <1>2, <1>6 DEF StatInv
<1> HIDE DEF got
<1> QED
  BY <1>2, <1>5, <1>6, <1>7, <1>8, <1>9 DEF StatInv

\* A thread goes on, or begins or ends a call, with the caches as they are.
LEMMA StatMoves ==
  ASSUME StatInv, NEW t \in Threads,
         UNCHANGED <<changes, stat_cache, lastop, shown>>,
         \A u \in Threads \ {t} : /\ pc'[u] = pc[u] /\ call'[u] = call[u]
                                  /\ response'[u] = response[u],
         \/ pc'[t] \in {"idle", "lock", "done"}
         \/ pc'[t] # "wire" /\ DOMAIN response'[t].stats = {}
  PROVE  StatInv'
<1>1. Fresh(stat_cache)' /\ (\A m : Fresh(m) => Fresh(m)')
  BY DEF StatInv, Fresh
<1>2. ASSUME NEW u \in Threads \ {t}
      PROVE  /\ pc'[u] = "wire" => Named(call'[u]) \cap DOMAIN stat_cache' = {}
             /\ pc'[u] = "check" => DOMAIN response'[u].stats = {}
             /\ pc'[u] = "walk" => \A p \in DOMAIN response'[u].stats :
                  /\ p \in Paths /\ response'[u].stats[p].seen \in Nat
                  /\ response'[u].stats[p].seen <= shown'[p]
  BY DEF StatInv
<1>3. ASSUME NEW u \in Threads \ {t}, pc'[u] = "reply"
      PROVE  /\ Fresh(response[u].stats)'
             /\ \A p \in DOMAIN response'[u].stats \cap DOMAIN stat_cache' :
                  stat_cache'[p].seen <= response'[u].stats[p].seen
  BY <1>3 DEF StatInv, Fresh
<1>4. pc'[t] = "reply" => Fresh(response[t].stats)'
  BY DEF Fresh
<1> QED
  BY <1>1, <1>2, <1>3, <1>4 DEF StatInv

LEMMA StatThread ==
  ASSUME Control, StatInv, NEW t \in Threads, Thread(t)
  PROVE  StatInv'
<1>1. CASE check_stat(t)
  <2>1. CASE call[t].path \in DOMAIN stat_cache
    <3>1. \A p \in DOMAIN Only(stat_cache, {call[t].path}) :
            p \in DOMAIN stat_cache /\ Only(stat_cache, {call[t].path})[p] = stat_cache[p]
      BY DEF Only, Restrict
    <3>2. /\ Show(t, "Success", Only(stat_cache, {call[t].path}))
          /\ UNCHANGED <<changes, stat_cache, lastop, call>>
          /\ pc'[t] = "done" /\ \A u \in Threads \ {t} : pc'[u] = pc[u]
      BY <1>1, <2>1 DEF check_stat, Goes, device, caches, Control
    <3> QED
      BY <3>1, <3>2, StatShow
  <2>2. CASE call[t].path \notin DOMAIN stat_cache
    BY <1>1, <2>2, StatMoves DEF check_stat, Goes, device, caches, Control
  <2> QED
    BY <2>1, <2>2
<1>2. CASE check_listing(t)
  <2>1. DOMAIN response[t].stats = {}
    BY <1>2 DEF check_listing, StatInv
  <2> QED
    BY <1>2, <2>1, StatMoves DEF check_listing, Goes, device, caches, history, Control
<1>3. CASE walk_listing(t)
  <2>1. ASSUME NEW p \in walk[t],
               Show(t, "none", Overlaid(response[t].stats, Only(stat_cache, {p}))), UNCHANGED pc
        PROVE  StatInv'
    <3> DEFINE m == Overlaid(response[t].stats, Only(stat_cache, {p}))
    <3>1. \A q \in DOMAIN m :
            \/ q \in DOMAIN stat_cache /\ m[q] = stat_cache[q]
            \/ q \in DOMAIN response[t].stats /\ m[q] = response[t].stats[q]
      BY DEF Overlaid, Only, Restrict
    <3>2. \A q \in DOMAIN m :
            \/ q \in DOMAIN stat_cache /\ m[q] = stat_cache[q]
            \/ q \in Paths /\ m[q].seen \in Nat /\ m[q].seen <= shown[q]
      BY Zenon, <1>3, <3>1 DEF walk_listing, StatInv
    <3> QED
      BY Zenon, <1>3, <2>1, <3>2, StatShow DEF walk_listing, device, caches
  <2>2. CASE response' = [response EXCEPT ![t].status = "Success"] /\ Goes(t, "done") /\ UNCHANGED shown
    BY <1>3, <2>2, StatMoves DEF walk_listing, Goes, device, caches, Control
  <2> QED
    BY Zenon, <1>3, <2>1, <2>2 DEF walk_listing
<1>4. CASE Sends(t)
  BY <1>4, StatErase DEF Sends, Send, Goes, device, history, Control
<1>5. CASE EndsEarly(t)
  <2>1. PICK status, S : ReturnEarly(t) /\ Show(t, status, Only(stat_cache, S))
    BY <1>5 DEF EndsEarly
  <2>2. \A p \in DOMAIN Only(stat_cache, S) :
          p \in DOMAIN stat_cache /\ Only(stat_cache, S)[p] = stat_cache[p]
    BY DEF Only, Restrict
  <2>3. /\ UNCHANGED <<changes, stat_cache, lastop, call>>
        /\ pc'[t] = "done" /\ \A u \in Threads \ {t} : pc'[u] = pc[u]
    BY <2>1 DEF ReturnEarly, Goes, device, caches, Control
  <2> QED
    BY <2>1, <2>2, <2>3, StatShow
<1>6. CASE ServeFails(t)
  <2>1. /\ response'[t].stats = EmptyMap
        /\ \A u \in Threads \ {t} : response'[u] = response[u]
    BY <1>6 DEF ServeFails, Outcome, Control
  <2> QED
    BY <1>6, <2>1, StatMoves DEF ServeFails, Goes, device, caches, history, EmptyMap, Control
<1> QED
  BY <1>1, <1>2, <1>3, <1>4, <1>5, <1>6, StatServe, StatFinish, ThreadSteps

LEMMA StatNext ==
  ASSUME Control, StatInv, [Next]_vars
  PROVE  StatInv'
<1>1. ASSUME NEW t \in Threads, Thread(t) PROVE StatInv'
  BY <1>1, StatThread
<1>2. ASSUME NEW t \in Threads, Return(t) PROVE StatInv'
  BY <1>2, StatMoves DEF Control, Return, Goes, device, caches, history
<1>3. ASSUME NEW t \in Threads, NEW r \in Requests, Call(t, r) PROVE StatInv'
  BY <1>3, StatMoves DEF Control, Call, Ask, Goes, device, caches, history, NoResponse, EmptyMap
<1>4. CASE AppChange /\ UNCHANGED <<caches, request_mutex, pc, call, response, walk, expiries, history, calls>>
  <2>1. changes' = changes + 1 /\ UNCHANGED <<stat_cache, lastop, shown, pc, call, response>>
    BY <1>4 DEF AppChange, caches, history
  <2>2. \A m : Fresh(m) => \A p \in DOMAIN m : m[p].seen <= changes'
    BY <2>1 DEF Fresh, Control
  <2>3. \A p \in Paths : lastop[p] <= changes' /\ shown[p] <= changes'
    BY <2>1 DEF StatInv, Control
  <2>4. Fresh(stat_cache)'
    BY <2>1, <2>2 DEF StatInv, Fresh
  <2>5. \A u \in Threads : pc'[u] = "reply" => Fresh(response[u].stats)'
    BY <2>1, <2>2 DEF StatInv, Fresh
  <2> QED
    BY <2>1, <2>3, <2>4, <2>5 DEF StatInv
<1>5. CASE Expire
  <2>1. CASE \E p : stat_cache' = Without(stat_cache, {p})
    BY <1>5, <2>1, StatErase DEF Expire, device, history
  <2>2. CASE UNCHANGED stat_cache
    BY Zenon, <1>5, <2>2 DEF Expire, device, history, StatInv, Fresh
  <2> QED
    BY Zenon, <1>5, <2>1, <2>2 DEF Expire
<1>6. CASE UNCHANGED vars
  BY Zenon, <1>6 DEF StatInv, Fresh, vars, conn_vars, device, caches, history
<1> QED
  BY <1>1, <1>2, <1>3, <1>4, <1>5, <1>6 DEF Next

\* Control and StatInv are invariants of the specification.
LEMMA StatInvariant == Spec => [](Control /\ StatInv)
<1>1. Init => Control /\ StatInv
  BY ControlInit, StatInit
<1>2. (Control /\ StatInv) /\ [Next]_vars => (Control /\ StatInv)'
  BY ControlNext, StatNext
<1> QED
  BY <1>1, <1>2, PTL DEF Spec

\* Whatever the threads call and however their requests interleave, a cached
\* stat is never older than what this client itself did to the path by name.
THEOREM StatsCoherent == Spec => []StatCacheCoherent
<1>1. Control /\ StatInv => StatCacheCoherent
  BY DEF StatInv, Fresh, StatCacheCoherent
<1> QED
  BY <1>1, StatInvariant, PTL

\* The cache never holds a stat older than one that a caller was already given.
THEOREM StatsNeverGoBack == Spec => []StatsMonotone
<1>1. Control /\ StatInv => StatsMonotone
  BY DEF StatInv, Fresh, StatsMonotone
<1> QED
  BY <1>1, StatInvariant, PTL

-----------------------------------------------------------------------------
(* The listings.                                                           *)

\* The inductive invariant behind ListCacheCoherent.  A listing is as recent as
\* what the client did to its directory, unless the open that created a file in
\* it is about to invalidate it; no listing that a request on the wire changes
\* is cached, but for the root's.
ListInv ==
  /\ lastdir \in [Paths -> Nat]
  /\ \A d \in Paths : lastdir[d] <= changes
  /\ \A d \in DOMAIN dir_list_cache : d \in Paths /\ dir_list_cache[d].seen \in Nat
  /\ \A d \in DOMAIN dir_list_cache \ {<< >>} :
       \/ dir_list_cache[d].seen >= lastdir[d]
       \/ \E t \in Threads :
            /\ pc[t] = "reply" /\ call[t].type = "OpenHandle" /\ call[t].mode \in Creating
            /\ d \in get_parent_path(call[t].path)
  /\ \A t \in Threads :
       /\ pc[t] = "wire" /\ call[t].type # "OpenHandle" =>
            Relisted(call[t], FALSE) \cap DOMAIN dir_list_cache \subseteq {<< >>}
       /\ pc[t] = "reply" =>
            /\ response[t].seen \in Nat
            /\ call[t].type = "ListDirectory" => \A d \in Paths : lastdir[d] <= response[t].seen

LEMMA ListInit == Init => ListInv
  BY AppAssumption, ThreadAssumption
     DEF Init, ConnInit, DeviceInit, ListInv, EmptyMap

\* A step that takes listings out of the cache, leaves the daemon alone and no
\* thread enters or leaves "reply".
LEMMA ListErase ==
  ASSUME ListInv, NEW D,
         \/ dir_list_cache' = Without(dir_list_cache, D)
         \/ D = {} /\ UNCHANGED dir_list_cache,
         UNCHANGED <<lastdir, changes>>,
         \A u \in Threads :
           \/ pc'[u] = pc[u] /\ UNCHANGED <<call[u], response[u]>>
           \/ /\ pc[u] \notin {"wire", "reply"} /\ pc'[u] \notin {"wire", "reply"}
           \/ /\ pc[u] = "lock" /\ pc'[u] = "wire" /\ UNCHANGED call[u]
              /\ call[u].type # "OpenHandle" => Relisted(call[u], FALSE) \ {<< >>} \subseteq D
  PROVE  ListInv'
<1>1. /\ DOMAIN dir_list_cache' \subseteq DOMAIN dir_list_cache
      /\ D \cap DOMAIN dir_list_cache' = {}
      /\ \A d \in DOMAIN dir_list_cache' : dir_list_cache'[d] = dir_list_cache[d]
  BY DEF Without, Restrict
<1>2. \A d \in DOMAIN dir_list_cache' \ {<< >>} :
        \/ dir_list_cache'[d].seen >= lastdir'[d]
        \/ \E t \in Threads :
             /\ pc'[t] = "reply" /\ call'[t].type = "OpenHandle" /\ call'[t].mode \in Creating
             /\ d \in get_parent_path(call'[t].path)
  <2> TAKE d \in DOMAIN dir_list_cache' \ {<< >>}
  <2>1. CASE dir_list_cache[d].seen >= lastdir[d]
    BY <1>1, <2>1
  <2>2. ASSUME NEW t \in Threads, pc[t] = "reply", call[t].type = "OpenHandle",
               call[t].mode \in Creating, d \in get_parent_path(call[t].path)
        PROVE  pc'[t] = "reply" /\ call'[t] = call[t]
    BY Zenon, <2>2
  <2> QED
    BY <1>1, <2>1, <2>2 DEF ListInv
<1>3. ASSUME NEW u \in Threads, pc'[u] = "wire", call'[u].type # "OpenHandle"
      PROVE  Relisted(call'[u], FALSE) \cap DOMAIN dir_list_cache' \subseteq {<< >>}
  BY Zenon, <1>1, <1>3 DEF ListInv
<1>4. ASSUME NEW u \in Threads, pc'[u] = "reply"
      PROVE  pc[u] = "reply" /\ call'[u] = call[u] /\ response'[u] = response[u]
  BY Zenon, <1>4
<1> QED
  BY Zenon, <1>1, <1>2, <1>3, <1>4 DEF ListInv

LEMMA ListServe ==
  ASSUME Control, ListInv, NEW t \in Threads, Serve(t)
  PROVE  ListInv'
<1>0. PICK o : o = Handled(call[t])
  OBVIOUS
<1>1. Harmless(call[t], o)
  BY <1>0, CallIsRequest, HandledHarmless DEF Control
<1>2. /\ changes' \in Nat /\ changes <= changes'
      /\ UNCHANGED <<dir_list_cache, call>>
  BY <1>0 DEF Serve, Control, caches
<1>3. /\ lastdir' \in [Paths -> Nat]
      /\ \A d \in Paths : /\ lastdir'[d] <= changes'
                          /\ lastdir'[d] = lastdir[d] \/ d \in Relisted(call[t], o.response.made)
                          /\ o.tree = tree => lastdir'[d] = lastdir[d]
  <2>1. lastdir' = [d \in Paths |-> IF d \in Relisted(call[t], o.response.made) /\ o.tree # tree
                                     THEN changes' ELSE lastdir[d]]
    BY <1>0 DEF Serve
  <2>2. lastdir \in [Paths -> Nat] /\ changes \in Nat /\ \A d \in Paths : lastdir[d] <= changes
    BY DEF ListInv, Control
  <2> QED
    BY <1>2, <2>1, <2>2
<1>4. /\ response'[t] = o.response /\ pc[t] = "wire" /\ pc'[t] = "reply"
      /\ \A u \in Threads \ {t} : /\ response'[u] = response[u] /\ pc'[u] = pc[u]
                                  /\ pc[u] \notin {"wire", "reply"}
  BY <1>0 DEF Serve, Goes, Control
<1>5. \A d \in DOMAIN dir_list_cache \ {<< >>} : d \in Paths /\ dir_list_cache[d].seen >= lastdir[d]
  BY <1>4 DEF ListInv
<1>6. ASSUME NEW d \in DOMAIN dir_list_cache \ {<< >>}, lastdir'[d] # lastdir[d]
      PROVE  /\ call[t].type = "OpenHandle" /\ call[t].mode \in Creating
             /\ d \in get_parent_path(call[t].path)
  <2>1. d \in Relisted(call[t], o.response.made)
    BY <1>3, <1>5, <1>6
  <2>2. call[t].type = "OpenHandle"
    <3> SUFFICES ASSUME call[t].type # "OpenHandle" PROVE FALSE
      OBVIOUS
    <3>1. Relisted(call[t], o.response.made) = Relisted(call[t], FALSE)
      BY DEF Relisted
    <3> QED
      BY Zenon, <1>4, <1>6, <2>1, <3>1 DEF ListInv
  <2>3. /\ o.response.made /\ call[t].path # << >> /\ d = Parent(call[t].path)
    BY <2>1, <2>2 DEF Relisted
  <2>4. call[t].path \in Paths
    BY <2>2, CallIsRequest DEF IsRequest, PathRequests
  <2> QED
    BY <1>1, <1>6, <2>2, <2>3, <2>4, ParentOfPath DEF Harmless
<1>7. \A d \in DOMAIN dir_list_cache' \ {<< >>} :
        \/ dir_list_cache'[d].seen >= lastdir'[d]
        \/ \E u \in Threads :
             /\ pc'[u] = "reply" /\ call'[u].type = "OpenHandle" /\ call'[u].mode \in Creating
             /\ d \in get_parent_path(call'[u].path)
  BY <1>2, <1>4, <1>5, <1>6
<1>8. /\ response'[t].seen \in Nat
      /\ call[t].type = "ListDirectory" => \A d \in Paths : lastdir'[d] <= response'[t].seen
  <2>1. response'[t].seen = changes /\ changes \in Nat
    BY <1>1, <1>4 DEF Harmless, Control
  <2>2. call[t].type = "ListDirectory" => Relisted(call[t], o.response.made) = {}
    BY DEF Relisted, Named
  <2> QED
    BY <1>3, <2>1, <2>2 DEF ListInv
<1>9. \A d \in DOMAIN dir_list_cache' : d \in Paths /\ dir_list_cache'[d].seen \in Nat
  BY <1>2 DEF ListInv
<1>10. ASSUME NEW u \in Threads
       PROVE  /\ pc'[u] # "wire"
              /\ pc'[u] = "reply" =>
                   /\ response'[u].seen \in Nat
                   /\ call'[u].type = "ListDirectory" => \A d \in Paths : lastdir'[d] <= response'[u].seen
  <2>1. u # t => pc'[u] \notin {"wire", "reply"}
    BY <1>4
  <2> QED
    BY <1>2, <1>4, <1>8, <2>1
<1> QED
  BY Zenon, <1>3, <1>7, <1>9, <1>10 DEF ListInv

LEMMA ListFinish ==
  ASSUME Control, ListInv, NEW t \in Threads, Finish(t)
  PROVE  ListInv'
<1>1. /\ UNCHANGED <<changes, lastdir, call>>
      /\ pc[t] = "reply" /\ pc'[t] = "done"
      /\ \A u \in Threads \ {t} : pc'[u] = pc[u] /\ pc[u] \notin {"wire", "reply"}
  BY DEF Finish, Goes, device, Control
<1>2. ASSUME NEW u \in Threads PROVE pc'[u] \notin {"wire", "reply"}
  BY <1>1
<1>3. \A d \in DOMAIN dir_list_cache \ {<< >>} :
        \/ dir_list_cache[d].seen >= lastdir[d]
        \/ /\ call[t].type = "OpenHandle" /\ call[t].mode \in Creating
           /\ d \in get_parent_path(call[t].path)
  BY <1>1 DEF ListInv
<1>4. CASE call[t].type = "ListDirectory" /\ response[t].status = "Success"
  <2>1. PICK names : dir_list_cache' =
          With(dir_list_cache, call[t].path, [names |-> names, seen |-> response[t].seen])
    BY Zenon, <1>4 DEF Finish
  <2>2. /\ DOMAIN dir_list_cache' = DOMAIN dir_list_cache \cup {call[t].path}
        /\ dir_list_cache'[call[t].path].seen = response[t].seen
        /\ \A d \in DOMAIN dir_list_cache \ {call[t].path} : dir_list_cache'[d] = dir_list_cache[d]
    BY <2>1 DEF With
  <2>3. call[t].path \in Paths
    BY <1>4, CallIsRequest DEF IsRequest, PathRequests
  <2>4. response[t].seen \in Nat /\ \A d \in Paths : lastdir[d] <= response[t].seen
    BY Zenon, <1>1, <1>4 DEF ListInv
  <2>5. \A d \in DOMAIN dir_list_cache' : d \in Paths /\ dir_list_cache'[d].seen \in Nat
    BY <2>2, <2>3, <2>4 DEF ListInv
  <2>6. \A d \in DOMAIN dir_list_cache' \ {<< >>} : dir_list_cache'[d].seen >= lastdir'[d]
    <3> TAKE d \in DOMAIN dir_list_cache' \ {<< >>}
    <3>1. CASE d = call[t].path
      BY <1>1, <2>2, <2>3, <2>4, <3>1 DEF ListInv
    <3>2. CASE d # call[t].path
      BY Zenon, <1>1, <1>3, <1>4, <2>2, <3>2
    <3> QED
      BY <3>1, <3>2
  <2> QED
    BY Zenon, <1>1, <1>2, <2>5, <2>6 DEF ListInv
<1>5. CASE /\ ~(call[t].type = "ListDirectory" /\ response[t].status = "Success")
           /\ call[t].type = "OpenHandle" /\ call[t].mode \in Creating
  <2>1. dir_list_cache' = Without(dir_list_cache, get_parent_path(call[t].path))
    BY Zenon, <1>5 DEF Finish
  <2>2. /\ DOMAIN dir_list_cache' = DOMAIN dir_list_cache \ get_parent_path(call[t].path)
        /\ \A d \in DOMAIN dir_list_cache' : dir_list_cache'[d] = dir_list_cache[d]
    BY <2>1 DEF Without, Restrict
  <2> QED
    BY Zenon, <1>1, <1>2, <1>3, <2>2 DEF ListInv
<1>6. CASE /\ ~(call[t].type = "ListDirectory" /\ response[t].status = "Success")
           /\ ~(call[t].type = "OpenHandle" /\ call[t].mode \in Creating)
  <2>1. dir_list_cache' = dir_list_cache
    BY Zenon, <1>6 DEF Finish
  <2> QED
    BY Zenon, <1>1, <1>2, <1>3, <1>6, <2>1 DEF ListInv
<1> QED
  BY <1>4, <1>5, <1>6

LEMMA ListThread ==
  ASSUME Control, ListInv, NEW t \in Threads, Thread(t)
  PROVE  ListInv'
<1>1. CASE check_stat(t) \/ check_listing(t) \/ walk_listing(t) \/ EndsEarly(t)
  <2>1. /\ UNCHANGED <<lastdir, changes, dir_list_cache>>
        /\ pc[t] \notin {"wire", "reply"} /\ pc'[t] \notin {"wire", "reply"}
        /\ \A u \in Threads \ {t} : pc'[u] = pc[u]
    BY Zenon, <1>1 DEF check_stat, check_listing, walk_listing, EndsEarly, ReturnEarly, Goes,
                device, caches, history, Control
  <2>2. call' = call
    BY <1>1 DEF check_stat, check_listing, walk_listing, EndsEarly, ReturnEarly
  <2>3. \A u \in Threads \ {t} : response'[u] = response[u]
    BY Zenon, <1>1, ShowKeeps DEF check_stat, check_listing, walk_listing, EndsEarly, Control
  <2> QED
    BY Zenon, <2>1, <2>2, <2>3, ListErase
<1>2. CASE Sends(t)
  <2>1. PICK S, D : /\ Send(t, S, D)
                    /\ call[t].type # "OpenHandle" => Relisted(call[t], FALSE) \ {<< >>} \subseteq D
    BY Zenon, <1>2 DEF Sends
  <2>2. /\ UNCHANGED <<lastdir, changes, call, response>>
        /\ dir_list_cache' = Without(dir_list_cache, D)
        /\ pc[t] = "lock" /\ pc'[t] = "wire"
        /\ \A u \in Threads \ {t} : pc'[u] = pc[u]
    BY <2>1 DEF Send, Goes, device, history, Control
  <2> QED
    BY Zenon, <2>1, <2>2, ListErase
<1>3. CASE ServeFails(t)
  <2>1. /\ UNCHANGED <<lastdir, changes, dir_list_cache, call>>
        /\ response'[t].seen = changes
        /\ pc[t] = "wire" /\ pc'[t] = "reply"
        /\ \A u \in Threads \ {t} : /\ pc'[u] = pc[u] /\ response'[u] = response[u]
                                    /\ pc[u] \notin {"wire", "reply"}
    BY <1>3 DEF ServeFails, Outcome, Goes, device, caches, history, Control
  <2>2. \A d \in DOMAIN dir_list_cache \ {<< >>} : dir_list_cache[d].seen >= lastdir[d]
    BY <2>1 DEF ListInv
  <2> QED
    BY Zenon, <2>1, <2>2 DEF ListInv, Control
<1> QED
  BY <1>1, <1>2, <1>3, ListServe, ListFinish, ThreadSteps

LEMMA ListNext ==
  ASSUME Control, ListInv, [Next]_vars
  PROVE  ListInv'
<1>1. ASSUME NEW t \in Threads, Thread(t) PROVE ListInv'
  BY <1>1, ListThread
<1>2. ASSUME NEW t \in Threads, NEW r \in Requests, Call(t, r) PROVE ListInv'
  <2>1. /\ UNCHANGED <<lastdir, changes, dir_list_cache>>
        /\ pc[t] \notin {"wire", "reply"} /\ pc'[t] \notin {"wire", "reply"}
        /\ \A u \in Threads \ {t} : /\ pc'[u] = pc[u] /\ call'[u] = call[u]
                                    /\ response'[u] = response[u]
    BY <1>2 DEF Call, Ask, Goes, device, caches, history, Control
  <2> QED
    BY Zenon, <2>1, ListErase
<1>3. ASSUME NEW t \in Threads, Return(t) PROVE ListInv'
  <2>1. /\ UNCHANGED <<lastdir, changes, dir_list_cache>>
        /\ pc[t] \notin {"wire", "reply"} /\ pc'[t] \notin {"wire", "reply"}
        /\ \A u \in Threads \ {t} : /\ pc'[u] = pc[u] /\ call'[u] = call[u]
                                    /\ response'[u] = response[u]
    BY <1>3 DEF Return, Goes, device, caches, history, Control
  <2> QED
    BY Zenon, <2>1, ListErase
<1>4. CASE AppChange /\ UNCHANGED <<caches, request_mutex, pc, call, response, walk, expiries, history, calls>>
  <2>1. changes' = changes + 1 /\ UNCHANGED <<dir_list_cache, lastdir, pc, call, response>>
    BY <1>4 DEF AppChange, caches, history
  <2>2. \A d \in Paths : lastdir[d] <= changes'
    BY <2>1 DEF ListInv, Control
  <2> QED
    BY Zenon, <2>1, <2>2 DEF ListInv
<1>5. CASE Expire
  <2>1. UNCHANGED <<lastdir, changes, pc, call, response>>
    BY <1>5 DEF Expire, device, history
  <2>2. PICK D : \/ dir_list_cache' = Without(dir_list_cache, D)
                 \/ D = {} /\ UNCHANGED dir_list_cache
    BY Zenon, <1>5 DEF Expire
  <2> QED
    BY <2>1, <2>2, ListErase
<1>6. CASE UNCHANGED vars
  BY Zenon, <1>6 DEF ListInv, vars, conn_vars, device, caches, history
<1> QED
  BY <1>1, <1>2, <1>3, <1>4, <1>5, <1>6 DEF Next

\* Whatever the threads call and however their requests interleave, a cached
\* listing of a directory below the root is never older than what this client
\* itself created, removed or moved in it, once the opening method returned.
THEOREM ListingsCoherent == Spec => []ListCacheCoherent
<1>1. Init => Control /\ ListInv
  BY ControlInit, ListInit
<1>2. (Control /\ ListInv) /\ [Next]_vars => (Control /\ ListInv)'
  BY ControlNext, ListNext
<1>3. Control /\ ListInv => ListCacheCoherent
  BY DEF ListInv, ListCacheCoherent, ListingCoherent, OpenReturning
<1> QED
  BY <1>1, <1>2, <1>3, PTL DEF Spec

-----------------------------------------------------------------------------
(* The types: ConnInv, and how often a thread has called.                  *)

CallsTyped ==
  /\ call \in [Threads -> Requests \cup {NoRequest}]
  /\ calls \in [Threads -> 0..MaxCalls]

LEMMA TypeNext ==
  ASSUME ConnInv, CallsTyped, [Next]_vars
  PROVE  ConnInv' /\ CallsTyped'
<1>1. ASSUME NEW t \in Threads, Thread(t), UNCHANGED calls PROVE ConnInv' /\ CallsTyped'
  <2>1. call' = call
    BY <1>1 DEF Thread, check_stat, check_listing, walk_listing, req_stat_file, req_list_file_stats,
      req_open_file, req_move_entry, req_change_entry, req_set_file_time, req_plain, Send, ReturnEarly,
      Serve, ServeFails, Finish
  <2>2. ConnInv'
    BY <1>1, ThreadTyped
  <2> QED
    BY <1>1, <2>1, <2>2 DEF CallsTyped
<1>2. ASSUME NEW t \in Threads, Return(t) PROVE ConnInv' /\ CallsTyped'
  <2>1. CallsTyped'
    BY <1>2 DEF Return, CallsTyped
  <2>2. ConnInv'
    BY <1>2, NothingTyped, CallTyped DEF Return, Goes
  <2> QED
    BY <2>1, <2>2
<1>3. ASSUME NEW t \in Threads, NEW r \in Requests, Call(t, r) PROVE ConnInv' /\ CallsTyped'
  <2>1. CallsTyped'
    BY <1>3, CallsAssumption DEF Call, Ask, CallsTyped
  <2>2. ConnInv'
    BY <1>3, RequestsAssumption, AskTyped DEF Call
  <2> QED
    BY <2>1, <2>2
<1>4. CASE AppChange /\ UNCHANGED <<caches, request_mutex, pc, call, response, walk, expiries, history, calls>>
  BY <1>4, AppTyped DEF CallsTyped
<1>5. CASE Expire /\ UNCHANGED calls
  BY <1>5, ExpireTyped DEF CallsTyped, Expire
<1>6. CASE UNCHANGED vars
  BY <1>6, ConnIdle DEF CallsTyped, vars, conn_vars
<1> QED
  BY <1>1, <1>2, <1>3, <1>4, <1>5, <1>6 DEF Next

\* TypeOK: whatever order requests, other programs and expiries come in, the
\* device keeps a tree (every entry in a directory, no inode under two paths), a
\* listing in the cache names only entries the directory can have, and no handler
\* answers with a status or a stat that is none.
THEOREM TypeCorrect == Spec => []TypeOK
<1>1. Init => ConnInv /\ CallsTyped
  BY ConnInitial, CallsAssumption DEF Init, CallsTyped, ConnInit
<1>2. ConnInv /\ CallsTyped /\ [Next]_vars => ConnInv' /\ CallsTyped'
  BY TypeNext
<1>3. ConnInv /\ CallsTyped => TypeOK
  BY ConnTypes DEF TypeOK, CallsTyped
<1> QED
  BY <1>1, <1>2, <1>3, PTL DEF Spec
=============================================================================
