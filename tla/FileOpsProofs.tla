----------------------------- MODULE FileOpsProofs -----------------------------
(***************************************************************************)
(* Proofs about FileOps: what becomes of the handles, for any number of    *)
(* threads, file objects, paths and callbacks, whatever the daemon answers.*)
(***************************************************************************)
EXTENDS FileOps, ConnectionProofs, TLAPS

-----------------------------------------------------------------------------
(* The inductive invariant.                                                *)

\* A record that can be updated field by field.
ObjectFields == {"phase", "path", "handle", "read", "write", "dir", "delete", "how", "existed",
                 "status", "ino", "made"}
IsObject(x) == x = [f \in ObjectFields |-> x[f]]

Types == PathRequests \cup HandleRequests \cup {"GetDiskStats"}
Ops == {"none", "create_file", "clean_up", "close_file"} \cup AllUses

Shapes ==
  /\ pc \in [Threads -> {"idle", "check", "walk", "lock", "wire", "reply", "done"}]
  /\ call = [t \in Threads |-> call[t]]
  /\ response = [t \in Threads |-> response[t]] /\ \A t \in Threads : IsResponse(response[t])
  /\ obj = [o \in Objects |-> obj[o]]
  /\ \A o \in Objects : IsObject(obj[o]) /\ obj[o].phase \in Phases
  /\ cb \in [Threads -> [op : Ops, obj : Objects \cup {"none"}]]

\* The object x that callback c is for is in the phase that the callback leaves it
\* in; p and r are the step and the request of its method.
Fits(c, p, r, x) ==
  /\ r.type \in Types
  /\ c.op = "none" <=> p = "idle"
  /\ c.op = "none" => c = NoCallback /\ r = NoRequest
  /\ c.op # "none" => c.obj \in Objects
  /\ c.op = "create_file" =>
       /\ x.phase = "creating" /\ r.type \in {"StatFile", "CreateDirectory", "OpenHandle"}
       /\ r.type = "OpenHandle" =>
            /\ r.read = x.read /\ r.write = x.write
            /\ x.how.disposition = "CREATE_NEW" => r.mode = "CreateAlways"
  /\ c.op = "close_file" =>
       x.phase = "closing" /\ r = With_handle("CloseHandle", x.handle) /\ x.handle # NoFd
  /\ c.op \in AllUses \cup {"clean_up"} =>
       x.phase \in {"open", "cleaned"} /\ r.type \notin {"OpenHandle", "CloseHandle"}
Running(t) == Fits(cb[t], pc[t], call[t], obj[cb[t].obj])

\* create_file and close_file have their object for themselves.
Alone ==
  \A t, u \in Threads :
    cb[t].op \in {"create_file", "close_file"} /\ cb[u].op # "none" /\ cb[t].obj = cb[u].obj => t = u

\* Whose a descriptor is: a file object's, until the daemon closes it for
\* close_file, or an answer's.
Closing(t) == cb[t].op = "close_file" /\ pc[t] \in {"lock", "wire"}
Holds(o) == obj[o].handle # NoFd /\ (Live(o) \/ \E t \in Threads : Closing(t) /\ cb[t].obj = o)
Pending(t) == response[t].fd # NoFd

Granted(t) ==
  Pending(t) => /\ call[t].type = "OpenHandle" /\ pc[t] \in {"reply", "done"}
                /\ response[t].status = "Success"
                /\ call[t].mode = "CreateAlways" => response[t].made

\* Every open descriptor is somebody's, nobody shares one, and each leads where
\* its owner takes it to lead.
Owned ==
  /\ DOMAIN fds \subseteq Nat
  /\ \A o \in Objects : obj[o].phase \in {"free", "creating"} => obj[o].handle = NoFd
  /\ \A o \in Objects : Holds(o) =>
       /\ obj[o].handle \in DOMAIN fds
       /\ fds[obj[o].handle] = [ino |-> obj[o].ino, read |-> obj[o].read, write |-> obj[o].write]
  /\ \A t \in Threads : Pending(t) =>
       /\ response[t].fd \in DOMAIN fds
       /\ fds[response[t].fd] = [ino |-> response[t].ino, read |-> call[t].read, write |-> call[t].write]
  /\ \A f \in DOMAIN fds : (\E o \in Objects : Holds(o) /\ obj[o].handle = f)
                           \/ (\E t \in Threads : Pending(t) /\ response[t].fd = f)

Unshared ==
  /\ \A o, q \in Objects : Holds(o) /\ Holds(q) /\ obj[o].handle = obj[q].handle => o = q
  /\ \A o \in Objects, t \in Threads : Holds(o) /\ Pending(t) => obj[o].handle # response[t].fd
  /\ \A t, u \in Threads : Pending(t) /\ Pending(u) /\ response[t].fd = response[u].fd => t = u

FileInv ==
  /\ Shapes /\ Alone /\ Owned /\ Unshared /\ CreateNewExclusive
  /\ \A t \in Threads : Running(t) /\ Granted(t)

-----------------------------------------------------------------------------
(* What the handlers of the daemon do to the descriptors.                  *)

\* An outcome that leaves the descriptors alone and gives none.
Plain(o) == IsResponse(o.response) /\ o.fds = fds /\ o.response.fd = NoFd

LEMMA OutcomePlain ==
  ASSUME NEW s
  PROVE  Plain(Outcome(s))
BY DEF Plain, IsResponse, Outcome

LEMMA ChangedPlain ==
  ASSUME NEW t
  PROVE  Plain(Changed(t))
BY DEF Plain, IsResponse, Changed, Success, Outcome

LEMMA ToldPlain ==
  ASSUME NEW S
  PROVE  Plain(Told(S))
BY Zenon DEF Plain, IsResponse, Told, Success, Outcome

\* An outcome of open that gives a descriptor.
Grants(r, o) ==
  /\ ~NoFdLeft
  /\ IsResponse(o.response) /\ o.response.fd = LowestFree /\ o.response.status = "Success"
  /\ o.fds = With(fds, LowestFree, [ino |-> o.response.ino, read |-> r.read, write |-> r.write])
  /\ r.mode = "CreateAlways" => o.response.made

LEMMA OpenedGrants ==
  ASSUME ~NoFdLeft, NEW r, NEW t, NEW made, r.mode = "CreateAlways" => made
  PROVE  Grants(r, Opened(r, t, made))
BY DEF Grants, IsResponse, Opened

LEMMA ClosedOutcome ==
  ASSUME NEW r
  PROVE  /\ IsResponse(handle_close(r).response) /\ handle_close(r).response.fd = NoFd
         /\ handle_close(r).fds = Without(fds, {r.fd})
BY DEF handle_close, IsResponse, Success, Outcome

LEMMA HandledFds ==
  ASSUME NEW r, r.type \in Types
  PROVE  \/ Plain(Handled(r)) /\ r.type # "CloseHandle"
         \/ r.type = "OpenHandle" /\ Grants(r, Handled(r))
         \/ r.type = "CloseHandle" /\ Handled(r) = handle_close(r)
<1>0. Plain(Success)
  BY OutcomePlain DEF Success
<1>1. CASE r.type = "OpenHandle"
  <2>1. Handled(r) = handle_open_handle(r)
    BY <1>1 DEF Handled
  <2>2. ~NoFdLeft => Grants(r, Opened(r, With(tree, r.path, Entry(FALSE, changes + 1)), TRUE))
    BY Zenon, OpenedGrants
  <2>3. ~NoFdLeft /\ r.mode # "CreateAlways" =>
          Grants(r, Opened(r, IF r.mode \in Truncating THEN Modified(tree[r.path].ino) ELSE tree, FALSE))
    BY Zenon, OpenedGrants
  <2> QED
    BY Zenon, <1>1, <2>1, <2>2, <2>3, OutcomePlain DEF handle_open_handle
<1>2. CASE r.type = "CloseHandle"
  BY <1>2 DEF Handled
<1>3. CASE r.type = "MoveEntry"
  <2>1. \A from, to : Plain(Rename(from, to))
    BY <1>0, OutcomePlain, ChangedPlain DEF Rename
  <2> QED
    BY <1>3, <2>1, OutcomePlain DEF Handled, handle_move_entry
<1>4. CASE r.type \in {"StatFile", "ListDirectory"}
  BY <1>4, OutcomePlain, ToldPlain DEF Handled, handle_stat_file, handle_list_dir_stats
<1>5. CASE r.type \in {"RemoveFile", "RemoveDirectory"}
  BY <1>5, OutcomePlain, ChangedPlain DEF Handled, handle_remove_file, handle_remove_directory
<1>6. CASE r.type \in {"CreateDirectory", "SetFileTime"}
  BY Zenon, <1>6, OutcomePlain, ChangedPlain DEF Handled, handle_create_directory_request, handle_set_file_time
<1>7. CASE r.type \in {"WriteHandle", "TruncateHandle", "ReadHandle", "GetDiskStats"}
  BY <1>0, <1>7, OutcomePlain, ChangedPlain DEF Handled, handle_write_file, handle_read_file
<1>8. CASE r.type \in {"CheckRemoveFile", "CheckRemoveDirectory"}
  BY <1>8, OutcomePlain DEF Handled, handle_check_remove_file, handle_check_remove_directory
<1> QED
  BY <1>1, <1>2, <1>3, <1>4, <1>5, <1>6, <1>7, <1>8 DEF Types, PathRequests, HandleRequests

-----------------------------------------------------------------------------
(* Steps of a method of Connection.                                        *)

\* A callback is not affected by what happens to others and to other objects, nor as
\* long as its method goes on.
LEMMA RunningKept ==
  ASSUME NEW t \in Threads, Running(t), cb'[t] = cb[t], call'[t] = call[t],
         cb[t].op # "none" => obj'[cb[t].obj] = obj[cb[t].obj],
         pc'[t] = "idle" <=> pc[t] = "idle"
  PROVE  Running(t)'
<1>1. CASE cb[t].op # "none"
  BY <1>1 DEF Running, Fits
<1>2. CASE cb[t].op = "none"
  <2>1. "none" \notin AllUses \cup {"clean_up"}
    BY DEF AllUses
  <2> QED
    BY <1>2, <2>1 DEF Running, Fits
<1> QED
  BY <1>1, <1>2

Steps == {"idle", "check", "walk", "lock", "wire", "reply", "done"}

\* A method goes on, and no descriptor changes hands.
LEMMA MethodMoves ==
  ASSUME FileInv, NEW t \in Threads, pc[t] # "idle", UNCHANGED <<fds, call, obj, cb>>,
         NEW to \in Steps \ {"idle"}, pc' = [pc EXCEPT ![t] = to],
         NEW r, IsResponse(r), response' = [response EXCEPT ![t] = r], r.fd = response[t].fd,
         r.fd # NoFd => /\ r.ino = response[t].ino /\ r.made = response[t].made
                        /\ r.status = response[t].status /\ to \in {"reply", "done"},
         call[t].type = "CloseHandle" => (pc[t] \in {"lock", "wire"} <=> to \in {"lock", "wire"})
  PROVE  FileInv'
<1>1. /\ pc \in [Threads -> Steps] /\ response = [u \in Threads |-> response[u]]
      /\ \A u \in Threads : IsResponse(response[u])
  BY DEF FileInv, Shapes, Steps
<1>2. /\ pc' \in [Threads -> Steps] /\ pc'[t] = to /\ \A u \in Threads \ {t} : pc'[u] = pc[u]
      /\ response' = [u \in Threads |-> response'[u]]
      /\ response'[t] = r /\ \A u \in Threads \ {t} : response'[u] = response[u]
  BY <1>1
<1>3. \A u \in Threads : response'[u].fd = response[u].fd
  BY <1>2
<1>4. \A u \in Threads : Closing(u)' <=> Closing(u)
  <2>1. cb[t].op = "close_file" => call[t].type = "CloseHandle"
    <3>1. Running(t)
      BY DEF FileInv
    <3> QED
      BY <3>1 DEF Running, Fits, With_handle
  <2> QED
    BY <1>2, <2>1 DEF Closing
<1>5. \A o \in Objects : Holds(o)' <=> Holds(o)
  BY <1>4 DEF Holds, Live
<1>6. \A u \in Threads : Pending(u)' <=> Pending(u)
  BY <1>3 DEF Pending
<1>7. Shapes'
  BY <1>1, <1>2 DEF FileInv, Shapes, Steps
<1>8. Alone' /\ CreateNewExclusive'
  BY DEF FileInv, Alone, CreateNewExclusive, Live
<1>9. Unshared'
  BY <1>3, <1>5, <1>6 DEF FileInv, Unshared
<1>10. \A u \in Threads : Running(u)'
  BY <1>2, RunningKept DEF FileInv
<1>11. \A u \in Threads : Granted(u)'
  BY <1>2, <1>6 DEF FileInv, Granted, Pending
<1>12. Owned'
  <2>1. \A u \in Threads : Pending(u) => response'[u].ino = response[u].ino
    BY <1>2 DEF Pending
  <2> QED
    BY <1>3, <1>5, <1>6, <2>1 DEF FileInv, Owned
<1> QED
  BY <1>7, <1>8, <1>9, <1>10, <1>11, <1>12 DEF FileInv

\* The daemon opens a file for t.
LEMMA ServeGrants ==
  ASSUME FileInv, NEW t \in Threads, pc[t] = "wire", UNCHANGED <<call, obj, cb>>,
         pc' = [pc EXCEPT ![t] = "reply"], call[t].type = "OpenHandle",
         NEW o, Grants(call[t], o), fds' = o.fds, response' = [response EXCEPT ![t] = o.response]
  PROVE  FileInv'
<1> DEFINE f == LowestFree
           r == o.response
           v == [ino |-> r.ino, read |-> call[t].read, write |-> call[t].write]
<1>1. f \in Nat /\ f \notin DOMAIN fds
  BY LowestIsFree DEF Grants
<1>2. /\ IsResponse(r) /\ r.fd = f /\ r.status = "Success" /\ fds' = With(fds, f, v)
      /\ call[t].mode = "CreateAlways" => r.made
  BY DEF Grants
<1> HIDE DEF f, r, v
<1>3. DOMAIN fds' = DOMAIN fds \cup {f} /\ fds'[f] = v /\ \A g \in DOMAIN fds : fds'[g] = fds[g]
  BY <1>1, <1>2 DEF With
<1>4. /\ pc \in [Threads -> Steps] /\ response = [u \in Threads |-> response[u]]
      /\ \A u \in Threads : IsResponse(response[u])
  BY DEF FileInv, Shapes, Steps
<1>5. /\ pc' \in [Threads -> Steps] /\ pc'[t] = "reply" /\ \A u \in Threads \ {t} : pc'[u] = pc[u]
      /\ response' = [u \in Threads |-> response'[u]]
      /\ response'[t] = r /\ \A u \in Threads \ {t} : response'[u] = response[u]
  BY <1>4 DEF Steps, r
<1>6. \A u \in Threads : Closing(u)' <=> Closing(u)
  <2>1. cb[t].op # "close_file"
    <3>1. Running(t)
      BY DEF FileInv
    <3> QED
      BY <3>1 DEF Running, Fits, With_handle
  <2> QED
    BY <1>5, <2>1 DEF Closing
<1>7. \A q \in Objects : Holds(q)' <=> Holds(q)
  BY <1>6 DEF Holds, Live
<1>8. Pending(t)' /\ ~Pending(t) /\ \A u \in Threads \ {t} : Pending(u)' <=> Pending(u)
  <2>1. ~Pending(t)
    BY DEF FileInv, Granted
  <2>2. f # NoFd
    BY <1>1 DEF NoFd
  <2> QED
    BY <1>2, <1>5, <2>1, <2>2 DEF Pending
<1>9. Shapes'
  BY <1>2, <1>4, <1>5 DEF FileInv, Shapes, Steps
<1>10. Alone' /\ CreateNewExclusive'
  BY DEF FileInv, Alone, CreateNewExclusive, Live
<1>11. Unshared'
  <2>1. \A q \in Objects : Holds(q) => obj[q].handle # f
    BY Zenon, <1>1 DEF FileInv, Owned
  <2>2. \A u \in Threads : Pending(u) => response[u].fd # f
    BY Zenon, <1>1 DEF FileInv, Owned
  <2>3. \A u \in Threads \ {t} : response'[u].fd = response[u].fd
    BY <1>5
  <2>4. response'[t].fd = f
    BY <1>2, <1>5
  <2> QED
    BY <1>7, <1>8, <2>1, <2>2, <2>3, <2>4 DEF FileInv, Unshared
<1>12. \A u \in Threads : Running(u)'
  BY <1>5, RunningKept DEF FileInv
<1>13. \A u \in Threads : Granted(u)'
  BY <1>2, <1>5, <1>8 DEF FileInv, Granted
<1>14. Owned'
  <2>1. DOMAIN fds' \subseteq Nat
    BY <1>1, <1>3 DEF FileInv, Owned
  <2>2. ASSUME NEW q \in Objects, Holds(q)
        PROVE  /\ obj[q].handle \in DOMAIN fds'
               /\ fds'[obj[q].handle] = [ino |-> obj[q].ino, read |-> obj[q].read, write |-> obj[q].write]
    BY <1>3, <2>2 DEF FileInv, Owned
  <2>3. ASSUME NEW u \in Threads, Pending(u)'
        PROVE  /\ response'[u].fd \in DOMAIN fds'
               /\ fds'[response'[u].fd] =
                    [ino |-> response'[u].ino, read |-> call[u].read, write |-> call[u].write]
    <3>1. CASE u = t
      BY <1>2, <1>3, <1>5, <3>1 DEF v
    <3>2. CASE u # t
      BY <1>3, <1>5, <1>8, <2>3, <3>2 DEF FileInv, Owned
    <3> QED
      BY <3>1, <3>2
  <2>4. ASSUME NEW g \in DOMAIN fds'
        PROVE  \/ \E q \in Objects : Holds(q)' /\ obj'[q].handle = g
               \/ \E u \in Threads : Pending(u)' /\ response'[u].fd = g
    <3>1. CASE g = f
      BY <1>2, <1>5, <1>8, <3>1
    <3>2. CASE g \in DOMAIN fds
      BY <1>5, <1>7, <1>8, <3>2 DEF FileInv, Owned
    <3> QED
      BY <1>3, <3>1, <3>2
  <2>5. \A q \in Objects : obj'[q].phase \in {"free", "creating"} => obj'[q].handle = NoFd
    BY DEF FileInv, Owned
  <2> QED
    BY <1>7, <2>1, <2>2, <2>3, <2>4, <2>5 DEF Owned
<1> QED
  BY <1>9, <1>10, <1>11, <1>12, <1>13, <1>14 DEF FileInv

\* The daemon closes the descriptor of the object that t closes.
LEMMA ServeCloses ==
  ASSUME FileInv, NEW t \in Threads, pc[t] = "wire", UNCHANGED <<call, obj, cb>>,
         pc' = [pc EXCEPT ![t] = "reply"], call[t].type = "CloseHandle",
         fds' = Without(fds, {call[t].fd}),
         NEW r, IsResponse(r), r.fd = NoFd, response' = [response EXCEPT ![t] = r]
  PROVE  FileInv'
<1>0. Running(t) /\ Granted(t)
  BY DEF FileInv
<1>1. cb[t].op = "close_file"
  <2>1. cb[t].op \in Ops
    BY DEF FileInv, Shapes
  <2> QED
    BY <1>0, <2>1 DEF Running, Fits, Ops
<1>2. PICK o \in Objects, f \in {call[t].fd} :
        /\ o = cb[t].obj /\ f = obj[o].handle /\ call[t].fd = f /\ f # NoFd
        /\ obj[o].phase = "closing" /\ Holds(o)
  BY <1>0, <1>1 DEF Running, Fits, With_handle, Holds, Closing
<1>3. DOMAIN fds' = DOMAIN fds \ {f} /\ \A g \in DOMAIN fds \ {f} : fds'[g] = fds[g]
  BY <1>2 DEF Without, Restrict
<1>4. /\ pc \in [Threads -> Steps] /\ response = [u \in Threads |-> response[u]]
      /\ \A u \in Threads : IsResponse(response[u])
  BY DEF FileInv, Shapes, Steps
<1>5. /\ pc' \in [Threads -> Steps] /\ pc'[t] = "reply" /\ \A u \in Threads \ {t} : pc'[u] = pc[u]
      /\ response' = [u \in Threads |-> response'[u]]
      /\ response'[t] = r /\ \A u \in Threads \ {t} : response'[u] = response[u]
  BY <1>4 DEF Steps
<1>6. ~Closing(t)' /\ Closing(t) /\ \A u \in Threads \ {t} : Closing(u)' <=> Closing(u)
  BY <1>1, <1>5 DEF Closing
<1>7. \A u \in Threads : Closing(u) /\ cb[u].obj = o => u = t
  BY <1>1, <1>2 DEF FileInv, Alone, Closing
<1>8. ~Holds(o)' /\ \A q \in Objects \ {o} : Holds(q)' <=> Holds(q)
  <2>1. ~Live(o)' /\ \A q \in Objects : Live(q)' <=> Live(q)
    BY <1>2 DEF Live
  <2>2. ~Holds(o)'
    BY <1>6, <1>7, <2>1 DEF Holds
  <2>3. ASSUME NEW q \in Objects \ {o} PROVE Holds(q)' <=> Holds(q)
    <3>1. (\E u \in Threads : Closing(u)' /\ cb[u].obj = q) <=> \E u \in Threads : Closing(u) /\ cb[u].obj = q
      BY <1>2, <1>6, <2>3
    <3> QED
      BY <2>1, <3>1 DEF Holds
  <2> QED
    BY <2>2, <2>3
<1>9. ~Pending(t) /\ ~Pending(t)' /\ \A u \in Threads \ {t} : Pending(u)' <=> Pending(u)
  BY <1>0, <1>5 DEF Pending, Granted
<1>10. \A u \in Threads : Pending(u)' => Pending(u) /\ response'[u] = response[u]
  BY <1>5, <1>9
<1>11. Shapes'
  BY <1>4, <1>5 DEF FileInv, Shapes, Steps
<1>12. Alone' /\ CreateNewExclusive'
  BY DEF FileInv, Alone, CreateNewExclusive, Live
<1>13. Unshared'
  <2>1. \A q \in Objects : Holds(q)' => Holds(q)
    BY <1>8
  <2> QED
    BY <1>10, <2>1 DEF FileInv, Unshared
<1>14. \A u \in Threads : Running(u)'
  BY <1>5, RunningKept DEF FileInv
<1>15. \A u \in Threads : Granted(u)'
  <2>1. \A u \in Threads : Pending(u)' => u # t /\ pc'[u] = pc[u] /\ response'[u] = response[u]
    BY <1>5, <1>9
  <2> QED
    BY <1>10, <2>1 DEF FileInv, Granted
<1>16. Owned'
  <2>1. DOMAIN fds' \subseteq Nat
    BY Zenon, <1>3 DEF FileInv, Owned
  <2>2. ASSUME NEW q \in Objects, Holds(q)'
        PROVE  /\ obj[q].handle \in DOMAIN fds'
               /\ fds'[obj[q].handle] = [ino |-> obj[q].ino, read |-> obj[q].read, write |-> obj[q].write]
    <3>1. Holds(q) /\ q # o
      BY <1>8, <2>2
    <3>2. obj[q].handle # f
      BY <1>2, <3>1 DEF FileInv, Unshared
    <3> QED
      BY Zenon, <1>3, <3>1, <3>2 DEF FileInv, Owned
  <2>3. ASSUME NEW u \in Threads, Pending(u)'
        PROVE  /\ response'[u].fd \in DOMAIN fds'
               /\ fds'[response'[u].fd] =
                    [ino |-> response'[u].ino, read |-> call[u].read, write |-> call[u].write]
    <3>1. Pending(u) /\ response'[u] = response[u]
      BY <1>10, <2>3
    <3>2. response[u].fd # f
      BY <1>2, <3>1 DEF FileInv, Unshared
    <3>3. /\ response[u].fd \in DOMAIN fds
          /\ fds[response[u].fd] = [ino |-> response[u].ino, read |-> call[u].read, write |-> call[u].write]
      BY <3>1 DEF FileInv, Owned
    <3> QED
      BY Zenon, <1>3, <3>1, <3>2, <3>3
  <2>4. ASSUME NEW g \in DOMAIN fds'
        PROVE  \/ \E q \in Objects : Holds(q)' /\ obj'[q].handle = g
               \/ \E u \in Threads : Pending(u)' /\ response'[u].fd = g
    <3>1. g \in DOMAIN fds /\ g # f
      BY <1>3
    <3>2. CASE \E q \in Objects : Holds(q) /\ obj[q].handle = g
      BY <1>2, <1>8, <3>1, <3>2
    <3>3. CASE \E u \in Threads : Pending(u) /\ response[u].fd = g
      BY <1>5, <1>9, <3>3
    <3> QED
      BY Zenon, <3>1, <3>2, <3>3 DEF FileInv, Owned
  <2>5. \A q \in Objects : obj'[q].phase \in {"free", "creating"} => obj'[q].handle = NoFd
    BY DEF FileInv, Owned
  <2> QED
    BY Zenon, <2>1, <2>2, <2>3, <2>4, <2>5 DEF Owned
<1> QED
  BY <1>11, <1>12, <1>13, <1>14, <1>15, <1>16 DEF FileInv

\* Show changes the status and the stats of an answer only.
LEMMA ShowEffect ==
  ASSUME FileInv, NEW t \in Threads, NEW status, NEW m, Show(t, status, m)
  PROVE  \E r : /\ IsResponse(r) /\ response' = [response EXCEPT ![t] = r] /\ r.fd = response[t].fd
                /\ r.ino = response[t].ino /\ r.made = response[t].made /\ r.status = status
<1> DEFINE r == [response[t] EXCEPT !.status = status, !.stats = m]
<1>1. response = [u \in Threads |-> response[u]] /\ IsResponse(response[t])
  BY DEF FileInv, Shapes
<1>2. r = [status |-> status, stats |-> m, seen |-> response[t].seen, fd |-> response[t].fd,
           ino |-> response[t].ino, made |-> response[t].made]
  BY Zenon, <1>1, AnswerUpdated
<1>3. response' = [response EXCEPT ![t] = r]
  BY Zenon, <1>1 DEF Show
<1> HIDE DEF r
<1>4. /\ IsResponse(r) /\ r.fd = response[t].fd
      /\ r.ino = response[t].ino /\ r.made = response[t].made /\ r.status = status
  BY <1>2 DEF IsResponse
<1> QED
  BY Zenon, <1>3, <1>4

LEMMA MethodNext ==
  ASSUME FileInv, NEW t \in Threads, Thread(t), UNCHANGED <<obj, cb>>
  PROVE  FileInv'
<1>0. /\ Running(t) /\ Granted(t) /\ IsResponse(response[t]) /\ response = [u \in Threads |-> response[u]]
      /\ UNCHANGED <<obj, cb>>
  BY DEF FileInv, Shapes
\* A step that asks nothing of the daemon and gives no answer.
<1>1. ASSUME NEW from \in Steps \ {"idle"}, pc[t] = from, NEW to \in Steps \ {"idle"},
             pc' = [pc EXCEPT ![t] = to], UNCHANGED <<fds, call>>,
             call[t].type = "CloseHandle" => (from \in {"lock", "wire"} <=> to \in {"lock", "wire"}),
             \/ UNCHANGED response /\ from \in {"check", "walk", "lock", "wire"}
             \/ from # "reply" /\ from # "done" /\ \E status, m : Show(t, status, m)
             \/ from = "reply" /\ to = "done" /\ \E m : Show(t, response[t].status, m)
      PROVE  FileInv'
  <2>1. from \in {"check", "walk", "lock", "wire"} => response[t].fd = NoFd
    BY <1>0, <1>1 DEF Granted, Pending
  <2>2. CASE UNCHANGED response /\ from \in {"check", "walk", "lock", "wire"}
    <3>1. response' = [response EXCEPT ![t] = response[t]]
      BY <1>0, <2>2
    <3> QED
      BY Zenon, <1>0, <1>1, <2>1, <2>2, <3>1, MethodMoves
  <2>3. CASE from # "reply" /\ from # "done" /\ \E status, m : Show(t, status, m)
    <3>1. from \in {"check", "walk", "lock", "wire"}
      BY <2>3 DEF Steps
    <3>2. PICK r : IsResponse(r) /\ response' = [response EXCEPT ![t] = r] /\ r.fd = response[t].fd
      BY <2>3, ShowEffect
    <3> QED
      BY Zenon, <1>0, <1>1, <2>1, <3>1, <3>2, MethodMoves
  <2>4. CASE from = "reply" /\ to = "done" /\ \E m : Show(t, response[t].status, m)
    <3>1. PICK r : /\ IsResponse(r) /\ response' = [response EXCEPT ![t] = r] /\ r.fd = response[t].fd
                   /\ r.ino = response[t].ino /\ r.made = response[t].made
                   /\ r.status = response[t].status
      BY <2>4, ShowEffect
    <3> QED
      BY Zenon, <1>0, <1>1, <2>4, <3>1, MethodMoves
  <2> QED
    BY <1>1, <2>2, <2>3, <2>4
<1>2. CASE check_stat(t)
  <2>1. /\ pc[t] = "check" /\ UNCHANGED <<fds, call>> /\ call[t].type = "StatFile"
        /\ \/ Goes(t, "done") /\ \E m : Show(t, "Success", m)
           \/ Goes(t, "lock") /\ UNCHANGED response
    BY Zenon, <1>2 DEF check_stat, device
  <2> QED
    BY <1>1, <2>1 DEF Goes, Steps
<1>3. CASE check_listing(t)
  <2>1. /\ pc[t] = "check" /\ UNCHANGED <<fds, call, response>> /\ call[t].type = "ListDirectory"
        /\ Goes(t, "walk") \/ Goes(t, "lock")
    BY <1>3 DEF check_listing, device
  <2> QED
    BY <1>1, <2>1 DEF Goes, Steps
<1>4. CASE walk_listing(t)
  <2>1. pc[t] = "walk" /\ UNCHANGED <<fds, call>>
    BY <1>4 DEF walk_listing, device
  <2>2. CASE UNCHANGED pc /\ \E m : Show(t, "none", m)
    <3>1. pc' = [pc EXCEPT ![t] = "walk"]
      BY <2>1, <2>2 DEF FileInv, Shapes
    <3> QED
      BY Zenon, <1>1, <2>1, <2>2, <3>1 DEF Steps
  <2>3. CASE response' = [response EXCEPT ![t].status = "Success"] /\ Goes(t, "done")
    <3> DEFINE r == [response[t] EXCEPT !.status = "Success"]
    <3>1. r = [status |-> "Success", stats |-> response[t].stats, seen |-> response[t].seen,
               fd |-> response[t].fd, ino |-> response[t].ino, made |-> response[t].made]
      BY <1>0 DEF IsResponse
    <3>2. response' = [response EXCEPT ![t] = r]
      BY <1>0, <2>3
    <3> HIDE DEF r
    <3>3. IsResponse(r) /\ r.fd = response[t].fd
      BY <3>1 DEF IsResponse
    <3>4. response[t].fd = NoFd
      BY <1>0, <2>1 DEF Granted, Pending
    <3>5. call[t].type = "CloseHandle" => "done" \in {"lock", "wire"} <=> pc[t] \in {"lock", "wire"}
      BY <2>1
    <3> QED
      BY Zenon, <1>0, <2>1, <2>3, <3>2, <3>3, <3>4, <3>5, MethodMoves DEF Goes, Steps
  <2> QED
    BY Zenon, <1>4, <2>2, <2>3 DEF walk_listing
<1>5. ASSUME NEW S, NEW D, Send(t, S, D)
      PROVE  FileInv'
  <2>1. pc[t] = "lock" /\ UNCHANGED <<fds, call, response>> /\ Goes(t, "wire")
    BY <1>5 DEF Send, device
  <2> QED
    BY Zenon, <1>1, <2>1 DEF Goes, Steps
<1>6. ASSUME ReturnEarly(t), NEW status, NEW m, Show(t, status, m), call[t].type # "CloseHandle"
      PROVE  FileInv'
  <2>1. pc[t] = "lock" /\ UNCHANGED <<fds, call>> /\ Goes(t, "done")
    BY <1>6 DEF ReturnEarly, device
  <2> QED
    BY Zenon, <1>1, <1>6, <2>1 DEF Goes, Steps
<1>7. CASE req_stat_file(t) \/ req_list_file_stats(t) \/ req_open_file(t)
  BY Zenon, <1>5, <1>6, <1>7 DEF req_stat_file, req_list_file_stats, req_open_file
<1>8. CASE req_move_entry(t) \/ req_change_entry(t) \/ req_set_file_time(t) \/ req_plain(t)
  BY <1>5, <1>8 DEF req_move_entry, req_change_entry, req_set_file_time, req_plain
<1>9. CASE Serve(t)
  <2> DEFINE h == Handled(call[t])
  <2>1. /\ pc[t] = "wire" /\ fds' = h.fds /\ response' = [response EXCEPT ![t] = h.response]
        /\ pc' = [pc EXCEPT ![t] = "reply"] /\ UNCHANGED call
    BY <1>9 DEF Serve, Goes
  <2>2. \/ Plain(h) /\ call[t].type # "CloseHandle"
        \/ call[t].type = "OpenHandle" /\ Grants(call[t], h)
        \/ call[t].type = "CloseHandle" /\ h = handle_close(call[t])
    BY <1>0, HandledFds DEF Running, Fits
  <2>3. response[t].fd = NoFd
    BY <1>0, <2>1 DEF Granted, Pending
  <2> HIDE DEF h
  <2>4. CASE Plain(h) /\ call[t].type # "CloseHandle"
    <3>1. IsResponse(h.response) /\ h.response.fd = NoFd /\ fds' = fds
      BY <2>1, <2>4 DEF Plain
    <3> QED
      BY Zenon, <1>0, <2>1, <2>3, <2>4, <3>1, MethodMoves DEF Steps
  <2>5. CASE call[t].type = "OpenHandle" /\ Grants(call[t], h)
    BY Zenon, <1>0, <2>1, <2>5, ServeGrants
  <2>6. CASE call[t].type = "CloseHandle" /\ h = handle_close(call[t])
    BY Zenon, <1>0, <2>1, <2>6, ClosedOutcome, ServeCloses
  <2> QED
    BY <2>2, <2>4, <2>5, <2>6
<1>10. CASE ServeFails(t)
  <2> DEFINE r == Outcome("GenericFailure").response
  <2>1. /\ pc[t] = "wire" /\ call[t].type # "CloseHandle" /\ UNCHANGED <<fds, call>>
        /\ response' = [response EXCEPT ![t] = r] /\ pc' = [pc EXCEPT ![t] = "reply"]
    BY <1>10 DEF ServeFails, Goes, device
  <2>2. IsResponse(r) /\ r.fd = NoFd
    BY OutcomePlain DEF Plain
  <2>3. response[t].fd = NoFd
    BY <1>0, <2>1 DEF Granted, Pending
  <2> HIDE DEF r
  <2> QED
    BY Zenon, <1>0, <2>1, <2>2, <2>3, MethodMoves DEF Steps
<1>11. CASE Finish(t)
  <2>1. /\ pc[t] = "reply" /\ UNCHANGED <<fds, call>> /\ pc' = [pc EXCEPT ![t] = "done"]
        /\ \E m : Show(t, response[t].status, m)
    BY <1>11 DEF Finish, Goes, device
  <2> QED
    BY Zenon, <1>1, <2>1 DEF Steps
<1> QED
  BY <1>2, <1>3, <1>4, <1>7, <1>8, <1>9, <1>10, <1>11 DEF Thread

-----------------------------------------------------------------------------
(* Steps of the callbacks.                                                 *)

SameFile(x, y) ==
  x.handle = y.handle /\ x.ino = y.ino /\ x.read = y.read /\ x.write = y.write

\* Thread t begins, goes on with or ends a callback c on object o, which becomes
\* x, and no descriptor changes hands.
Turn(t, to, r, a, c, o, x) ==
  /\ UNCHANGED fds /\ to \in Steps /\ IsResponse(a)
  /\ c \in [op : Ops, obj : Objects \cup {"none"}]
  /\ o \in Objects /\ IsObject(x) /\ x.phase \in Phases
  /\ pc' = [pc EXCEPT ![t] = to] /\ call' = [call EXCEPT ![t] = r]
  /\ response' = [response EXCEPT ![t] = a] /\ cb' = [cb EXCEPT ![t] = c]
  /\ obj' = [obj EXCEPT ![o] = x] /\ Running(t)' /\ ~Pending(t) /\ a.fd = NoFd
  /\ cb[t].op # "none" => cb[t].obj = o
  /\ c.op # "none" => c.obj = o
  /\ \A u \in Threads \ {t} : cb[u].op # "none" /\ cb[u].obj = o =>
       /\ cb[u].op \in AllUses \cup {"clean_up"} /\ x.phase \in {"open", "cleaned"}
       /\ c.op \notin {"create_file", "close_file"}
  /\ x.phase \in {"free", "creating"} => x.handle = NoFd
  /\ x.phase \in {"open", "cleaned"} /\ x.how.disposition = "CREATE_NEW" /\ x.handle # NoFd => x.made
  /\ \/ Live(o) /\ SameFile(x, obj[o]) /\ x.phase \in {"open", "cleaned"}
     \/ Live(o) /\ SameFile(x, obj[o]) /\ x.phase = "closing" /\ c.op = "close_file" /\ to = "lock"
     \/ ~Holds(o) /\ x.handle = NoFd

LEMMA CallbackMoves ==
  ASSUME FileInv, NEW t \in Threads, NEW to, NEW r, NEW a, NEW c, NEW o, NEW x,
         Turn(t, to, r, a, c, o, x)
  PROVE  FileInv'
<1>1. /\ pc \in [Threads -> Steps] /\ cb \in [Threads -> [op : Ops, obj : Objects \cup {"none"}]]
      /\ call = [u \in Threads |-> call[u]] /\ response = [u \in Threads |-> response[u]]
      /\ obj = [q \in Objects |-> obj[q]]
      /\ \A u \in Threads : IsResponse(response[u])
      /\ \A q \in Objects : IsObject(obj[q]) /\ obj[q].phase \in Phases
  BY DEF FileInv, Shapes, Steps
<1>2. /\ Alone /\ Owned /\ Unshared /\ CreateNewExclusive
      /\ \A u \in Threads : Running(u) /\ Granted(u)
  BY Zenon DEF FileInv
<1>3. /\ to \in Steps /\ IsResponse(a) /\ c \in [op : Ops, obj : Objects \cup {"none"}]
      /\ o \in Objects /\ IsObject(x) /\ x.phase \in Phases /\ UNCHANGED fds
  BY Zenon DEF Turn
<1>4. /\ pc' = [pc EXCEPT ![t] = to] /\ call' = [call EXCEPT ![t] = r]
      /\ response' = [response EXCEPT ![t] = a] /\ cb' = [cb EXCEPT ![t] = c]
      /\ obj' = [obj EXCEPT ![o] = x]
  BY Zenon DEF Turn
<1>5. /\ pc' \in [Threads -> Steps] /\ cb' \in [Threads -> [op : Ops, obj : Objects \cup {"none"}]]
      /\ pc'[t] = to /\ cb'[t] = c
      /\ \A u \in Threads \ {t} : pc'[u] = pc[u] /\ cb'[u] = cb[u]
  BY <1>1, <1>3, <1>4
<1>6. /\ call' = [u \in Threads |-> call'[u]] /\ response' = [u \in Threads |-> response'[u]]
      /\ call'[t] = r /\ response'[t] = a
      /\ \A u \in Threads \ {t} : call'[u] = call[u] /\ response'[u] = response[u]
  BY Zenon, <1>1, <1>4
<1>7. /\ obj' = [q \in Objects |-> obj'[q]] /\ obj'[o] = x
      /\ \A q \in Objects \ {o} : obj'[q] = obj[q]
  BY <1>1, <1>3, <1>4
<1>8. Shapes'
  BY <1>1, <1>3, <1>5, <1>6, <1>7 DEF Shapes, Steps
<1>9. \A u \in Threads \ {t} : cb[u].op # "none" /\ cb[u].obj = o =>
        /\ cb[u].op \in AllUses \cup {"clean_up"} /\ x.phase \in {"open", "cleaned"}
        /\ c.op \notin {"create_file", "close_file"}
  BY Zenon DEF Turn
<1>10. (cb[t].op # "none" => cb[t].obj = o) /\ (c.op # "none" => c.obj = o)
  BY Zenon DEF Turn
<1>11. Alone'
  <2> SUFFICES ASSUME NEW u \in Threads, NEW v \in Threads, u # v,
                      cb'[u].op \in {"create_file", "close_file"}, cb'[v].op # "none",
                      cb'[u].obj = cb'[v].obj
               PROVE  FALSE
    BY DEF Alone
  <2>1. cb'[u].op # "none"
    OBVIOUS
  <2>2. CASE u = t
    BY <1>5, <1>9, <1>10, <2>1, <2>2
  <2>3. CASE v = t
    <3>1. cb[u].op \notin AllUses \cup {"clean_up"}
      BY <1>5, <2>3 DEF AllUses
    <3> QED
      BY <1>5, <1>9, <1>10, <2>1, <2>3, <3>1
  <2>4. CASE u # t /\ v # t
    BY <1>2, <1>5, <2>4 DEF Alone
  <2> QED
    BY Zenon, <2>2, <2>3, <2>4
<1>12. CreateNewExclusive'
  <2>1. x.phase \in {"open", "cleaned"} /\ x.how.disposition = "CREATE_NEW" /\ x.handle # NoFd => x.made
    BY Zenon DEF Turn
  <2> QED
    BY <1>2, <1>7, <2>1 DEF CreateNewExclusive, Live
<1>13. ~Pending(t) /\ a.fd = NoFd /\ Running(t)'
  BY Zenon DEF Turn
<1>14. /\ \A u \in Threads : Pending(u)' => u # t /\ Pending(u) /\ response'[u] = response[u]
                                           /\ call'[u] = call[u] /\ pc'[u] = pc[u]
       /\ \A u \in Threads : Pending(u) => Pending(u)' /\ response'[u] = response[u]
  BY <1>5, <1>6, <1>13 DEF Pending
<1>15. \A u \in Threads : Granted(u)'
  <2> SUFFICES ASSUME NEW u \in Threads, Pending(u)' PROVE Granted(u)'
    BY Zenon DEF Granted
  <2>1. /\ Granted(u) /\ Pending(u) /\ response'[u] = response[u] /\ call'[u] = call[u] /\ pc'[u] = pc[u]
    BY Zenon, <1>2, <1>14
  <2> QED
    BY Zenon, <2>1 DEF Granted
<1>16. \A u \in Threads : Running(u)'
  <2> SUFFICES ASSUME NEW u \in Threads \ {t} PROVE Running(u)'
    BY Zenon, <1>13
  <2>1. Running(u) /\ pc'[u] = pc[u] /\ cb'[u] = cb[u] /\ call'[u] = call[u]
    BY Zenon, <1>2, <1>5, <1>6
  <2>2. CASE cb[u].op = "none"
    BY Zenon, <2>1, <2>2, RunningKept
  <2>3. CASE cb[u].op # "none" /\ cb[u].obj = o
    <3>1. /\ cb[u].op \in AllUses \cup {"clean_up"} /\ x.phase \in {"open", "cleaned"}
      BY Zenon, <1>9, <2>3
    <3>2. cb[u].op \notin {"none", "create_file", "close_file"}
      BY Zenon, <3>1 DEF AllUses
    <3>3. Fits(cb[u], pc[u], call[u], obj[o])
      BY Zenon, <2>1, <2>3 DEF Running
    <3>4. Fits(cb[u], pc[u], call[u], x)
      BY Zenon, <3>1, <3>2, <3>3 DEF Fits
    <3> QED
      BY Zenon, <1>7, <2>1, <2>3, <3>4 DEF Running
  <2>4. CASE cb[u].op # "none" /\ cb[u].obj # o
    <3>1. cb[u].obj \in Objects
      BY Zenon, <2>1, <2>4 DEF Running, Fits
    <3>2. obj'[cb[u].obj] = obj[cb[u].obj]
      BY Zenon, <1>7, <2>4, <3>1
    <3> QED
      BY Zenon, <2>1, <3>2, RunningKept
  <2> QED
    BY Zenon, <2>2, <2>3, <2>4
<1>17. \A q \in Objects \ {o} : Holds(q)' <=> Holds(q)
  <2> SUFFICES ASSUME NEW q \in Objects \ {o} PROVE Holds(q)' <=> Holds(q)
    OBVIOUS
  <2>1. (Closing(t) => cb[t].obj # q) /\ (Closing(t)' => cb'[t].obj # q)
    BY <1>5, <1>10 DEF Closing
  <2>2. \A u \in Threads \ {t} : Closing(u)' <=> Closing(u)
    BY <1>5 DEF Closing
  <2>3. (\E u \in Threads : Closing(u)' /\ cb'[u].obj = q) <=> \E u \in Threads : Closing(u) /\ cb[u].obj = q
    BY Zenon, <1>5, <2>1, <2>2
  <2>4. obj'[q] = obj[q]
    BY Zenon, <1>7
  <2> QED
    BY Zenon, <2>3, <2>4 DEF Holds, Live
<1>18. (Holds(o)' <=> Holds(o)) /\ (Holds(o) => SameFile(x, obj[o]))
  <2>1. CASE Live(o) /\ SameFile(x, obj[o]) /\ x.phase \in {"open", "cleaned"}
    BY <1>7, <2>1 DEF Holds, Live, SameFile
  <2>2. CASE Live(o) /\ SameFile(x, obj[o]) /\ x.phase = "closing" /\ c.op = "close_file" /\ to = "lock"
    <3>1. Closing(t)' /\ cb'[t].obj = o
      BY <1>5, <1>10, <2>2 DEF Closing
    <3> QED
      BY <1>7, <2>2, <3>1 DEF Holds, SameFile
  <2>3. CASE ~Holds(o) /\ x.handle = NoFd
    BY <1>7, <2>3 DEF Holds
  <2> QED
    BY Zenon, <2>1, <2>2, <2>3 DEF Turn
<1>19. \A q \in Objects : (Holds(q)' <=> Holds(q)) /\ (Holds(q) => SameFile(obj'[q], obj[q]))
  BY <1>7, <1>17, <1>18 DEF SameFile
<1>20. Owned'
  <2>1. \A q \in Objects : obj'[q].phase \in {"free", "creating"} => obj'[q].handle = NoFd
    <3>1. x.phase \in {"free", "creating"} => x.handle = NoFd
      BY Zenon DEF Turn
    <3> QED
      BY <1>2, <1>7, <3>1 DEF Owned
  <2>2. \A q \in Objects : Holds(q)' =>
          /\ obj'[q].handle \in DOMAIN fds
          /\ fds[obj'[q].handle] = [ino |-> obj'[q].ino, read |-> obj'[q].read, write |-> obj'[q].write]
    <3> SUFFICES ASSUME NEW q \in Objects, Holds(q)'
                 PROVE  /\ obj'[q].handle \in DOMAIN fds
                        /\ fds[obj'[q].handle] = [ino |-> obj'[q].ino, read |-> obj'[q].read, write |-> obj'[q].write]
      OBVIOUS
    <3>1. Holds(q) /\ SameFile(obj'[q], obj[q])
      BY Zenon, <1>19
    <3>2. /\ obj[q].handle \in DOMAIN fds
          /\ fds[obj[q].handle] = [ino |-> obj[q].ino, read |-> obj[q].read, write |-> obj[q].write]
      BY Zenon, <1>2, <3>1 DEF Owned
    <3> QED
      BY Zenon, <3>1, <3>2 DEF SameFile
  <2>3. \A u \in Threads : Pending(u)' =>
          /\ response'[u].fd \in DOMAIN fds
          /\ fds[response'[u].fd] =
               [ino |-> response'[u].ino, read |-> call'[u].read, write |-> call'[u].write]
    BY <1>2, <1>14 DEF Owned
  <2>4. \A f \in DOMAIN fds : (\E q \in Objects : Holds(q)' /\ obj'[q].handle = f)
                              \/ (\E u \in Threads : Pending(u)' /\ response'[u].fd = f)
    <3> SUFFICES ASSUME NEW f \in DOMAIN fds
                 PROVE  \/ \E q \in Objects : Holds(q)' /\ obj'[q].handle = f
                        \/ \E u \in Threads : Pending(u)' /\ response'[u].fd = f
      OBVIOUS
    <3>1. CASE \E q \in Objects : Holds(q) /\ obj[q].handle = f
      BY <1>19, <3>1 DEF SameFile
    <3>2. CASE \E u \in Threads : Pending(u) /\ response[u].fd = f
      BY Zenon, <1>14, <3>2
    <3> QED
      BY Zenon, <1>2, <3>1, <3>2 DEF Owned
  <2> QED
    BY <1>2, <1>3, <2>1, <2>2, <2>3, <2>4 DEF Owned
<1>21. Unshared'
  <2>1. \A p, q \in Objects : Holds(p)' /\ Holds(q)' /\ obj'[p].handle = obj'[q].handle => p = q
    <3> SUFFICES ASSUME NEW p \in Objects, NEW q \in Objects, Holds(p)', Holds(q)',
                        obj'[p].handle = obj'[q].handle
                 PROVE  p = q
      OBVIOUS
    <3>1. Holds(p) /\ SameFile(obj'[p], obj[p]) /\ Holds(q) /\ SameFile(obj'[q], obj[q])
      BY Zenon, <1>19
    <3>2. obj[p].handle = obj[q].handle
      BY Zenon, <3>1 DEF SameFile
    <3> QED
      BY Zenon, <1>2, <3>1, <3>2 DEF Unshared
  <2>2. \A q \in Objects, u \in Threads : Holds(q)' /\ Pending(u)' => obj'[q].handle # response'[u].fd
    <3> SUFFICES ASSUME NEW q \in Objects, NEW u \in Threads, Holds(q)', Pending(u)'
                 PROVE  obj'[q].handle # response'[u].fd
      OBVIOUS
    <3>1. Holds(q) /\ SameFile(obj'[q], obj[q]) /\ Pending(u) /\ response'[u] = response[u]
      BY Zenon, <1>14, <1>19
    <3>2. obj[q].handle # response[u].fd
      BY Zenon, <1>2, <3>1 DEF Unshared
    <3> QED
      BY Zenon, <3>1, <3>2 DEF SameFile
  <2>3. \A u, v \in Threads : Pending(u)' /\ Pending(v)' /\ response'[u].fd = response'[v].fd => u = v
    BY Zenon, <1>2, <1>14 DEF Unshared
  <2> QED
    BY Zenon, <2>1, <2>2, <2>3 DEF Unshared
<1> QED
  BY Zenon, <1>8, <1>11, <1>12, <1>15, <1>16, <1>20, <1>21 DEF FileInv

\* The parts of a state in which nothing happens.
LEMMA NothingYet ==
  /\ IsResponse(NoResponse) /\ NoResponse.fd = NoFd
  /\ NoCallback \in [op : Ops, obj : Objects \cup {"none"}] /\ NoCallback.op = "none"
  /\ NoRequest.type \in Types
  /\ IsObject(NoObject) /\ NoObject.phase = "free" /\ NoObject.handle = NoFd /\ NoObject.phase \in Phases
<1>1. IsResponse(NoResponse) /\ NoResponse.fd = NoFd
  BY DEF IsResponse, NoResponse
<1>2. NoCallback \in [op : Ops, obj : Objects \cup {"none"}] /\ NoCallback.op = "none"
  BY DEF NoCallback, Ops
<1>3. NoRequest.type \in Types
  BY DEF NoRequest, Types
<1>4. IsObject(NoObject) /\ NoObject.phase = "free" /\ NoObject.handle = NoFd /\ NoObject.phase \in Phases
  BY DEF NoObject, IsObject, ObjectFields, Phases
<1> QED
  BY <1>1, <1>2, <1>3, <1>4

\* The object o that t has opened becomes x, which takes over the descriptor of
\* the answer.
Opening(t, o) ==
  cb[t].op = "create_file" /\ cb[t].obj = o /\ call[t].type = "OpenHandle" /\ Pending(t)
TakesOver(t, o, x) ==
  /\ IsObject(x) /\ x.phase = "open"
  /\ x.handle = response[t].fd /\ x.ino = response[t].ino /\ x.made = response[t].made
  /\ x.read = obj[o].read /\ x.write = obj[o].write /\ x.how = obj[o].how
Ended(t) ==
  /\ pc' = [pc EXCEPT ![t] = "idle"] /\ call' = [call EXCEPT ![t] = NoRequest]
  /\ response' = [response EXCEPT ![t] = NoResponse] /\ cb' = [cb EXCEPT ![t] = NoCallback]
  /\ UNCHANGED fds /\ Running(t)'

LEMMA HandsOver ==
  ASSUME FileInv, NEW t \in Threads, NEW o \in Objects, NEW x,
         Opening(t, o), TakesOver(t, o, x), Ended(t), obj' = [obj EXCEPT ![o] = x]
  PROVE  FileInv'
<1>1. /\ pc \in [Threads -> Steps] /\ cb \in [Threads -> [op : Ops, obj : Objects \cup {"none"}]]
      /\ call = [u \in Threads |-> call[u]] /\ response = [u \in Threads |-> response[u]]
      /\ obj = [q \in Objects |-> obj[q]]
      /\ \A u \in Threads : IsResponse(response[u])
      /\ \A q \in Objects : IsObject(obj[q]) /\ obj[q].phase \in Phases
  BY DEF FileInv, Shapes, Steps
<1>2. /\ Alone /\ Owned /\ Unshared /\ CreateNewExclusive
      /\ \A u \in Threads : Running(u) /\ Granted(u)
  BY Zenon DEF FileInv
<1>3. /\ IsResponse(NoResponse) /\ NoResponse.fd = NoFd
      /\ NoCallback \in [op : Ops, obj : Objects \cup {"none"}] /\ NoCallback.op = "none"
  BY Zenon, NothingYet
<1>4. /\ pc' \in [Threads -> Steps] /\ cb' \in [Threads -> [op : Ops, obj : Objects \cup {"none"}]]
      /\ pc'[t] = "idle" /\ cb'[t] = NoCallback
      /\ \A u \in Threads \ {t} : pc'[u] = pc[u] /\ cb'[u] = cb[u]
  BY <1>1, <1>3 DEF Ended, Steps
<1>5. /\ call' = [u \in Threads |-> call'[u]] /\ response' = [u \in Threads |-> response'[u]]
      /\ response'[t] = NoResponse
      /\ \A u \in Threads \ {t} : call'[u] = call[u] /\ response'[u] = response[u]
  BY Zenon, <1>1 DEF Ended
<1>6. /\ obj' = [q \in Objects |-> obj'[q]] /\ obj'[o] = x
      /\ \A q \in Objects \ {o} : obj'[q] = obj[q]
  BY <1>1
<1>7. UNCHANGED fds /\ IsObject(x) /\ x.phase = "open"
  BY Zenon DEF Ended, TakesOver
<1>8. Shapes'
  BY <1>1, <1>3, <1>4, <1>5, <1>6, <1>7 DEF Shapes, Steps, Phases
<1>9. Alone'
  <2> SUFFICES ASSUME NEW u \in Threads, NEW v \in Threads,
                      cb'[u].op \in {"create_file", "close_file"}, cb'[v].op # "none",
                      cb'[u].obj = cb'[v].obj
               PROVE  u = v
    BY DEF Alone
  <2>1. u # t /\ v # t
    BY <1>3, <1>4
  <2>2. cb'[u] = cb[u] /\ cb'[v] = cb[v]
    BY Zenon, <1>4, <2>1
  <2> QED
    BY Zenon, <1>2, <2>2 DEF Alone
<1>10. /\ obj[o].phase = "creating" /\ call[t].read = obj[o].read /\ call[t].write = obj[o].write
       /\ obj[o].how.disposition = "CREATE_NEW" => call[t].mode = "CreateAlways"
  <2>1. Fits(cb[t], pc[t], call[t], obj[o])
    BY Zenon, <1>2 DEF Running, Opening
  <2> QED
    BY Zenon, <2>1 DEF Fits, Opening
<1>11. CreateNewExclusive'
  <2>1. x.how.disposition = "CREATE_NEW" => x.made
    BY Zenon, <1>2, <1>10 DEF Granted, Opening, TakesOver
  <2> QED
    BY <1>2, <1>6, <2>1 DEF CreateNewExclusive, Live
<1>12. /\ ~Pending(t)'
       /\ \A u \in Threads : Pending(u)' => u # t /\ Pending(u) /\ response'[u] = response[u]
                                           /\ call'[u] = call[u] /\ pc'[u] = pc[u]
       /\ \A u \in Threads \ {t} : Pending(u) => Pending(u)' /\ response'[u] = response[u]
  BY <1>3, <1>4, <1>5 DEF Pending
<1>13. \A u \in Threads : Granted(u)'
  <2> SUFFICES ASSUME NEW u \in Threads, Pending(u)' PROVE Granted(u)'
    BY Zenon DEF Granted
  <2>1. Granted(u) /\ Pending(u) /\ response'[u] = response[u] /\ call'[u] = call[u] /\ pc'[u] = pc[u]
    BY Zenon, <1>2, <1>12
  <2> QED
    BY Zenon, <2>1 DEF Granted
<1>14. \A u \in Threads : Running(u)'
  <2> SUFFICES ASSUME NEW u \in Threads \ {t} PROVE Running(u)'
    BY Zenon DEF Ended
  <2>1. Running(u) /\ pc'[u] = pc[u] /\ cb'[u] = cb[u] /\ call'[u] = call[u]
    BY Zenon, <1>2, <1>4, <1>5
  <2>2. CASE cb[u].op = "none"
    BY Zenon, <2>1, <2>2, RunningKept
  <2>3. CASE cb[u].op # "none"
    <3>1. cb[u].obj \in Objects
      BY Zenon, <2>1, <2>3 DEF Running, Fits
    <3>2. cb[u].obj # o
      BY Zenon, <1>2, <2>3 DEF Alone, Opening
    <3>3. obj'[cb[u].obj] = obj[cb[u].obj]
      BY Zenon, <1>6, <3>1, <3>2
    <3> QED
      BY Zenon, <2>1, <3>3, RunningKept
  <2> QED
    BY Zenon, <2>2, <2>3
<1>15. /\ Holds(o)' /\ ~Holds(o) /\ obj'[o].handle = response[t].fd
  <2>1. obj[o].handle = NoFd
    BY Zenon, <1>2, <1>10 DEF Owned
  <2>2. x.handle # NoFd /\ x.handle = response[t].fd
    BY Zenon DEF Opening, Pending, TakesOver
  <2> QED
    BY <1>6, <1>7, <2>1, <2>2 DEF Holds, Live
<1>16. \A q \in Objects \ {o} : (Holds(q)' <=> Holds(q)) /\ obj'[q] = obj[q]
  <2> SUFFICES ASSUME NEW q \in Objects \ {o} PROVE Holds(q)' <=> Holds(q)
    BY Zenon, <1>6
  <2>1. ~Closing(t) /\ ~Closing(t)'
    BY <1>3, <1>4 DEF Closing, Opening
  <2>2. \A u \in Threads \ {t} : Closing(u)' <=> Closing(u)
    BY <1>4 DEF Closing
  <2>3. (\E u \in Threads : Closing(u)' /\ cb'[u].obj = q) <=> \E u \in Threads : Closing(u) /\ cb[u].obj = q
    BY Zenon, <1>4, <2>1, <2>2
  <2>4. obj'[q] = obj[q]
    BY Zenon, <1>6
  <2> QED
    BY Zenon, <2>3, <2>4 DEF Holds, Live
<1>17. Owned'
  <2>1. \A q \in Objects : obj'[q].phase \in {"free", "creating"} => obj'[q].handle = NoFd
    BY <1>2, <1>6, <1>7 DEF Owned
  <2>2. ASSUME NEW q \in Objects, Holds(q)'
        PROVE  /\ obj'[q].handle \in DOMAIN fds
               /\ fds[obj'[q].handle] = [ino |-> obj'[q].ino, read |-> obj'[q].read, write |-> obj'[q].write]
    <3>1. CASE q = o
      <4>1. /\ response[t].fd \in DOMAIN fds
            /\ fds[response[t].fd] = [ino |-> response[t].ino, read |-> call[t].read, write |-> call[t].write]
        BY Zenon, <1>2 DEF Owned, Opening
      <4> QED
        BY Zenon, <1>6, <1>10, <3>1, <4>1 DEF TakesOver
    <3>2. CASE q # o
      BY Zenon, <1>2, <1>16, <2>2, <3>2 DEF Owned
    <3> QED
      BY Zenon, <3>1, <3>2
  <2>3. ASSUME NEW u \in Threads, Pending(u)'
        PROVE  /\ response'[u].fd \in DOMAIN fds
               /\ fds[response'[u].fd] =
                    [ino |-> response'[u].ino, read |-> call'[u].read, write |-> call'[u].write]
    BY Zenon, <1>2, <1>12, <2>3 DEF Owned
  <2>4. ASSUME NEW f \in DOMAIN fds
        PROVE  \/ \E q \in Objects : Holds(q)' /\ obj'[q].handle = f
               \/ \E u \in Threads : Pending(u)' /\ response'[u].fd = f
    <3>1. CASE \E q \in Objects : Holds(q) /\ obj[q].handle = f
      BY Zenon, <1>15, <1>16, <3>1
    <3>2. CASE \E u \in Threads \ {t} : Pending(u) /\ response[u].fd = f
      BY Zenon, <1>12, <3>2
    <3>3. CASE response[t].fd = f
      BY Zenon, <1>15, <3>3
    <3> QED
      BY Zenon, <1>2, <3>1, <3>2, <3>3 DEF Owned
  <2>5. DOMAIN fds \subseteq Nat
    BY Zenon, <1>2 DEF Owned
  <2> QED
    BY Zenon, <1>7, <2>1, <2>2, <2>3, <2>4, <2>5 DEF Owned
<1>18. Unshared'
  <2>1. ASSUME NEW q \in Objects \ {o}, Holds(q)' PROVE obj'[q].handle # response[t].fd
    <3>1. Holds(q) /\ obj'[q] = obj[q] /\ q \in Objects
      BY Zenon, <1>16, <2>1
    <3>2. Pending(t)
      BY Zenon DEF Opening
    <3>3. obj[q].handle # response[t].fd
      BY Zenon, <1>2, <3>1, <3>2 DEF Unshared
    <3> QED
      BY Zenon, <3>1, <3>3
  <2>2. ASSUME NEW u \in Threads, Pending(u)' PROVE response'[u].fd # response[t].fd
    BY Zenon, <1>2, <1>12, <2>2 DEF Unshared, Opening
  <2>3. \A p, q \in Objects : Holds(p)' /\ Holds(q)' /\ obj'[p].handle = obj'[q].handle => p = q
    BY <1>2, <1>15, <1>16, <2>1 DEF Unshared
  <2>4. \A q \in Objects, u \in Threads : Holds(q)' /\ Pending(u)' => obj'[q].handle # response'[u].fd
    <3> SUFFICES ASSUME NEW q \in Objects, NEW u \in Threads, Holds(q)', Pending(u)'
                 PROVE  obj'[q].handle # response'[u].fd
      OBVIOUS
    <3>1. CASE q = o
      BY Zenon, <1>15, <2>2, <3>1
    <3>2. CASE q # o
      <4>1. Holds(q) /\ obj'[q] = obj[q]
        BY Zenon, <1>16, <3>2
      <4>2. Pending(u) /\ response'[u] = response[u]
        BY Zenon, <1>12
      <4>3. obj[q].handle # response[u].fd
        BY Zenon, <1>2, <4>1, <4>2 DEF Unshared
      <4> QED
        BY Zenon, <4>1, <4>2, <4>3
    <3> QED
      BY Zenon, <3>1, <3>2
  <2>5. \A u, v \in Threads : Pending(u)' /\ Pending(v)' /\ response'[u].fd = response'[v].fd => u = v
    BY Zenon, <1>2, <1>12 DEF Unshared
  <2> QED
    BY Zenon, <2>3, <2>4, <2>5 DEF Unshared
<1> QED
  BY Zenon, <1>8, <1>9, <1>11, <1>13, <1>14, <1>17, <1>18 DEF FileInv

LEMMA SetField ==
  ASSUME NEW x, IsObject(x), NEW g \in ObjectFields, NEW v
  PROVE  /\ IsObject([x EXCEPT ![g] = v]) /\ [x EXCEPT ![g] = v][g] = v
         /\ \A f \in ObjectFields \ {g} : [x EXCEPT ![g] = v][f] = x[f]
BY DEF IsObject

LEMMA EndEffect ==
  ASSUME FileInv, NEW t \in Threads, End(t)
  PROVE  /\ pc' = [pc EXCEPT ![t] = "idle"] /\ call' = [call EXCEPT ![t] = NoRequest]
         /\ response' = [response EXCEPT ![t] = NoResponse] /\ cb' = [cb EXCEPT ![t] = NoCallback]
         /\ UNCHANGED fds /\ Running(t)'
<1>1. /\ pc' = [pc EXCEPT ![t] = "idle"] /\ call' = [call EXCEPT ![t] = NoRequest]
      /\ response' = [response EXCEPT ![t] = NoResponse] /\ cb' = [cb EXCEPT ![t] = NoCallback]
      /\ UNCHANGED fds
  BY DEF End, Goes, conn_rest, device
<1>2. pc'[t] = "idle" /\ call'[t] = NoRequest /\ cb'[t] = NoCallback
  BY <1>1 DEF FileInv, Shapes
<1>3. "none" \notin AllUses \cup {"clean_up"}
  BY DEF AllUses
<1>4. Fits(NoCallback, "idle", NoRequest, obj'[cb'[t].obj])
  BY <1>3, NothingYet DEF Fits
<1> QED
  BY <1>1, <1>2, <1>4 DEF Running

LEMMA AskEffect ==
  ASSUME FileInv, NEW t \in Threads, NEW r, Ask(t, r)
  PROVE  \E to \in {"check", "lock"} :
           /\ pc' = [pc EXCEPT ![t] = to] /\ call' = [call EXCEPT ![t] = r]
           /\ response' = [response EXCEPT ![t] = NoResponse]
           /\ r.type \notin {"StatFile", "ListDirectory"} => to = "lock"
           /\ pc'[t] = to /\ call'[t] = r
<1>1. call \in [Threads -> {call[u] : u \in Threads}] /\ pc \in [Threads -> Steps]
  BY DEF FileInv, Shapes, Steps
<1> QED
  BY Zenon, <1>1 DEF Ask, Goes

\* A thread in a callback has its object for itself in create_file.
LEMMA InCreate ==
  ASSUME FileInv, NEW t \in Threads, cb[t].op = "create_file"
  PROVE  /\ cb[t].obj \in Objects /\ obj[cb[t].obj].phase = "creating" /\ obj[cb[t].obj].handle = NoFd
         /\ ~Holds(cb[t].obj) /\ IsObject(obj[cb[t].obj])
         /\ \A u \in Threads \ {t} : cb[u].op # "none" => cb[u].obj # cb[t].obj
<1>1. cb[t].obj \in Objects /\ obj[cb[t].obj].phase = "creating"
  <2>1. Running(t)
    BY DEF FileInv
  <2> QED
    BY <2>1 DEF Running, Fits
<1>2. obj[cb[t].obj].handle = NoFd /\ IsObject(obj[cb[t].obj])
  BY <1>1 DEF FileInv, Owned, Shapes
<1>3. ~Holds(cb[t].obj)
  BY Zenon, <1>2 DEF Holds
<1>4. \A u \in Threads \ {t} : cb[u].op # "none" => cb[u].obj # cb[t].obj
  BY DEF FileInv, Alone
<1> QED
  BY <1>1, <1>2, <1>3, <1>4

\* create_file returns without a handle.
LEMMA CreatedNext ==
  ASSUME FileInv, NEW t \in Threads, cb[t].op = "create_file", ~Pending(t),
         NEW x, IsObject(x), x.handle = NoFd, NEW status, Created(t, x, status)
  PROVE  FileInv'
<1>0. PICK o \in Objects : o = cb[t].obj
  BY InCreate
<1> DEFINE y == IF Kept(x.how, status) THEN [x EXCEPT !.phase = "open", !.status = status] ELSE NoObject
<1>1. obj' = [obj EXCEPT ![o] = y] /\ End(t)
  BY <1>0 DEF Created
<1>2. IsObject(y) /\ y.handle = NoFd /\ y.phase \in {"open", "free"}
  <2> DEFINE z == [x EXCEPT !.phase = "open"]
  <2>1. IsObject(z) /\ z.phase = "open" /\ z.handle = NoFd
    BY SetField DEF ObjectFields
  <2> HIDE DEF z
  <2> DEFINE w == [z EXCEPT !.status = status]
  <2>2. IsObject(w) /\ w.phase = "open" /\ w.handle = NoFd
    BY <2>1, SetField DEF ObjectFields
  <2>3. w = [x EXCEPT !.phase = "open", !.status = status]
    BY DEF z
  <2> HIDE DEF w
  <2> QED
    BY <2>2, <2>3, NothingYet
<1> HIDE DEF y
<1>3. /\ pc' = [pc EXCEPT ![t] = "idle"] /\ call' = [call EXCEPT ![t] = NoRequest]
      /\ response' = [response EXCEPT ![t] = NoResponse] /\ cb' = [cb EXCEPT ![t] = NoCallback]
      /\ UNCHANGED fds /\ Running(t)'
  BY <1>1, EndEffect
<1>4. ~Holds(o) /\ \A u \in Threads \ {t} : cb[u].op # "none" => cb[u].obj # o
  BY <1>0, InCreate
<1>5. y.phase \in Phases /\ "idle" \in Steps
  BY <1>2 DEF Phases, Steps
<1>6. Turn(t, "idle", NoRequest, NoResponse, NoCallback, o, y)
  BY <1>0, <1>1, <1>2, <1>3, <1>4, <1>5, NothingYet DEF Turn
<1> QED
  BY Zenon, <1>6, CallbackMoves

\* create_file goes on with the request r.
GoesOn(t, x, r) ==
  /\ IsObject(x) /\ x.phase = "creating" /\ x.handle = NoFd
  /\ r.type \in {"CreateDirectory", "OpenHandle"}
  /\ r.type = "OpenHandle" => /\ r.read = x.read /\ r.write = x.write
                              /\ x.how.disposition = "CREATE_NEW" => r.mode = "CreateAlways"
  /\ obj' = [obj EXCEPT ![cb[t].obj] = x] /\ Continue(t, r)

LEMMA CreateContinues ==
  ASSUME FileInv, NEW t \in Threads, cb[t].op = "create_file", ~Pending(t), NEW x, NEW r, GoesOn(t, x, r)
  PROVE  FileInv'
<1> USE DEF GoesOn
<1>0. PICK o \in Objects : o = cb[t].obj
  BY Zenon, InCreate
<1>1. PICK to \in {"check", "lock"} :
        /\ pc' = [pc EXCEPT ![t] = to] /\ call' = [call EXCEPT ![t] = r]
        /\ response' = [response EXCEPT ![t] = NoResponse] /\ pc'[t] = to /\ call'[t] = r
  BY AskEffect DEF Continue
<1>2. UNCHANGED <<fds, cb>> /\ obj' = [obj EXCEPT ![o] = x]
  BY Zenon, <1>0 DEF Continue, conn_rest, device
<1>3. cb \in [Threads -> [op : Ops, obj : Objects \cup {"none"}]] /\ obj = [q \in Objects |-> obj[q]]
  BY DEF FileInv, Shapes
<1>4. cb' = [cb EXCEPT ![t] = cb[t]] /\ cb[t] \in [op : Ops, obj : Objects \cup {"none"}]
  BY <1>2, <1>3
<1>5. ~Holds(o) /\ \A u \in Threads \ {t} : cb[u].op # "none" => cb[u].obj # o
  BY <1>0, InCreate
<1>6. Running(t)'
  <2>1. obj'[cb'[t].obj] = x /\ cb'[t] = cb[t]
    BY <1>0, <1>2, <1>3
  <2>2. Fits(cb[t], to, r, x)
    <3>1. "create_file" \notin AllUses /\ r.type \in Types
      BY DEF AllUses, Types, PathRequests
    <3> QED
      BY <1>0, <3>1 DEF Fits
  <2> QED
    BY Zenon, <1>1, <2>1, <2>2 DEF Running
<1>7. x.phase \in Phases /\ to \in Steps
  BY Zenon DEF Phases, Steps
<1>8. Turn(t, to, r, NoResponse, cb[t], o, x)
  BY Zenon, <1>0, <1>1, <1>2, <1>4, <1>5, <1>6, <1>7, NothingYet DEF Turn
<1> QED
  BY Zenon, <1>8, CallbackMoves

LEMMA NoOneOn ==
  ASSUME FileInv, NEW o \in Objects, obj[o].phase = "free"
  PROVE  /\ \A u \in Threads : cb[u].op # "none" => cb[u].obj # o
         /\ obj[o].handle = NoFd /\ ~Holds(o)
<1>1. \A u \in Threads : cb[u].op # "none" => cb[u].obj # o
  <2> SUFFICES ASSUME NEW u \in Threads, cb[u].op # "none", cb[u].obj = o PROVE FALSE
    OBVIOUS
  <2>1. cb[u].op \in Ops \ {"none"} /\ Running(u)
    BY DEF FileInv, Shapes
  <2> QED
    BY Zenon, <2>1 DEF Running, Fits, Ops
<1>2. obj[o].handle = NoFd
  BY DEF FileInv, Owned
<1> QED
  BY <1>1, <1>2 DEF Holds

LEMMA IdleThread ==
  ASSUME FileInv, NEW t \in Threads, pc[t] = "idle"
  PROVE  /\ cb[t].op = "none" /\ cb[t] = NoCallback /\ call[t] = NoRequest /\ ~Pending(t)
         /\ IsResponse(response[t]) /\ response[t].fd = NoFd
<1>1. Running(t) /\ Granted(t) /\ IsResponse(response[t])
  BY DEF FileInv, Shapes
<1> QED
  BY Zenon, <1>1 DEF Running, Fits, Granted, Pending

LEMMA CreateNext ==
  ASSUME FileInv, NEW t \in Threads, NEW o \in Objects, NEW how, create_file(t, o, how)
  PROVE  FileInv'
<1> DEFINE x == [NoObject EXCEPT !.phase = "creating", !.path = how.path, !.how = how, !.dir = how.directory,
                                 !.read = how.read, !.write = how.write, !.delete = how.delete]
           r == On("StatFile", how.path)
           c == [op |-> "create_file", obj |-> o]
<1>1. /\ obj[o].phase = "free" /\ pc[t] = "idle" /\ obj' = [obj EXCEPT ![o] = x]
      /\ cb' = [cb EXCEPT ![t] = c] /\ Ask(t, r) /\ UNCHANGED fds
  BY DEF create_file, Begin, conn_rest, device
<1>2. IsObject(x) /\ x.phase = "creating" /\ x.handle = NoFd
  BY Zenon DEF NoObject, IsObject, ObjectFields
<1>3. r.type = "StatFile" /\ r.type \in Types
  BY DEF On, Types, PathRequests
<1>4. c.op = "create_file" /\ c.obj = o /\ c \in [op : Ops, obj : Objects \cup {"none"}]
  BY DEF Ops
<1> HIDE DEF x, r, c
<1>5. PICK to \in {"check", "lock"} :
        /\ pc' = [pc EXCEPT ![t] = to] /\ call' = [call EXCEPT ![t] = r]
        /\ response' = [response EXCEPT ![t] = NoResponse] /\ pc'[t] = to /\ call'[t] = r
  BY <1>1, AskEffect
<1>6. Running(t)'
  <2>1. cb'[t] = c /\ obj'[o] = x
    BY <1>1 DEF FileInv, Shapes
  <2>2. Fits(c, to, r, x)
    <3>1. "create_file" \notin AllUses
      BY DEF AllUses
    <3> QED
      BY Zenon, <1>2, <1>3, <1>4, <3>1 DEF Fits
  <2> QED
    BY <1>4, <1>5, <2>1, <2>2 DEF Running
<1>7. x.phase \in Phases /\ to \in Steps
  BY <1>2 DEF Phases, Steps
<1>8. Turn(t, to, r, NoResponse, c, o, x)
  BY Zenon, <1>1, <1>2, <1>4, <1>5, <1>6, <1>7, NothingYet, NoOneOn, IdleThread DEF Turn
<1> QED
  BY <1>8, CallbackMoves

\* An answer to a request other than an open brings no descriptor.
LEMMA NotPending ==
  ASSUME FileInv, NEW t \in Threads, call[t].type # "OpenHandle" \/ response[t].status # "Success"
  PROVE  ~Pending(t)
BY Zenon DEF FileInv, Granted

LEMMA CreateStatNext ==
  ASSUME FileInv, NEW t \in Threads, create_file_stat(t)
  PROVE  FileInv'
<1> DEFINE old == obj[cb[t].obj]
<1>1. cb[t].op = "create_file" /\ call[t].type = "StatFile"
  BY Zenon DEF create_file_stat, Returned
<1>2. IsObject(old) /\ old.phase = "creating" /\ old.handle = NoFd /\ ~Pending(t)
  BY <1>1, InCreate, NotPending
<1>3. PICK exists, is_dir, x :
        /\ x = [old EXCEPT !.existed = exists, !.dir = @ \/ is_dir]
        /\ \/ Created(t, x, "FAILED") \/ handle_create_directory(t, x, is_dir) \/ handle_create_file(t, x)
  <2> DEFINE e == response[t].status = "Success"
             d == e /\ response[t].stats[call[t].path].stat.dir
  <2>1. LET x == [old EXCEPT !.existed = e, !.dir = @ \/ d]
        IN  \/ Created(t, x, "FAILED") \/ handle_create_directory(t, x, d) \/ handle_create_file(t, x)
    BY Zenon DEF create_file_stat
  <2> HIDE DEF e, d
  <2> QED
    BY Zenon, <2>1
<1> HIDE DEF old
<1>4. IsObject(x) /\ x.phase = "creating" /\ x.handle = NoFd
  <2> DEFINE z == [old EXCEPT !.existed = exists]
  <2>1. IsObject(z) /\ z.phase = "creating" /\ z.handle = NoFd
    BY <1>2, SetField DEF ObjectFields
  <2>2. PICK v : x = [z EXCEPT !.dir = v]
    BY Zenon, <1>3
  <2> HIDE DEF z
  <2> QED
    BY <2>1, <2>2, SetField DEF ObjectFields
<1>5. ASSUME NEW status, Created(t, x, status) PROVE FileInv'
  BY <1>1, <1>2, <1>4, <1>5, CreatedNext
<1>6. CASE handle_create_directory(t, x, is_dir)
  <2> DEFINE r == On("CreateDirectory", x.path)
  <2>1. CASE obj' = [obj EXCEPT ![cb[t].obj] = x] /\ Continue(t, r)
    <3>1. r.type = "CreateDirectory"
      BY DEF On
    <3> HIDE DEF r
    <3> QED
      <4>1. GoesOn(t, x, r)
        BY <1>4, <2>1, <3>1 DEF GoesOn
      <4> QED
        BY <1>1, <1>2, <4>1, CreateContinues
  <2> QED
    BY <1>5, <1>6, <2>1 DEF handle_create_directory
<1>7. CASE handle_create_file(t, x)
  <2> DEFINE na == ~x.read /\ ~x.write
             y == [x EXCEPT !.read = @ \/ na]
             r == [type |-> "OpenHandle", path |-> x.path, mode |-> open_mode(x.how.disposition),
                   read |-> y.read, write |-> y.write]
  <2>1. CASE obj' = [obj EXCEPT ![cb[t].obj] = y] /\ Continue(t, r)
    <3>1. IsObject(y) /\ y.phase = "creating" /\ y.handle = NoFd /\ y.how = x.how
      <4>1. PICK v : y = [x EXCEPT !.read = v]
        OBVIOUS
      <4> HIDE DEF y
      <4> QED
        BY <1>4, <4>1, SetField DEF ObjectFields
    <3>2. r.type = "OpenHandle" /\ r.read = y.read /\ r.write = y.write /\ r.mode = open_mode(x.how.disposition)
      OBVIOUS
    <3>3. x.how.disposition = "CREATE_NEW" => r.mode = "CreateAlways"
      BY <3>2 DEF open_mode
    <3> HIDE DEF y, r
    <3> QED
      <4>1. GoesOn(t, y, r)
        BY <2>1, <3>1, <3>2, <3>3 DEF GoesOn
      <4> QED
        BY <1>1, <1>2, <4>1, CreateContinues
  <2> QED
    BY <1>5, <1>7, <2>1 DEF handle_create_file
<1> QED
  BY <1>3, <1>5, <1>6, <1>7

LEMMA CreateMkdirNext ==
  ASSUME FileInv, NEW t \in Threads, create_file_mkdir(t)
  PROVE  FileInv'
<1>1. cb[t].op = "create_file" /\ call[t].type = "CreateDirectory"
  BY DEF create_file_mkdir, Returned
<1>2. ~Pending(t) /\ IsObject(obj[cb[t].obj]) /\ obj[cb[t].obj].handle = NoFd
  BY Zenon, <1>1, InCreate, NotPending
<1> QED
  BY Zenon, <1>1, <1>2, CreatedNext DEF create_file_mkdir

\* The open has returned: its descriptor becomes the object's.
LEMMA CreateOpenNext ==
  ASSUME FileInv, NEW t \in Threads, create_file_open(t)
  PROVE  FileInv'
<1>0. PICK o \in Objects, x \in {obj[cb[t].obj]}, r \in {response[t]} : o = cb[t].obj /\ x = obj[o] /\ r = response[t]
  BY InCreate DEF create_file_open, Returned
<1>1. cb[t].op = "create_file" /\ call[t].type = "OpenHandle"
  BY DEF create_file_open, Returned
<1>2. IsObject(x) /\ x.handle = NoFd /\ x.phase = "creating"
  BY Zenon, <1>0, <1>1, InCreate
<1>3. CASE r.status # "Success"
  <2>1. Created(t, x, ntstatus_from_respstatus(r.status)) /\ ~Pending(t)
    BY <1>0, <1>3, NotPending DEF create_file_open
  <2> QED
    BY Zenon, <1>1, <1>2, <2>1, CreatedNext
<1>4. CASE r.status = "Success"
  <2> DEFINE y1 == [x EXCEPT !.handle = r.fd]
             y2 == [y1 EXCEPT !.ino = r.ino]
             y == [y2 EXCEPT !.made = r.made]
  <2>1. PICK status : Created(t, y, status) /\ (status = "COLLISION" => x.how.disposition \in {"OPEN_ALWAYS", "CREATE_ALWAYS"})
                      /\ status \in {"COLLISION", "SUCCESS"}
    BY <1>0, <1>4 DEF create_file_open
  <2>2. IsObject(y1) /\ y1.handle = r.fd /\ y1.read = x.read /\ y1.write = x.write /\ y1.how = x.how
    BY <1>2, SetField DEF ObjectFields
  <2> HIDE DEF y1
  <2>3. IsObject(y2) /\ y2.handle = r.fd /\ y2.read = x.read /\ y2.write = x.write /\ y2.how = x.how
        /\ y2.ino = r.ino
    BY <2>2, SetField DEF ObjectFields
  <2> HIDE DEF y2
  <2>4. IsObject(y) /\ y.handle = r.fd /\ y.read = x.read /\ y.write = x.write /\ y.how = x.how
        /\ y.ino = r.ino /\ y.made = r.made
    BY <2>3, SetField DEF ObjectFields
  <2> HIDE DEF y
  <2>5. CASE ~Pending(t)
    BY <1>0, <1>1, <2>1, <2>4, <2>5, CreatedNext DEF Pending
  <2>6. CASE Pending(t)
    <3> DEFINE z1 == [y EXCEPT !.phase = "open"]
               z == [z1 EXCEPT !.status = status]
    <3>1. obj' = [obj EXCEPT ![o] = z] /\ End(t)
      <4>1. Kept(y.how, status)
        BY Zenon, <2>1, <2>4 DEF Kept
      <4> QED
        BY <1>0, <2>1, <4>1 DEF Created
    <3>2. IsObject(z1) /\ z1.handle = r.fd /\ z1.read = x.read /\ z1.write = x.write /\ z1.how = x.how
          /\ z1.ino = r.ino /\ z1.made = r.made /\ z1.phase = "open"
      BY <2>4, SetField DEF ObjectFields
    <3> HIDE DEF z1
    <3>3. IsObject(z) /\ z.handle = r.fd /\ z.read = x.read /\ z.write = x.write /\ z.how = x.how
          /\ z.ino = r.ino /\ z.made = r.made /\ z.phase = "open"
      BY <3>2, SetField DEF ObjectFields
    <3> HIDE DEF z
    <3>4. /\ pc' = [pc EXCEPT ![t] = "idle"] /\ call' = [call EXCEPT ![t] = NoRequest]
          /\ response' = [response EXCEPT ![t] = NoResponse] /\ cb' = [cb EXCEPT ![t] = NoCallback]
          /\ UNCHANGED fds /\ Running(t)'
      BY Zenon, <3>1, EndEffect
    <3>5. Opening(t, o)
      BY Zenon, <1>0, <1>1, <2>6 DEF Opening
    <3>6. TakesOver(t, o, z)
      BY Zenon, <1>0, <3>3 DEF TakesOver
    <3> QED
      BY Zenon, <3>1, <3>4, <3>5, <3>6, HandsOver DEF Ended
  <2> QED
    BY Zenon, <2>5, <2>6
<1> QED
  BY <1>3, <1>4

-----------------------------------------------------------------------------
(* The callbacks of a file object that lives.                              *)

LEMMA OnLive ==
  ASSUME FileInv, NEW o \in Objects, Live(o)
  PROVE  /\ IsObject(obj[o])
         /\ \A u \in Threads : cb[u].op # "none" /\ cb[u].obj = o => cb[u].op \in AllUses \cup {"clean_up"}
         /\ obj[o].how.disposition = "CREATE_NEW" /\ obj[o].handle # NoFd => obj[o].made
<1>1. ASSUME NEW u \in Threads, cb[u].op # "none", cb[u].obj = o
      PROVE  cb[u].op \in AllUses \cup {"clean_up"}
  <2>1. cb[u].op \in Ops /\ Running(u)
    BY DEF FileInv, Shapes
  <2> QED
    BY Zenon, <1>1, <2>1 DEF Running, Fits, Ops, Live
<1> QED
  BY <1>1 DEF FileInv, Shapes, CreateNewExclusive

\* x is obj[o] with a path, a flag or its phase changed, and lives.
StillLive(o, x) ==
  /\ Live(o) /\ IsObject(x) /\ SameFile(x, obj[o]) /\ x.how = obj[o].how /\ x.made = obj[o].made
  /\ x.phase \in {"open", "cleaned"}

LEMMA LiveFrame ==
  ASSUME FileInv, NEW o \in Objects, NEW x, StillLive(o, x)
  PROVE  /\ \A u \in Threads : cb[u].op # "none" /\ cb[u].obj = o =>
              cb[u].op \in AllUses \cup {"clean_up"} /\ x.phase \in {"open", "cleaned"}
         /\ x.how.disposition = "CREATE_NEW" /\ x.handle # NoFd => x.made
         /\ x.phase \in Phases /\ x.phase \notin {"free", "creating"}
<1>1. x.phase \in Phases /\ x.phase \notin {"free", "creating"}
  BY DEF StillLive, Phases
<1>2. x.how.disposition = "CREATE_NEW" /\ x.handle # NoFd => x.made
  BY OnLive DEF StillLive, SameFile
<1> QED
  BY <1>1, <1>2, OnLive DEF StillLive

LEMMA LiveBegins ==
  ASSUME FileInv, NEW t \in Threads, NEW o \in Objects, NEW x, StillLive(o, x),
         NEW op \in AllUses \cup {"clean_up"}, NEW r, r.type \in Types \ {"OpenHandle", "CloseHandle"},
         Begin(t, op, o, r), obj' = [obj EXCEPT ![o] = x]
  PROVE  FileInv'
<1> DEFINE c == [op |-> op, obj |-> o]
<1>1. pc[t] = "idle" /\ cb' = [cb EXCEPT ![t] = c] /\ Ask(t, r) /\ UNCHANGED fds
  BY DEF Begin, conn_rest, device
<1>2. /\ c.op = op /\ c.obj = o /\ c \in [op : Ops, obj : Objects \cup {"none"}]
      /\ c.op \notin {"none", "create_file", "close_file"}
  BY DEF Ops, AllUses
<1> HIDE DEF c
<1>3. PICK to \in {"check", "lock"} :
        /\ pc' = [pc EXCEPT ![t] = to] /\ call' = [call EXCEPT ![t] = r]
        /\ response' = [response EXCEPT ![t] = NoResponse] /\ pc'[t] = to /\ call'[t] = r
  BY <1>1, AskEffect
<1>4. Running(t)'
  <2>1. cb'[t] = c /\ obj'[o] = x
    BY <1>1 DEF FileInv, Shapes
  <2>2. Fits(c, to, r, x)
    BY Zenon, <1>2 DEF Fits, StillLive
  <2> QED
    BY Zenon, <1>2, <1>3, <2>1, <2>2 DEF Running
<1>5. to \in Steps
  BY DEF Steps
<1>6. Turn(t, to, r, NoResponse, c, o, x)
  BY Zenon, <1>1, <1>2, <1>3, <1>4, <1>5, NothingYet, IdleThread, LiveFrame DEF Turn, StillLive
<1> QED
  BY <1>6, CallbackMoves

LEMMA LiveEnds ==
  ASSUME FileInv, NEW t \in Threads, cb[t].op \in AllUses \cup {"clean_up"},
         NEW x, StillLive(cb[t].obj, x), End(t), obj' = [obj EXCEPT ![cb[t].obj] = x]
  PROVE  FileInv'
<1>0. PICK o \in Objects : o = cb[t].obj
  <2>1. Running(t) /\ cb[t].op # "none"
    BY DEF FileInv, AllUses
  <2> QED
    BY Zenon, <2>1 DEF Running, Fits
<1>1. ~Pending(t)
  <2>1. Running(t)
    BY DEF FileInv
  <2>2. call[t].type # "OpenHandle"
    BY Zenon, <2>1 DEF Running, Fits
  <2> QED
    BY <2>2, NotPending
<1>2. /\ pc' = [pc EXCEPT ![t] = "idle"] /\ call' = [call EXCEPT ![t] = NoRequest]
      /\ response' = [response EXCEPT ![t] = NoResponse] /\ cb' = [cb EXCEPT ![t] = NoCallback]
      /\ UNCHANGED fds /\ Running(t)'
  BY EndEffect
<1>3. "idle" \in Steps
  BY Zenon DEF Steps
<1>4. Turn(t, "idle", NoRequest, NoResponse, NoCallback, o, x)
  BY Zenon, <1>0, <1>1, <1>2, <1>3, NothingYet, LiveFrame DEF Turn, StillLive
<1> QED
  BY Zenon, <1>4, CallbackMoves

LEMMA UseNext ==
  ASSUME FileInv, NEW t \in Threads, NEW o \in Objects, NEW op \in Uses, Use(t, o, op)
  PROVE  FileInv'
<1>0. op \in AllUses
  BY UsesAssumption
<1>1. PICK r \in Request(op, obj[o]) : Begin(t, op, o, r)
  BY DEF Use
<1>2. Live(o)
  BY <1>0 DEF Use, Allowed, AllUses, Live
<1>3. obj' = [obj EXCEPT ![o] = obj[o]]
  BY DEF Use, FileInv, Shapes
<1>4. StillLive(o, obj[o])
  BY Zenon, <1>2, OnLive DEF StillLive, SameFile, Live
<1>5. r.type \in Types \ {"OpenHandle", "CloseHandle"}
  <2>1. CASE op = "move_file"
    <3>1. PICK p \in Targets, b \in BOOLEAN : r = [type |-> "MoveEntry", path |-> obj[o].path, to |-> p, overwrite |-> b]
      BY <1>1, <2>1 DEF Request
    <3> QED
      BY <3>1 DEF Types, PathRequests
  <2>2. CASE op \in {"read_file", "write_file", "set_end_of_file"}
    BY <1>1, <2>2 DEF Request, With_handle, Types, HandleRequests
  <2>3. CASE op \in {"get_file_information", "find_files", "set_file_time", "get_disk_free_space"}
    BY <1>1, <2>3 DEF Request, On, Types, PathRequests
  <2>4. CASE op = "delete_file"
    BY <1>1, <2>4 DEF Request, On, Types, PathRequests
  <2> QED
    BY <1>0, <2>1, <2>2, <2>3, <2>4 DEF AllUses
<1> QED
  BY Zenon, <1>0, <1>1, <1>3, <1>4, <1>5, LiveBegins

LEMMA UserOnLive ==
  ASSUME FileInv, NEW t \in Threads, cb[t].op \in AllUses \cup {"clean_up"}
  PROVE  cb[t].obj \in Objects /\ Live(cb[t].obj) /\ StillLive(cb[t].obj, obj[cb[t].obj])
<1>1. cb[t].obj \in Objects /\ Live(cb[t].obj)
  <2>1. Running(t) /\ cb[t].op # "none"
    BY DEF FileInv, AllUses
  <2> QED
    BY Zenon, <2>1 DEF Running, Fits, Live
<1> QED
  BY Zenon, <1>1, OnLive DEF StillLive, SameFile, Live

\* A field that no handle depends on may change.
LEMMA SetLive ==
  ASSUME NEW o \in Objects, NEW x, StillLive(o, x), NEW g \in {"path", "dir", "delete"}, NEW v
  PROVE  StillLive(o, [x EXCEPT ![g] = v])
<1> DEFINE y == [x EXCEPT ![g] = v]
<1>1. IsObject(y) /\ \A f \in ObjectFields \ {g} : y[f] = x[f]
  BY SetField DEF StillLive, ObjectFields
<1>2. /\ y.handle = x.handle /\ y.ino = x.ino /\ y.read = x.read /\ y.write = x.write
      /\ y.how = x.how /\ y.made = x.made /\ y.phase = x.phase
  BY <1>1 DEF ObjectFields
<1> HIDE DEF y
<1>3. StillLive(o, y)
  BY <1>1, <1>2 DEF StillLive, SameFile
<1> QED
  BY <1>3 DEF y

LEMMA UseReturnsNext ==
  ASSUME FileInv, NEW t \in Threads, Use_returns(t)
  PROVE  FileInv'
<1>1. cb[t].op \in AllUses /\ End(t)
  BY UsesAssumption DEF Use_returns
<1>2. PICK o \in Objects, x \in {obj[cb[t].obj]} : o = cb[t].obj /\ x = obj[o] /\ StillLive(o, x)
  BY <1>1, UserOnLive
<1>3. obj = [q \in Objects |-> obj[q]]
  BY DEF FileInv, Shapes
<1>4. CASE response[t].status # "Success"
  <2>1. obj' = [obj EXCEPT ![cb[t].obj] = x]
    BY <1>2, <1>3, <1>4 DEF Use_returns
  <2> QED
    BY Zenon, <1>1, <1>2, <2>1, LiveEnds
<1>5. CASE response[t].status = "Success"
  <2>1. obj' = [obj EXCEPT ![cb[t].obj] = Updated(t, x)]
    BY <1>2, <1>5 DEF Use_returns
  <2>2. StillLive(o, Updated(t, x))
    <3>1. CASE cb[t].op = "get_file_information"
      <4>1. PICK v : Updated(t, x) = [x EXCEPT !.dir = v]
        BY Zenon, <3>1 DEF Updated
      <4> QED
        BY <1>2, <4>1, SetLive
    <3>2. CASE cb[t].op = "delete_file"
      <4>1. PICK v : Updated(t, x) = [x EXCEPT !.delete = v]
        BY Zenon, <3>2 DEF Updated
      <4> QED
        BY <1>2, <4>1, SetLive
    <3>3. CASE cb[t].op = "move_file"
      <4>1. PICK v : Updated(t, x) = [x EXCEPT !.path = v]
        BY <3>3 DEF Updated
      <4> QED
        BY <1>2, <4>1, SetLive
    <3>4. CASE cb[t].op \notin {"get_file_information", "delete_file", "move_file"}
      BY <1>2, <3>4 DEF Updated
    <3> QED
      BY <3>1, <3>2, <3>3, <3>4
  <2>3. StillLive(cb[t].obj, Updated(t, x))
    BY <1>2, <2>2
  <2> QED
    BY Zenon, <1>1, <2>1, <2>3, LiveEnds
<1> QED
  BY <1>4, <1>5

LEMMA SetPhase ==
  ASSUME NEW x, IsObject(x), NEW p
  PROVE  LET y == [x EXCEPT !.phase = p]
         IN  /\ IsObject(y) /\ SameFile(y, x) /\ y.how = x.how /\ y.made = x.made
             /\ y.handle = x.handle /\ y.phase = p
<1> DEFINE y == [x EXCEPT !.phase = p]
<1>1. IsObject(y) /\ y.phase = p /\ \A f \in ObjectFields \ {"phase"} : y[f] = x[f]
  BY SetField DEF ObjectFields
<1> HIDE DEF y
<1>2. IsObject(y) /\ SameFile(y, x) /\ y.how = x.how /\ y.made = x.made /\ y.handle = x.handle /\ y.phase = p
  BY <1>1 DEF ObjectFields, SameFile
<1> QED
  BY <1>2 DEF y

\* A callback that makes no call leaves its thread idle.
LEMMA StaysIdle ==
  ASSUME FileInv, NEW t \in Threads, pc[t] = "idle", UNCHANGED <<pc, call, response, cb>>
  PROVE  /\ pc' = [pc EXCEPT ![t] = "idle"] /\ call' = [call EXCEPT ![t] = NoRequest]
         /\ response' = [response EXCEPT ![t] = response[t]] /\ cb' = [cb EXCEPT ![t] = NoCallback]
         /\ Running(t)'
<1>1. /\ pc = [u \in Threads |-> pc[u]] /\ call = [u \in Threads |-> call[u]]
      /\ response = [u \in Threads |-> response[u]] /\ cb = [u \in Threads |-> cb[u]]
  BY DEF FileInv, Shapes
<1>2. call[t] = NoRequest /\ cb[t] = NoCallback
  BY IdleThread
<1>3. /\ pc' = [pc EXCEPT ![t] = "idle"] /\ call' = [call EXCEPT ![t] = NoRequest]
      /\ response' = [response EXCEPT ![t] = response[t]] /\ cb' = [cb EXCEPT ![t] = NoCallback]
  BY Zenon, <1>1, <1>2
<1>4. Running(t)'
  <2>1. "none" \notin AllUses \cup {"clean_up"}
    BY DEF AllUses
  <2>2. Fits(NoCallback, "idle", NoRequest, obj'[cb'[t].obj])
    BY <2>1, NothingYet DEF Fits
  <2> QED
    BY <1>2, <2>2 DEF Running
<1> QED
  BY Zenon, <1>3, <1>4

LEMMA CleanUpNext ==
  ASSUME FileInv, NEW t \in Threads, NEW o \in Objects, clean_up(t, o)
  PROVE  FileInv'
<1>1. PICK x \in {[obj[o] EXCEPT !.phase = "cleaned"]} : x = [obj[o] EXCEPT !.phase = "cleaned"]
  OBVIOUS
<1>2. Live(o)
  BY DEF clean_up, Live
<1>3. StillLive(o, x)
  BY <1>1, <1>2, OnLive, SetPhase DEF StillLive
<1>4. obj' = [obj EXCEPT ![o] = x]
  BY <1>1 DEF clean_up
<1>5. CASE obj[o].delete
  <2> DEFINE r == On(IF obj[o].dir THEN "RemoveDirectory" ELSE "RemoveFile", obj[o].path)
  <2>1. Begin(t, "clean_up", o, r)
    BY <1>5 DEF clean_up
  <2>2. r.type \in Types \ {"OpenHandle", "CloseHandle"}
    BY DEF On, Types, PathRequests
  <2> HIDE DEF r
  <2> QED
    BY Zenon, <1>3, <1>4, <2>1, <2>2, LiveBegins
<1>6. CASE ~obj[o].delete
  <2>1. pc[t] = "idle" /\ UNCHANGED <<fds, pc, call, response, cb>>
    BY <1>6 DEF clean_up, conn_vars, device
  <2>2. /\ pc' = [pc EXCEPT ![t] = "idle"] /\ call' = [call EXCEPT ![t] = NoRequest]
        /\ response' = [response EXCEPT ![t] = response[t]] /\ cb' = [cb EXCEPT ![t] = NoCallback]
        /\ Running(t)'
    BY <2>1, StaysIdle
  <2>4. "idle" \in Steps
    BY DEF Steps
  <2>5. Turn(t, "idle", NoRequest, response[t], NoCallback, o, x)
    BY Zenon, <1>3, <1>4, <2>1, <2>2, <2>4, NothingYet, IdleThread, LiveFrame DEF Turn, StillLive
  <2> QED
    BY <2>5, CallbackMoves
<1> QED
  BY <1>5, <1>6

LEMMA CleanUpReturnsNext ==
  ASSUME FileInv, NEW t \in Threads, clean_up_returns(t)
  PROVE  FileInv'
<1>1. cb[t].op = "clean_up" /\ End(t) /\ obj' = obj
  BY DEF clean_up_returns
<1>2. obj' = [obj EXCEPT ![cb[t].obj] = obj[cb[t].obj]]
  BY <1>1 DEF FileInv, Shapes
<1>3. PICK x : x = obj[cb[t].obj] /\ StillLive(cb[t].obj, x)
  BY Zenon, <1>1, UserOnLive
<1> QED
  BY Zenon, <1>1, <1>2, <1>3, LiveEnds

LEMMA CloseNext ==
  ASSUME FileInv, NEW t \in Threads, NEW o \in Objects, close_file(t, o)
  PROVE  FileInv'
<1>0. /\ obj[o].phase = "cleaned" /\ Live(o) /\ pc[t] = "idle" /\ UNCHANGED fds
      /\ \A u \in Threads : cb[u].obj # o
  BY DEF close_file, Begin, Unused, Live, conn_rest, conn_vars, device
<1>1. CASE obj[o].handle # NoFd
  <2>1. PICK x \in {[obj[o] EXCEPT !.phase = "closing"]} : x = [obj[o] EXCEPT !.phase = "closing"]
    OBVIOUS
  <2> DEFINE r == With_handle("CloseHandle", obj[o].handle)
             c == [op |-> "close_file", obj |-> o]
  <2>2. /\ cb' = [cb EXCEPT ![t] = c] /\ Ask(t, r) /\ obj' = [obj EXCEPT ![o] = x]
    BY <1>1, <2>1 DEF close_file, Begin
  <2>3. IsObject(x) /\ SameFile(x, obj[o]) /\ x.phase = "closing" /\ x.handle = obj[o].handle
    BY <1>0, <2>1, OnLive, SetPhase
  <2>4. r = With_handle("CloseHandle", x.handle) /\ r.type = "CloseHandle" /\ r.type \in Types
    BY <2>3 DEF With_handle, Types, HandleRequests
  <2>5. c.op = "close_file" /\ c.obj = o /\ c \in [op : Ops, obj : Objects \cup {"none"}]
    BY DEF Ops
  <2> HIDE DEF r, c
  <2>6. PICK to \in {"check", "lock"} :
          /\ pc' = [pc EXCEPT ![t] = to] /\ call' = [call EXCEPT ![t] = r]
          /\ response' = [response EXCEPT ![t] = NoResponse] /\ pc'[t] = to /\ call'[t] = r
          /\ r.type \notin {"StatFile", "ListDirectory"} => to = "lock"
    BY <2>2, AskEffect
  <2>7. to = "lock" /\ to \in Steps /\ x.phase \in Phases
    BY <2>3, <2>4, <2>6 DEF Steps, Phases
  <2>8. Running(t)'
    <3>1. cb'[t] = c /\ obj'[o] = x
      BY <2>2 DEF FileInv, Shapes
    <3>2. Fits(c, to, r, x)
      <4>1. "close_file" \notin AllUses
        BY DEF AllUses
      <4> QED
        BY <1>1, <2>3, <2>4, <2>5, <2>6, <4>1 DEF Fits
    <3> QED
      BY <2>5, <2>6, <3>1, <3>2 DEF Running
  <2>9. Turn(t, to, r, NoResponse, c, o, x)
    BY <1>0, <2>2, <2>3, <2>5, <2>6, <2>7, <2>8, NothingYet, IdleThread DEF Turn
  <2> QED
    BY <2>9, CallbackMoves
<1>2. CASE obj[o].handle = NoFd
  <2>1. UNCHANGED <<fds, pc, call, response, cb>> /\ obj' = [obj EXCEPT ![o] = NoObject]
    BY <1>2 DEF close_file, conn_vars, device
  <2>2. /\ pc' = [pc EXCEPT ![t] = "idle"] /\ call' = [call EXCEPT ![t] = NoRequest]
        /\ response' = [response EXCEPT ![t] = response[t]] /\ cb' = [cb EXCEPT ![t] = NoCallback]
        /\ Running(t)'
    BY <1>0, <2>1, StaysIdle
  <2>4. "idle" \in Steps /\ ~Holds(o)
    BY <1>2 DEF Steps, Holds
  <2>5. Turn(t, "idle", NoRequest, response[t], NoCallback, o, NoObject)
    BY Zenon, <1>0, <2>1, <2>2, <2>4, NothingYet, IdleThread DEF Turn
  <2> QED
    BY <2>5, CallbackMoves
<1> QED
  BY <1>1, <1>2

LEMMA CloseReturnsNext ==
  ASSUME FileInv, NEW t \in Threads, close_file_returns(t)
  PROVE  FileInv'
<1>1. pc[t] = "done" /\ cb[t].op = "close_file" /\ End(t) /\ Running(t)
  BY DEF close_file_returns, FileInv
<1>2. PICK o \in Objects : o = cb[t].obj
  BY Zenon, <1>1 DEF Running, Fits
<1>3. obj' = [obj EXCEPT ![o] = NoObject] /\ obj[o].phase = "closing" /\ call[t].type = "CloseHandle"
  <2>1. /\ Fits(cb[t], pc[t], call[t], obj[o])
        /\ obj' = [obj EXCEPT ![o] = NoObject]
    BY Zenon, <1>1, <1>2 DEF close_file_returns, Running
  <2>2. obj[o].phase = "closing" /\ call[t] = With_handle("CloseHandle", obj[o].handle)
    BY Zenon, <1>1, <2>1 DEF Fits
  <2> QED
    BY <2>1, <2>2 DEF With_handle
<1>4. \A u \in Threads \ {t} : cb[u].op # "none" => cb[u].obj # o
  BY <1>1, <1>2 DEF FileInv, Alone
<1>5. ~Holds(o)
  BY <1>1, <1>3, <1>4 DEF Holds, Closing, Live
<1>6. /\ pc' = [pc EXCEPT ![t] = "idle"] /\ call' = [call EXCEPT ![t] = NoRequest]
      /\ response' = [response EXCEPT ![t] = NoResponse] /\ cb' = [cb EXCEPT ![t] = NoCallback]
      /\ UNCHANGED fds /\ Running(t)'
  BY <1>1, EndEffect
<1>7. "idle" \in Steps /\ ~Pending(t)
  BY <1>3, NotPending DEF Steps
<1>8. Turn(t, "idle", NoRequest, NoResponse, NoCallback, o, NoObject)
  BY <1>2, <1>3, <1>4, <1>5, <1>6, <1>7, NothingYet DEF Turn
<1> QED
  BY <1>8, CallbackMoves

-----------------------------------------------------------------------------
(* The theorems.                                                           *)

LEMMA Unmoved ==
  ASSUME FileInv, UNCHANGED <<fds, pc, call, response, obj, cb>>
  PROVE  FileInv'
<1>1. Alone' /\ CreateNewExclusive'
  BY Zenon DEF FileInv, Alone, CreateNewExclusive, Live
<1>2. Owned'
  BY Zenon DEF FileInv, Owned, Holds, Live, Pending, Closing
<1>3. Unshared'
  <2>1. (\A o \in Objects : Holds(o)' <=> Holds(o)) /\ (\A t \in Threads : Pending(t)' <=> Pending(t))
    BY Zenon DEF Holds, Live, Pending, Closing
  <2> QED
    BY Zenon, <2>1 DEF FileInv, Unshared
<1>4. \A t \in Threads : Running(t)' /\ Granted(t)'
  BY Zenon DEF FileInv, Running, Granted, Pending
<1>5. Shapes'
  <2>1. Shapes
    BY Zenon DEF FileInv
  <2> QED
    BY Zenon, <2>1 DEF Shapes
<1> QED
  BY Zenon, <1>1, <1>2, <1>3, <1>4, <1>5 DEF FileInv

LEMMA FileInit == Init => FileInv
<1> SUFFICES ASSUME Init PROVE FileInv
  OBVIOUS
<1>1. /\ pc = [t \in Threads |-> "idle"] /\ call = [t \in Threads |-> NoRequest]
      /\ response = [t \in Threads |-> NoResponse] /\ obj = [o \in Objects |-> NoObject]
      /\ cb = [t \in Threads |-> NoCallback] /\ fds = EmptyMap
  BY DEF Init, ConnInit, DeviceInit
<1>2. Shapes
  BY Zenon, <1>1, NothingYet DEF Shapes
<1>3. \A o \in Objects : obj[o].phase = "free" /\ obj[o].handle = NoFd /\ ~Holds(o) /\ ~Live(o)
  BY <1>1, NothingYet DEF Holds, Live
<1>4. \A t \in Threads : cb[t].op = "none" /\ ~Pending(t)
  BY <1>1, NothingYet DEF Pending
<1>5. DOMAIN fds = {}
  BY <1>1 DEF EmptyMap
<1>6. Alone /\ Unshared /\ CreateNewExclusive
  BY Zenon, <1>3, <1>4 DEF Alone, Unshared, CreateNewExclusive
<1>7. Owned
  BY Zenon, <1>3, <1>4, <1>5 DEF Owned
<1>8. \A t \in Threads : Running(t) /\ Granted(t)
  <2>1. "none" \notin AllUses \cup {"clean_up"}
    BY DEF AllUses
  <2> QED
    BY Zenon, <1>1, <1>4, <2>1, NothingYet DEF Running, Fits, Granted
<1> QED
  BY <1>2, <1>6, <1>7, <1>8 DEF FileInv

LEMMA FileNext == FileInv /\ [Next]_vars => FileInv'
<1> SUFFICES ASSUME FileInv, [Next]_vars PROVE FileInv'
  OBVIOUS
<1>1. ASSUME NEW t \in Threads, Goes_on(t) PROVE FileInv'
  <2>1. CASE Thread(t) /\ UNCHANGED ops
    BY <2>1, MethodNext DEF ops
  <2> QED
    BY <1>1, <2>1, CreateStatNext, CreateMkdirNext, CreateOpenNext, UseReturnsNext, CleanUpReturnsNext,
       CloseReturnsNext DEF Goes_on
<1>2. ASSUME NEW t \in Threads, NEW o \in Objects, NEW how \in Creates, create_file(t, o, how)
      PROVE  FileInv'
  BY <1>2, CreateNext
<1>3. ASSUME NEW t \in Threads, NEW o \in Objects, NEW op \in Uses, Use(t, o, op)
      PROVE  FileInv'
  BY <1>3, UseNext
<1>4. ASSUME NEW t \in Threads, NEW o \in Objects, clean_up(t, o) \/ close_file(t, o)
      PROVE  FileInv'
  BY <1>4, CleanUpNext, CloseNext
<1>5. CASE AppChange /\ UNCHANGED <<caches, request_mutex, pc, call, response, walk, expiries, history, ops>>
  BY <1>5, Unmoved DEF AppChange, ops
<1>6. CASE Expire /\ UNCHANGED ops
  BY <1>6, Unmoved DEF Expire, ops, device
<1>7. CASE UNCHANGED vars
  BY <1>7, Unmoved DEF vars, conn_vars, device
<1> QED
  BY <1>1, <1>2, <1>3, <1>4, <1>5, <1>6, <1>7 DEF Next

\* FileInv holds throughout: every descriptor of the daemon has exactly one
\* owner, a file object, an answer on its way to create_file or a close_file
\* that has not reached the daemon (operations.cpp, handle_open_handle and
\* handle_close_handle), whatever the threads of Dokan do.
THEOREM HandlesOwned == Spec => []FileInv
BY FileInit, FileNext, PTL DEF Spec

\* The handle in a FileContext is open on the device, is no other object's, and
\* leads to the file and the access that create_file asked for, until
\* close_file: for every number of threads, file objects, paths and callbacks.
THEOREM HandlesKeepTheirFile == Spec => []HandleIntegrity
<1>1. FileInv => HandleIntegrity
  BY Zenon DEF FileInv, Owned, Unshared, Holds, HandleIntegrity
<1> QED
  BY <1>1, HandlesOwned, PTL

\* Every descriptor that handle_open_handle opened and handle_close_handle has
\* not closed is in a file object that lives, or in an answer that
\* create_file has yet to take: none is lost on a failed or cancelled create.
THEOREM NoHandleIsLost == Spec => []NoHandleLeak
<1>1. FileInv => NoHandleLeak
  <2> SUFFICES ASSUME FileInv, NEW f \in DOMAIN fds
               PROVE  \/ \E o \in Objects : obj[o].phase # "free" /\ obj[o].handle = f
                      \/ \E t \in Threads : call[t].type = "OpenHandle" /\ response[t].fd = f
    BY DEF NoHandleLeak
  <2>1. CASE \E o \in Objects : Holds(o) /\ obj[o].handle = f
    <3>1. PICK o \in Objects : Holds(o) /\ obj[o].handle = f
      BY <2>1
    <3>2. obj[o].phase # "free"
      BY Zenon, <3>1 DEF FileInv, Owned, Holds
    <3> QED
      BY <3>1, <3>2
  <2>2. CASE \E t \in Threads : Pending(t) /\ response[t].fd = f
    BY Zenon, <2>2 DEF FileInv, Granted
  <2> QED
    BY Zenon, <2>1, <2>2 DEF FileInv, Owned
<1> QED
  BY <1>1, HandlesOwned, PTL

\* An object that create_file opened with CREATE_NEW made its file: open_mode
\* turns CREATE_NEW into an exclusive open, so the stat that came first, however
\* old, cannot give two callers the same file.
THEOREM CreateNewMakesTheFile == Spec => []CreateNewExclusive
<1>1. FileInv => CreateNewExclusive
  BY DEF FileInv
<1> QED
  BY <1>1, HandlesOwned, PTL

-----------------------------------------------------------------------------
(* The types: ConnInv, and an object with the arguments of its create_file.*)

ObjectOK(x) ==
  /\ IsObject(x) /\ x.path \in Paths /\ x.handle \in Nat \cup {NoFd} /\ x.status \in NtStatuses
  /\ x.read \in BOOLEAN /\ x.write \in BOOLEAN
  /\ x.phase # "free" => x.how \in Creates

FileTypes ==
  /\ ConnInv
  /\ \A o \in Objects : ObjectOK(obj[o])
  /\ \A t \in Threads : cb[t].op = "move_file" => call[t].type = "MoveEntry"
  /\ callbacks \in 0..MaxCallbacks

\* Field g of x may become v.
FieldOK(x, g, v) ==
  /\ ObjectOK(x) /\ g \in ObjectFields \ {"how"}
  /\ g = "path" => v \in Paths
  /\ g = "handle" => v \in Nat \cup {NoFd}
  /\ g = "status" => v \in NtStatuses
  /\ g \in {"read", "write"} => v \in BOOLEAN
  /\ g = "phase" => x.phase # "free"

LEMMA FieldSet ==
  ASSUME NEW x, NEW g, NEW v, FieldOK(x, g, v)
  PROVE  /\ ObjectOK([x EXCEPT ![g] = v]) /\ [x EXCEPT ![g] = v][g] = v
         /\ \A f \in ObjectFields \ {g} : [x EXCEPT ![g] = v][f] = x[f]
<1> DEFINE y == [x EXCEPT ![g] = v]
<1>1. IsObject(y) /\ y[g] = v /\ \A f \in ObjectFields \ {g} : y[f] = x[f]
  BY SetField DEF FieldOK, ObjectOK
<1> HIDE DEF y
<1>2. /\ y.path \in Paths /\ y.handle \in Nat \cup {NoFd} /\ y.status \in NtStatuses
      /\ y.read \in BOOLEAN /\ y.write \in BOOLEAN
  BY <1>1 DEF FieldOK, ObjectOK, ObjectFields
<1>3. y.phase # "free" => y.how \in Creates
  BY <1>1 DEF FieldOK, ObjectOK, ObjectFields
<1>4. ObjectOK(y)
  BY <1>1, <1>2, <1>3 DEF ObjectOK
<1> QED
  BY <1>1, <1>4 DEF y

LEMMA NoObjectOK == ObjectOK(NoObject)
<1>1. << >> \in Paths
  BY TreeAssumption DEF IsTree
<1> QED
  BY <1>1, NothingYet DEF ObjectOK, NoObject, NtStatuses

LEMMA ObjectSet ==
  ASSUME FileInv, FileTypes, NEW o \in Objects, NEW x, ObjectOK(x), obj' = [obj EXCEPT ![o] = x]
  PROVE  \A q \in Objects : ObjectOK(obj'[q])
<1>1. obj = [q \in Objects |-> obj[q]] /\ \A q \in Objects : ObjectOK(obj[q])
  BY DEF FileInv, Shapes, FileTypes
<1>2. \A q \in Objects : obj'[q] = IF q = o THEN x ELSE obj[q]
  BY <1>1
<1> QED
  BY <1>1, <1>2

\* A callback ends, begins or goes on, and leaves object o as x.
LEMMA EndTyped ==
  ASSUME FileInv, FileTypes, NEW t \in Threads, NEW o \in Objects, NEW x, ObjectOK(x),
         obj' = [obj EXCEPT ![o] = x], End(t), UNCHANGED callbacks
  PROVE  FileTypes'
<1>1. \A q \in Objects : ObjectOK(obj'[q])
  BY Zenon, ObjectSet
<1>2. ConnInv'
  BY Zenon, NothingTyped, CallTyped DEF End, Goes, conn_rest, FileTypes
<1>3. \A u \in Threads : cb'[u].op = "move_file" => call'[u].type = "MoveEntry"
  <2>1. cb = [u \in Threads |-> cb[u]] /\ call = [u \in Threads |-> call[u]]
    BY DEF FileInv, Shapes
  <2>2. \A u \in Threads : cb'[u] = NoCallback \/ (cb'[u] = cb[u] /\ call'[u] = call[u])
    BY <2>1 DEF End
  <2>3. NoCallback.op # "move_file"
    BY DEF NoCallback
  <2> QED
    BY <2>2, <2>3 DEF FileTypes
<1>4. callbacks' \in 0..MaxCallbacks
  BY DEF FileTypes
<1> QED
  BY <1>1, <1>2, <1>3, <1>4 DEF FileTypes

LEMMA BeginTyped ==
  ASSUME FileInv, FileTypes, NEW t \in Threads, NEW o \in Objects, NEW x, ObjectOK(x),
         obj' = [obj EXCEPT ![o] = x], NEW op, NEW r, IsRequest(r), Begin(t, op, o, r),
         op = "move_file" => r.type = "MoveEntry", callbacks' \in 0..MaxCallbacks
  PROVE  FileTypes'
<1>1. \A q \in Objects : ObjectOK(obj'[q])
  BY Zenon, ObjectSet
<1>2. ConnInv'
  BY AskTyped DEF Begin, conn_rest, FileTypes
<1>3. \A u \in Threads : cb'[u].op = "move_file" => call'[u].type = "MoveEntry"
  <2>1. cb = [u \in Threads |-> cb[u]] /\ call = [u \in Threads |-> call[u]]
    BY DEF FileInv, Shapes
  <2>2. cb'[t].op = op /\ call'[t] = r
    BY <2>1 DEF Begin, Ask
  <2>3. \A u \in Threads \ {t} : cb'[u] = cb[u] /\ call'[u] = call[u]
    BY <2>1 DEF Begin, Ask
  <2> QED
    BY Zenon, <2>2, <2>3 DEF FileTypes
<1> QED
  BY <1>1, <1>2, <1>3 DEF FileTypes

LEMMA ContinueTyped ==
  ASSUME FileInv, FileTypes, NEW t \in Threads, NEW o \in Objects, NEW x, ObjectOK(x),
         obj' = [obj EXCEPT ![o] = x], NEW r, IsRequest(r), Continue(t, r), cb[t].op # "move_file",
         UNCHANGED callbacks
  PROVE  FileTypes'
<1>1. \A q \in Objects : ObjectOK(obj'[q])
  BY Zenon, ObjectSet
<1>2. ConnInv'
  BY AskTyped DEF Continue, conn_rest, FileTypes
<1>3. \A u \in Threads : cb'[u].op = "move_file" => call'[u].type = "MoveEntry"
  <2>1. call = [u \in Threads |-> call[u]] /\ cb' = cb
    BY DEF FileInv, Shapes, Continue
  <2>2. \A u \in Threads \ {t} : call'[u] = call[u]
    BY <2>1 DEF Continue, Ask
  <2> QED
    BY <2>1, <2>2 DEF FileTypes
<1>4. callbacks' \in 0..MaxCallbacks
  BY DEF FileTypes
<1> QED
  BY Zenon, <1>1, <1>2, <1>3, <1>4 DEF FileTypes

\* A request on a path of the device.
LEMMA OnRequest ==
  ASSUME NEW p \in Paths, NEW type \in PathRequests \ {"MoveEntry", "OpenHandle"}
  PROVE  IsRequest(On(type, p))
BY DEF IsRequest, On, PathRequests

LEMMA HandleRequest ==
  ASSUME NEW f, NEW type \in HandleRequests
  PROVE  IsRequest(With_handle(type, f))
BY DEF IsRequest, With_handle, HandleRequests, PathRequests

LEMMA CreateTyped ==
  ASSUME FileInv, FileTypes, NEW t \in Threads, NEW o \in Objects, NEW how \in Creates,
         create_file(t, o, how)
  PROVE  FileTypes'
<1> DEFINE x == [NoObject EXCEPT !.phase = "creating", !.path = how.path, !.how = how, !.dir = how.directory,
                                 !.read = how.read, !.write = how.write, !.delete = how.delete]
<1>1. how \in CreateArgs
  BY CreatesAssumption
<1>2. how.path \in Paths /\ how.read \in BOOLEAN /\ how.write \in BOOLEAN
  BY <1>1 DEF CreateArgs
<1>3. IsObject(x)
  BY Zenon DEF NoObject, IsObject, ObjectFields
<1>4. /\ x.path = how.path /\ x.handle = NoFd /\ x.status = "none" /\ x.read = how.read
      /\ x.write = how.write /\ x.how = how
  BY DEF NoObject
<1>5. obj' = [obj EXCEPT ![o] = x]
  BY DEF create_file
<1> HIDE DEF x
<1>6. ObjectOK(x)
  BY <1>2, <1>3, <1>4 DEF ObjectOK, NtStatuses
<1>7. IsRequest(On("StatFile", how.path)) /\ "create_file" # "move_file"
  BY <1>2, OnRequest DEF PathRequests
<1>8. Begin(t, "create_file", o, On("StatFile", how.path)) /\ callbacks' \in 0..MaxCallbacks
  BY CallbacksAssumption DEF create_file, FileTypes
<1> QED
  BY Zenon, <1>5, <1>6, <1>7, <1>8, BeginTyped

LEMMA CreatedTyped ==
  ASSUME FileInv, FileTypes, NEW t \in Threads, cb[t].obj \in Objects, NEW x, ObjectOK(x),
         x.phase # "free", NEW status \in NtStatuses, Created(t, x, status), UNCHANGED callbacks
  PROVE  FileTypes'
<1> DEFINE y == IF Kept(x.how, status) THEN [x EXCEPT !.phase = "open", !.status = status] ELSE NoObject
<1>1. obj' = [obj EXCEPT ![cb[t].obj] = y] /\ End(t)
  BY DEF Created
<1>2. ObjectOK(y)
  <2> DEFINE z == [x EXCEPT !.phase = "open"]
  <2>1. FieldOK(x, "phase", "open")
    BY DEF FieldOK, ObjectFields
  <2>2. ObjectOK(z)
    BY <2>1, FieldSet
  <2>3. FieldOK(z, "status", status)
    BY <2>2 DEF FieldOK, ObjectFields
  <2>4. [z EXCEPT !.status = status] = [x EXCEPT !.phase = "open", !.status = status]
    OBVIOUS
  <2>5. ObjectOK([z EXCEPT !.status = status])
    BY Zenon, <2>3, FieldSet
  <2> HIDE DEF z
  <2> QED
    BY <2>4, <2>5, NoObjectOK
<1> HIDE DEF y
<1> QED
  BY Zenon, <1>1, <1>2, EndTyped

\* create_file, once its stat has come back: the object that goes on.
StatObject(x, e, d) == [x EXCEPT !.existed = e, !.dir = d]

LEMMA StatObjectOK ==
  ASSUME NEW old, ObjectOK(old), old.phase = "creating", NEW e, NEW d
  PROVE  ObjectOK(StatObject(old, e, d)) /\ StatObject(old, e, d).phase = "creating"
<1> DEFINE z == [old EXCEPT !.existed = e]
           x == [z EXCEPT !.dir = d]
<1>1. FieldOK(old, "existed", e)
  BY DEF FieldOK, ObjectFields
<1>2. ObjectOK(z) /\ z.phase = "creating"
  BY <1>1, FieldSet DEF ObjectFields
<1>3. FieldOK(z, "dir", d)
  BY <1>2 DEF FieldOK, ObjectFields
<1>4. x = StatObject(old, e, d)
  BY DEF StatObject
<1> HIDE DEF z
<1>5. ObjectOK(x) /\ x.phase = "creating"
  BY <1>2, <1>3, FieldSet DEF ObjectFields
<1> HIDE DEF x
<1> QED
  BY <1>4, <1>5

LEMMA CreateDirectoryTyped ==
  ASSUME FileInv, FileTypes, NEW t \in Threads, cb[t].op = "create_file", cb[t].obj \in Objects,
         NEW x, ObjectOK(x), x.phase = "creating", NEW is_dir, handle_create_directory(t, x, is_dir),
         UNCHANGED callbacks
  PROVE  FileTypes'
<1>1. CASE x.how.disposition \in {"OPEN_ALWAYS", "CREATE_NEW", "CREATE_ALWAYS"}
  <2>1. obj' = [obj EXCEPT ![cb[t].obj] = x] /\ Continue(t, On("CreateDirectory", x.path))
    BY Zenon, <1>1 DEF handle_create_directory
  <2>2. IsRequest(On("CreateDirectory", x.path))
    BY Zenon, OnRequest DEF PathRequests, ObjectOK
  <2> QED
    BY Zenon, <2>1, <2>2, ContinueTyped
<1>2. CASE x.how.disposition \notin {"OPEN_ALWAYS", "CREATE_NEW", "CREATE_ALWAYS"}
  <2>1. PICK s \in {"SUCCESS", "FAILED"} : Created(t, x, s)
    BY <1>2 DEF handle_create_directory
  <2>2. s \in NtStatuses
    BY DEF NtStatuses
  <2> QED
    BY Zenon, <2>1, <2>2, CreatedTyped
<1> QED
  BY <1>1, <1>2

LEMMA CreateFileTyped ==
  ASSUME FileInv, FileTypes, NEW t \in Threads, cb[t].op = "create_file", cb[t].obj \in Objects,
         NEW x, ObjectOK(x), x.phase = "creating", handle_create_file(t, x), UNCHANGED callbacks
  PROVE  FileTypes'
<1> DEFINE v == x.read \/ (~x.read /\ ~x.write)
           y == [x EXCEPT !.read = v]
           r == [type |-> "OpenHandle", path |-> x.path, mode |-> open_mode(x.how.disposition),
                 read |-> y.read, write |-> y.write]
<1>1. FieldOK(x, "read", v)
  BY DEF FieldOK, ObjectFields, ObjectOK
<1>2. ObjectOK(y)
  BY <1>1, FieldSet
<1>3. y = [x EXCEPT !.read = @ \/ (~x.read /\ ~x.write)]
  OBVIOUS
<1>4. (\E s \in {"SUCCESS", "FAILED"} : Created(t, x, s))
      \/ (obj' = [obj EXCEPT ![cb[t].obj] = y] /\ Continue(t, r))
  BY <1>3 DEF handle_create_file
<1> HIDE DEF y
<1>5. IsRequest(r)
  BY Zenon, <1>2 DEF IsRequest, PathRequests, ObjectOK
<1> HIDE DEF r
<1>6. CASE obj' = [obj EXCEPT ![cb[t].obj] = y] /\ Continue(t, r)
  BY Zenon, <1>2, <1>5, <1>6, ContinueTyped
<1>7. ASSUME NEW s \in {"SUCCESS", "FAILED"}, Created(t, x, s) PROVE FileTypes'
  <2>1. s \in NtStatuses
    BY DEF NtStatuses
  <2> QED
    BY <1>7, <2>1, CreatedTyped
<1> QED
  BY Zenon, <1>4, <1>6, <1>7

LEMMA CreateStatTyped ==
  ASSUME FileInv, FileTypes, NEW t \in Threads, create_file_stat(t)
  PROVE  FileTypes'
<1>1. cb[t].op = "create_file" /\ UNCHANGED callbacks
  BY Zenon DEF create_file_stat, Returned
<1>2. cb[t].obj \in Objects /\ obj[cb[t].obj].phase = "creating"
  BY Zenon, <1>1, InCreate
<1>3. PICK old \in {obj[cb[t].obj]} : ObjectOK(old) /\ old.phase = "creating" /\ old = obj[cb[t].obj]
  BY <1>2 DEF FileTypes
<1> DEFINE e == response[t].status = "Success"
           d == e /\ response[t].stats[call[t].path].stat.dir
           x == [old EXCEPT !.existed = e, !.dir = @ \/ d]
<1>4. x = [old EXCEPT !.existed = e, !.dir = old.dir \/ d]
  BY <1>3 DEF ObjectOK, IsObject, ObjectFields
<1>5. ObjectOK(x) /\ x.phase = "creating"
  <2>1. x = StatObject(old, e, old.dir \/ d)
    BY <1>4 DEF StatObject
  <2> HIDE DEF x, e, d
  <2> QED
    BY Zenon, <1>3, <2>1, StatObjectOK
<1>6. \/ Created(t, x, "FAILED") \/ handle_create_directory(t, x, d) \/ handle_create_file(t, x)
  BY Zenon, <1>3 DEF create_file_stat
<1> HIDE DEF x
<1>7. "FAILED" \in NtStatuses
  BY DEF NtStatuses
<1> QED
  BY Zenon, <1>1, <1>2, <1>5, <1>6, <1>7, CreatedTyped, CreateDirectoryTyped, CreateFileTyped

LEMMA StatusTyped ==
  ASSUME NEW s
  PROVE  ntstatus_from_respstatus(s) \in NtStatuses
BY DEF ntstatus_from_respstatus, NtStatuses

LEMMA CreateMkdirTyped ==
  ASSUME FileInv, FileTypes, NEW t \in Threads, create_file_mkdir(t)
  PROVE  FileTypes'
<1>1. cb[t].op = "create_file" /\ UNCHANGED callbacks
  BY DEF create_file_mkdir, Returned
<1>2. cb[t].obj \in Objects /\ obj[cb[t].obj].phase = "creating"
  BY <1>1, InCreate
<1>3. ObjectOK(obj[cb[t].obj])
  BY <1>2 DEF FileTypes
<1> QED
  BY Zenon, <1>1, <1>2, <1>3, StatusTyped, CreatedTyped DEF create_file_mkdir

\* create_file, with a descriptor.
OpenedObject(x, f, i, m) == [x EXCEPT !.handle = f, !.ino = i, !.made = m]

LEMMA OpenedObjectOK ==
  ASSUME NEW x, ObjectOK(x), x.phase = "creating", NEW f \in Nat \cup {NoFd}, NEW i, NEW m
  PROVE  ObjectOK(OpenedObject(x, f, i, m)) /\ OpenedObject(x, f, i, m).phase = "creating"
<1> DEFINE z == [x EXCEPT !.handle = f]
           w == [z EXCEPT !.ino = i]
           y == [w EXCEPT !.made = m]
<1>1. FieldOK(x, "handle", f)
  BY DEF FieldOK, ObjectFields
<1>2. ObjectOK(z) /\ z.phase = "creating"
  BY <1>1, FieldSet DEF ObjectFields
<1>3. y = OpenedObject(x, f, i, m)
  BY DEF OpenedObject
<1> HIDE DEF z
<1>4. FieldOK(z, "ino", i)
  BY <1>2 DEF FieldOK, ObjectFields
<1>5. ObjectOK(w) /\ w.phase = "creating"
  BY <1>2, <1>4, FieldSet DEF ObjectFields
<1> HIDE DEF w
<1>6. FieldOK(w, "made", m)
  BY <1>5 DEF FieldOK, ObjectFields
<1>7. ObjectOK(y) /\ y.phase = "creating"
  BY <1>5, <1>6, FieldSet DEF ObjectFields
<1> HIDE DEF y
<1> QED
  BY <1>3, <1>7

LEMMA CreateOpenTyped ==
  ASSUME FileInv, FileTypes, NEW t \in Threads, create_file_open(t)
  PROVE  FileTypes'
<1>1. cb[t].op = "create_file" /\ UNCHANGED callbacks
  BY DEF create_file_open, Returned
<1>2. cb[t].obj \in Objects /\ obj[cb[t].obj].phase = "creating"
  BY <1>1, InCreate
<1>3. PICK x \in {obj[cb[t].obj]} : ObjectOK(x) /\ x.phase = "creating" /\ x = obj[cb[t].obj]
  BY <1>2 DEF FileTypes
<1> DEFINE y == [x EXCEPT !.handle = response[t].fd, !.ino = response[t].ino, !.made = response[t].made]
<1>4. response[t].fd \in Nat \cup {NoFd}
  BY DEF FileTypes, ConnInv, CallOK, TypedResponse
<1>5. ObjectOK(y) /\ y.phase = "creating"
  <2>1. y = OpenedObject(x, response[t].fd, response[t].ino, response[t].made)
    BY DEF OpenedObject
  <2> HIDE DEF y
  <2>2. PICK f \in Nat \cup {NoFd} : f = response[t].fd
    BY <1>4
  <2>3. y = OpenedObject(x, f, response[t].ino, response[t].made)
    BY <2>1, <2>2
  <2> QED
    BY <1>3, <2>3, OpenedObjectOK
<1>6. \/ \E s \in {"COLLISION", "SUCCESS"} : Created(t, y, s)
      \/ Created(t, x, ntstatus_from_respstatus(response[t].status))
  BY <1>3 DEF create_file_open
<1> HIDE DEF y
<1>7. ASSUME NEW s \in {"COLLISION", "SUCCESS"}, Created(t, y, s) PROVE FileTypes'
  <2>1. s \in NtStatuses
    BY DEF NtStatuses
  <2> QED
    BY <1>1, <1>2, <1>5, <1>7, <2>1, CreatedTyped
<1>8. CASE Created(t, x, ntstatus_from_respstatus(response[t].status))
  BY Zenon, <1>1, <1>2, <1>3, <1>8, StatusTyped, CreatedTyped
<1> QED
  BY <1>6, <1>7, <1>8

LEMMA RequestTyped ==
  ASSUME NEW x, ObjectOK(x), NEW op \in AllUses, NEW r \in Request(op, x)
  PROVE  IsRequest(r) /\ (op = "move_file" => r.type = "MoveEntry")
<1>0. x.path \in Paths
  BY DEF ObjectOK
<1>1. CASE op = "move_file"
  <2>1. PICK p \in Targets, b \in BOOLEAN :
          r = [type |-> "MoveEntry", path |-> x.path, to |-> p, overwrite |-> b]
    BY <1>1 DEF Request
  <2>2. p \in Paths
    BY UsesAssumption
  <2> QED
    BY <1>0, <2>1, <2>2 DEF IsRequest, PathRequests
<1>2. CASE op \in {"read_file", "write_file", "set_end_of_file"}
  <2>1. PICK type \in HandleRequests : r = With_handle(type, x.handle)
    BY <1>2 DEF Request, HandleRequests
  <2> QED
    BY <1>2, <2>1, HandleRequest
<1>3. CASE op = "get_disk_free_space"
  <2>1. r = NoRequest
    BY <1>3 DEF Request, NoRequest
  <2> QED
    BY <1>3, <2>1, NothingTyped
<1>4. CASE op \in {"get_file_information", "find_files", "set_file_time", "delete_file"}
  <2>1. PICK type \in {"StatFile", "ListDirectory", "SetFileTime", "CheckRemoveFile", "CheckRemoveDirectory"} :
          r = On(type, x.path)
    BY <1>4 DEF Request
  <2>2. type \in PathRequests \ {"MoveEntry", "OpenHandle"}
    BY DEF PathRequests
  <2>3. IsRequest(On(type, x.path))
    BY <1>0, <2>2, OnRequest
  <2> QED
    BY <1>4, <2>1, <2>3
<1> QED
  BY <1>1, <1>2, <1>3, <1>4 DEF AllUses

LEMMA UseTyped ==
  ASSUME FileInv, FileTypes, NEW t \in Threads, NEW o \in Objects, NEW op \in Uses, Use(t, o, op)
  PROVE  FileTypes'
<1>1. PICK r \in Request(op, obj[o]) : Begin(t, op, o, r)
  BY DEF Use
<1>2. op \in AllUses /\ ObjectOK(obj[o]) /\ obj = [q \in Objects |-> obj[q]]
  BY UsesAssumption DEF FileTypes, FileInv, Shapes
<1>3. IsRequest(r) /\ (op = "move_file" => r.type = "MoveEntry")
  BY <1>2, RequestTyped
<1>4. obj' = [obj EXCEPT ![o] = obj[o]]
  BY <1>2 DEF Use
<1>5. callbacks' \in 0..MaxCallbacks
  BY CallbacksAssumption DEF Use, FileTypes
<1> QED
  BY <1>1, <1>2, <1>3, <1>4, <1>5, BeginTyped

LEMMA UseReturnsTyped ==
  ASSUME FileInv, FileTypes, NEW t \in Threads, Use_returns(t)
  PROVE  FileTypes'
<1>1. cb[t].op \in AllUses /\ End(t) /\ UNCHANGED callbacks
  BY UsesAssumption DEF Use_returns
<1>2. PICK o \in Objects, x \in {obj[cb[t].obj]} : o = cb[t].obj /\ x = obj[o] /\ StillLive(o, x)
  BY <1>1, UserOnLive
<1>3. obj = [q \in Objects |-> obj[q]] /\ ObjectOK(x)
  BY <1>2 DEF FileInv, Shapes, FileTypes
<1>4. CASE response[t].status # "Success"
  <2>1. obj' = [obj EXCEPT ![o] = x]
    BY <1>2, <1>3, <1>4 DEF Use_returns
  <2> QED
    BY <1>1, <1>3, <2>1, EndTyped
<1>5. CASE response[t].status = "Success"
  <2>1. obj' = [obj EXCEPT ![o] = Updated(t, x)]
    BY <1>2, <1>5 DEF Use_returns
  <2>2. ObjectOK(Updated(t, x))
    <3>1. CASE cb[t].op = "get_file_information"
      <4>1. PICK v : Updated(t, x) = [x EXCEPT !.dir = v]
        BY Zenon, <3>1 DEF Updated
      <4>2. FieldOK(x, "dir", v)
        BY <1>3 DEF FieldOK, ObjectFields
      <4> QED
        BY <4>1, <4>2, FieldSet
    <3>2. CASE cb[t].op = "delete_file"
      <4>1. PICK v : Updated(t, x) = [x EXCEPT !.delete = v]
        BY Zenon, <3>2 DEF Updated
      <4>2. FieldOK(x, "delete", v)
        BY <1>3 DEF FieldOK, ObjectFields
      <4> QED
        BY <4>1, <4>2, FieldSet
    <3>3. CASE cb[t].op = "move_file"
      <4>1. call[t].type = "MoveEntry" /\ IsRequest(call[t])
        BY <3>3 DEF FileTypes, ConnInv, CallOK
      <4>2. PICK v \in Paths : Updated(t, x) = [x EXCEPT !.path = v]
        BY <3>3, <4>1 DEF Updated, IsRequest
      <4>3. FieldOK(x, "path", v)
        BY <1>3 DEF FieldOK, ObjectFields
      <4> QED
        BY <4>2, <4>3, FieldSet
    <3>4. CASE cb[t].op \notin {"get_file_information", "delete_file", "move_file"}
      BY <1>3, <3>4 DEF Updated
    <3> QED
      BY <3>1, <3>2, <3>3, <3>4
  <2> QED
    BY Zenon, <1>1, <2>1, <2>2, EndTyped
<1> QED
  BY <1>4, <1>5

\* A callback that makes no call.
LEMMA NoCallTyped ==
  ASSUME FileInv, FileTypes, NEW o \in Objects, NEW x, ObjectOK(x), obj' = [obj EXCEPT ![o] = x],
         UNCHANGED <<conn_vars, cb, callbacks>>
  PROVE  FileTypes'
<1>1. \A q \in Objects : ObjectOK(obj'[q])
  BY Zenon, ObjectSet
<1>2. ConnInv'
  BY ConnIdle DEF FileTypes
<1>3. UNCHANGED <<call, cb, callbacks>>
  BY DEF conn_vars
<1> QED
  BY <1>1, <1>2, <1>3 DEF FileTypes

LEMMA PhaseTyped ==
  ASSUME FileInv, FileTypes, NEW o \in Objects, obj[o].phase # "free", NEW p,
         obj' = [obj EXCEPT ![o].phase = p]
  PROVE  \E x : ObjectOK(x) /\ obj' = [obj EXCEPT ![o] = x]
<1>1. ObjectOK(obj[o])
  BY DEF FileTypes
<1>2. FieldOK(obj[o], "phase", p)
  BY <1>1 DEF FieldOK, ObjectFields
<1>3. ObjectOK([obj[o] EXCEPT !.phase = p])
  BY <1>2, FieldSet
<1> QED
  BY Zenon, <1>3

LEMMA CleanUpTyped ==
  ASSUME FileInv, FileTypes, NEW t \in Threads, NEW o \in Objects, clean_up(t, o)
  PROVE  FileTypes'
<1>1. obj[o].phase = "open" /\ obj' = [obj EXCEPT ![o].phase = "cleaned"] /\ UNCHANGED callbacks
  BY DEF clean_up
<1>2. PICK x : ObjectOK(x) /\ obj' = [obj EXCEPT ![o] = x]
  BY Zenon, <1>1, PhaseTyped
<1>3. CASE UNCHANGED <<conn_vars, cb>>
  BY Zenon, <1>1, <1>2, <1>3, NoCallTyped
<1>4. CASE \E type \in {"RemoveDirectory", "RemoveFile"} : Begin(t, "clean_up", o, On(type, obj[o].path))
  <2>1. PICK type \in {"RemoveDirectory", "RemoveFile"} : Begin(t, "clean_up", o, On(type, obj[o].path))
    BY <1>4
  <2>2. obj[o].path \in Paths /\ callbacks' \in 0..MaxCallbacks
    BY <1>1 DEF FileTypes, ObjectOK
  <2>3. IsRequest(On(type, obj[o].path))
    BY <2>2, OnRequest DEF PathRequests
  <2> QED
    BY Zenon, <1>2, <2>1, <2>2, <2>3, BeginTyped
<1> QED
  BY <1>3, <1>4 DEF clean_up

LEMMA CloseTyped ==
  ASSUME FileInv, FileTypes, NEW t \in Threads, NEW o \in Objects, close_file(t, o)
  PROVE  FileTypes'
<1>1. CASE obj' = [obj EXCEPT ![o].phase = "closing"]
           /\ Begin(t, "close_file", o, With_handle("CloseHandle", obj[o].handle))
  <2>1. obj[o].phase = "cleaned" /\ callbacks' \in 0..MaxCallbacks
    BY DEF close_file, FileTypes
  <2>2. PICK x : ObjectOK(x) /\ obj' = [obj EXCEPT ![o] = x]
    BY Zenon, <1>1, <2>1, PhaseTyped
  <2>3. IsRequest(With_handle("CloseHandle", obj[o].handle))
    BY HandleRequest DEF HandleRequests
  <2> QED
    BY Zenon, <1>1, <2>1, <2>2, <2>3, BeginTyped
<1>2. CASE obj' = [obj EXCEPT ![o] = NoObject] /\ UNCHANGED <<conn_vars, cb>>
  <2>1. UNCHANGED callbacks
    BY DEF close_file
  <2> QED
    BY Zenon, <1>2, <2>1, NoObjectOK, NoCallTyped
<1> QED
  BY <1>1, <1>2 DEF close_file

\* The callbacks that end: the object is known by the callback.
LEMMA ReturnsTyped ==
  ASSUME FileInv, FileTypes, NEW t \in Threads, clean_up_returns(t) \/ close_file_returns(t)
  PROVE  FileTypes'
<1>1. cb[t].op # "none" /\ End(t) /\ UNCHANGED callbacks
  BY DEF clean_up_returns, close_file_returns
<1>2. Running(t) /\ obj = [q \in Objects |-> obj[q]]
  BY DEF FileInv, Shapes
<1>3. PICK o \in Objects : o = cb[t].obj
  BY Zenon, <1>1, <1>2 DEF Running, Fits
<1>4. PICK x \in {obj[o], NoObject} : obj' = [obj EXCEPT ![o] = x]
  BY <1>2, <1>3 DEF clean_up_returns, close_file_returns
<1>5. ObjectOK(x)
  BY NoObjectOK DEF FileTypes
<1> QED
  BY Zenon, <1>1, <1>4, <1>5, EndTyped

LEMMA FileTypesInit == Init => FileTypes
<1> SUFFICES ASSUME Init PROVE FileTypes
  OBVIOUS
<1>1. ConnInv
  BY ConnInitial DEF Init
<1>2. \A o \in Objects : ObjectOK(obj[o])
  BY NoObjectOK DEF Init
<1>3. \A t \in Threads : cb[t].op = "none"
  BY DEF Init, NoCallback
<1>4. callbacks \in 0..MaxCallbacks
  BY CallbacksAssumption DEF Init
<1> QED
  BY <1>1, <1>2, <1>3, <1>4 DEF FileTypes

LEMMA FileTypesNext == FileInv /\ FileTypes /\ [Next]_vars => FileTypes'
<1> SUFFICES ASSUME FileInv, FileTypes, [Next]_vars PROVE FileTypes'
  OBVIOUS
<1>0. ConnInv
  BY DEF FileTypes
<1>1. ASSUME ConnInv', UNCHANGED <<call, ops>> PROVE FileTypes'
  BY <1>1 DEF FileTypes, ops
<1>2. ASSUME NEW t \in Threads, Goes_on(t) PROVE FileTypes'
  <2>1. CASE Thread(t) /\ UNCHANGED ops
    <3>1. call' = call
      BY Zenon, <2>1 DEF Thread, check_stat, check_listing, walk_listing, req_stat_file, req_list_file_stats,
        req_open_file, req_move_entry, req_change_entry, req_set_file_time, req_plain, Send, ReturnEarly,
        Serve, ServeFails, Finish
    <3>2. ConnInv'
      BY <1>0, <2>1, ThreadTyped
    <3> QED
      BY <1>1, <2>1, <3>1, <3>2
  <2>2. CASE create_file_stat(t) \/ create_file_mkdir(t) \/ create_file_open(t)
    BY <2>2, CreateStatTyped, CreateMkdirTyped, CreateOpenTyped
  <2>3. CASE Use_returns(t) \/ clean_up_returns(t) \/ close_file_returns(t)
    BY <2>3, UseReturnsTyped, ReturnsTyped
  <2> QED
    BY <1>2, <2>1, <2>2, <2>3 DEF Goes_on
<1>3. ASSUME NEW t \in Threads, NEW o \in Objects,
             \/ \E how \in Creates : create_file(t, o, how)
             \/ \E op \in Uses : Use(t, o, op)
             \/ clean_up(t, o) \/ close_file(t, o)
      PROVE  FileTypes'
  BY <1>3, CreateTyped, UseTyped, CleanUpTyped, CloseTyped
<1>4. CASE AppChange /\ UNCHANGED <<caches, request_mutex, pc, call, response, walk, expiries, history, ops>>
  <2>1. ConnInv'
    BY <1>0, <1>4, AppTyped
  <2> QED
    BY <1>1, <1>4, <2>1
<1>5. CASE Expire /\ UNCHANGED ops
  <2>1. ConnInv' /\ UNCHANGED call
    BY Zenon, <1>0, <1>5, ExpireTyped DEF Expire
  <2> QED
    BY <1>1, <1>5, <2>1
<1>6. CASE UNCHANGED vars
  <2>1. ConnInv'
    BY <1>0, <1>6, ConnIdle DEF vars
  <2> QED
    BY <1>1, <1>6, <2>1 DEF vars, conn_vars, ops
<1> QED
  BY <1>2, <1>3, <1>4, <1>5, <1>6 DEF Next

\* TypeOK: the object of every callback keeps a path of the device and the arguments
\* of its create_file until it is closed, whatever move_file made of its path, and
\* a thread is idle exactly when it runs no callback.
THEOREM TypeCorrect == Spec => []TypeOK
<1>1. Init => FileInv /\ FileTypes
  BY FileInit, FileTypesInit
<1>2. FileInv /\ FileTypes /\ [Next]_vars => FileInv' /\ FileTypes'
  BY FileNext, FileTypesNext
<1>3. FileInv /\ FileTypes => TypeOK
  <2> SUFFICES ASSUME FileInv, FileTypes PROVE TypeOK
    OBVIOUS
  <2>1. ConnTypeOK
    BY ConnTypes DEF FileTypes
  <2>2. \A o \in Objects :
          /\ obj[o].phase \in Phases /\ obj[o].path \in Paths /\ obj[o].handle \in Nat \cup {NoFd}
          /\ obj[o].status \in NtStatuses /\ (obj[o].phase # "free" => obj[o].how \in Creates)
    BY DEF FileInv, Shapes, FileTypes, ObjectOK
  <2>3. ASSUME NEW t \in Threads PROVE (pc[t] = "idle") <=> (cb[t] = NoCallback)
    <3>1. Fits(cb[t], pc[t], call[t], obj[cb[t].obj])
      BY Zenon DEF FileInv, Running
    <3>2. NoCallback.op = "none"
      BY DEF NoCallback
    <3> QED
      BY Zenon, <3>1, <3>2 DEF Fits
  <2> QED
    BY <2>1, <2>2, <2>3 DEF TypeOK, FileTypes
<1> QED
  BY <1>1, <1>2, <1>3, PTL DEF Spec
=============================================================================
