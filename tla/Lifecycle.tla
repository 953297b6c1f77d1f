------------------------------- MODULE Lifecycle -------------------------------
(***************************************************************************)
(* How drives come and go: DeviceTracker (the scan of the main thread and  *)
(* unmount_device from Dokan callbacks, under device_man_mtx), Nandroid    *)
(* (begin, the thread that runs the agent through adb, the destructor),    *)
(* the pipes of Adb, and the main function of the daemon.  Devices are     *)
(* plugged in and out at any time, and every call to adb, to the           *)
(* connection and to Dokan may fail.                                       *)
(***************************************************************************)
EXTENDS Integers, Sequences, FiniteSets

CONSTANTS
  Devices,    \* serial numbers
  Ids,        \* Nandroid objects
  Callbacks,  \* Dokan's threads
  Stale,      \* devices with a daemon of an earlier run
  Letters,    \* how many drive letters there are from D to Z
  Main, None

ASSUME StaleAssumption == Stale \subseteq Devices
ASSUME LettersAssumption == Letters \in Nat \ {0}

VARIABLES
  plugged,    \* authorized devices adb lists
  stale,      \* devices with a daemon of an earlier run still in accept
  alive,      \* FALSE after std::terminate
  mtx,        \* owner of device_man_mtx: Main, a callback or None
  main,       \* the main thread: [pc, obj, letter]
  listed, todo, \* locals of update_connected_devices: devices, and those to go
  instances, failed_to_connect,
  adb,        \* the owner's invoke_process_capture_output: "none", or its pipe is "open"
  dtor,       \* ~Nandroid, run by mtx's owner: [pc, obj], pc "none" outside it
  nan,        \* the Nandroid objects, None where there is none
  agent,      \* agent_invoke_thread and the process it runs: [pc, daemon, pipe, buffer]
  cb          \* the callbacks: [pc, obj]

tracker == <<mtx, main, listed, todo, instances, failed_to_connect>>
vars == <<plugged, stale, alive, tracker, adb, dtor, nan, agent, cb>>

\* Output of an agent: the two halves of its ready message, and any line else,
\* of which only the end matters.
Token == {"rea", "dy", "nl"}
Banner == <<"nl">>
AGENT_READY_MSG == <<"rea", "dy">>

Object ==
  [device : Devices, connection : {"none", "own", "stale", "broken"},
   instance : {"none", "mounted", "closing"}, agent_ready : BOOLEAN,
   agent_ready_notified : BOOLEAN, agent_dead_notified : BOOLEAN]
AgentState ==
  [pc : {"none", "start", "open", "reading", "notify", "done"},
   daemon : {"none", "starting", "listening", "deaf", "serving", "exited"},
   pipe : Seq(Token), buffer : Seq(Token)]

ASSUME NoneAssumption == Main # None /\ {Main, None} \cap (Callbacks \cup Ids \cup Object) = {}

Nandroid(d) ==
  [device |-> d, connection |-> "none", instance |-> "none",
   agent_ready |-> FALSE, agent_ready_notified |-> FALSE, agent_dead_notified |-> FALSE]
NoAgent == [pc |-> "none", daemon |-> "none", pipe |-> << >>, buffer |-> << >>]
NoDtor == [pc |-> "none", obj |-> None]
NoCall == [pc |-> "idle", obj |-> None]

TypeOK ==
  /\ plugged \subseteq Devices /\ stale \subseteq Devices /\ alive \in BOOLEAN
  /\ mtx \in Callbacks \cup {Main, None}
  /\ main \in [pc : {"idle", "list", "loop", "push", "chmod", "forward", "wait", "connect", "mount",
                     "throw", "remove", "exit", "tracker", "exited"},
               obj : Ids \cup {None}, letter : 1..Letters]
  /\ listed \subseteq Devices /\ todo \subseteq Devices
  /\ instances \in [Devices -> Ids \cup {None}] /\ failed_to_connect \subseteq Devices
  /\ adb \in {"none", "open"}
  /\ dtor \in [pc : {"none", "close", "closing", "conn", "wait", "pkill", "join"},
               obj : Ids \cup {None}]
  /\ nan \in [Ids -> {None} \cup Object] /\ agent \in [Ids -> AgentState]
  /\ cb \in [Callbacks -> [pc : {"idle", "inside", "unmount"}, obj : Ids \cup {None}]]

Init ==
  /\ plugged \in SUBSET Devices /\ stale = Stale /\ alive = TRUE
  /\ mtx = None /\ main = [pc |-> "idle", obj |-> None, letter |-> 1]
  /\ listed = {} /\ todo = {}
  /\ instances = [d \in Devices |-> None] /\ failed_to_connect = {}
  /\ adb = "none" /\ dtor = NoDtor
  /\ nan = [i \in Ids |-> None] /\ agent = [i \in Ids |-> NoAgent]
  /\ cb = [k \in Callbacks |-> NoCall]

\* Whoever is in begin past its wait, or in the destructor's pkill, holds
\* mtx_agent_ready of the object.
mtx_agent_ready_held(i) ==
  \/ main.obj = i /\ main.pc \in {"connect", "mount"}
  \/ dtor.obj = i /\ dtor.pc = "pkill"

-----------------------------------------------------------------------------
(* DeviceTracker on the main thread.                                       *)

Goto(pc) == main' = [main EXCEPT !.pc = pc]
Delete(i) == dtor' = [pc |-> "close", obj |-> i]

\* Unlike the adb of an agent, those of the owner of device_man_mtx run one
\* after the other.
create_stdouterr_pipes ==
  /\ alive /\ adb = "none"
  /\ main.pc \in {"list", "push", "chmod", "forward"} \/ dtor.pc = "pkill"
  /\ adb' = "open"
  /\ UNCHANGED <<plugged, stale, alive, tracker, dtor, nan, agent, cb>>

update_connected_devices ==
  /\ alive /\ main.pc = "idle" /\ mtx = None
  /\ mtx' = Main /\ Goto("list")
  /\ UNCHANGED <<plugged, stale, alive, listed, todo, instances, failed_to_connect, adb, dtor,
                 nan, agent, cb>>

\* adb devices; when it fails the exception leaves the scan and the program ends.
list_authorized_adb_devices ==
  /\ alive /\ main.pc = "list" /\ adb = "open"
  /\ adb' = "none"
  /\ \/ /\ listed' = plugged /\ todo' = plugged
        /\ Goto("loop") /\ UNCHANGED mtx
     \/ /\ Goto("exit") /\ mtx' = None
        /\ UNCHANGED <<listed, todo>>
  /\ UNCHANGED <<plugged, stale, alive, instances, failed_to_connect, dtor, nan, agent, cb>>

\* Faulty variant of IsNew: devices with a drive are not passed over.
IsNew_always(d) == d \notin failed_to_connect

IsNew(d) == instances[d] = None /\ d \notin failed_to_connect

\* The loop over the devices: connect_to_device_internal for each new one.
connect_to_device_internal ==
  /\ alive /\ main.pc = "loop"
  /\ \E d \in todo :
       /\ todo' = todo \ {d}
       /\ IF ~IsNew(d) THEN UNCHANGED <<main, nan>>
          ELSE /\ \E i \in Ids : nan[i] = None
               /\ LET i == CHOOSE i \in Ids : nan[i] = None
                  IN  /\ nan' = [nan EXCEPT ![i] = Nandroid(d)]
                      /\ main' = [pc |-> "push", obj |-> i, letter |-> 1]
  /\ UNCHANGED <<plugged, stale, alive, mtx, listed, instances, failed_to_connect, adb, dtor,
                 agent, cb>>

\* begin throws: the object is deleted.
Throw(i) == Goto("throw") /\ Delete(i)

\* A call to adb in begin returns; after the last of them begin starts the
\* agent's thread.
begin_adb ==
  /\ alive /\ main.pc \in {"push", "chmod", "forward"} /\ adb = "open"
  /\ adb' = "none"
  /\ \/ /\ nan[main.obj].device \in plugged
        /\ Goto(CASE main.pc = "push"    -> "chmod"
                  [] main.pc = "chmod"   -> "forward"
                  [] main.pc = "forward" -> "wait")
        /\ agent' = IF main.pc = "forward" THEN [agent EXCEPT ![main.obj].pc = "start"] ELSE agent
        /\ UNCHANGED dtor
     \/ Throw(main.obj) /\ UNCHANGED agent
  /\ UNCHANGED <<plugged, stale, alive, mtx, listed, todo, instances, failed_to_connect, nan, cb>>

\* Faulty variant of begin_wait: it does not wait.
begin_wait_not ==
  /\ alive /\ main.pc = "wait"
  /\ Throw(main.obj)
  /\ UNCHANGED <<plugged, stale, alive, mtx, listed, todo, instances, failed_to_connect, adb,
                 nan, agent, cb>>

\* The wait for the ready message, or for the end of the agent.
begin_wait ==
  /\ alive /\ main.pc = "wait" /\ nan[main.obj].agent_ready_notified
  /\ nan' = [nan EXCEPT ![main.obj].agent_ready_notified = FALSE]
  /\ IF nan[main.obj].agent_ready THEN Goto("connect") /\ UNCHANGED dtor ELSE Throw(main.obj)
  /\ UNCHANGED <<plugged, stale, alive, mtx, listed, todo, instances, failed_to_connect, adb,
                 agent, cb>>

\* new Connection, to whichever daemon has AGENT_PORT.
begin_connect ==
  /\ alive /\ main.pc = "connect"
  /\ LET i == main.obj
         d == nan[i].device
     IN  \/ /\ d \in plugged /\ d \in stale
            /\ nan' = [nan EXCEPT ![i].connection = "stale"] /\ stale' = stale \ {d}
            /\ Goto("mount") /\ UNCHANGED <<dtor, agent>>
         \/ /\ agent[i].daemon = "listening"
            /\ nan' = [nan EXCEPT ![i].connection = "own"]
            /\ agent' = [agent EXCEPT ![i].daemon = "serving"]
            /\ Goto("mount") /\ UNCHANGED <<dtor, stale>>
         \/ Throw(i) /\ UNCHANGED <<nan, agent, stale>>
  /\ UNCHANGED <<plugged, alive, mtx, listed, todo, instances, failed_to_connect, adb, cb>>

\* Faulty variant of NextLetter: the last letter is not the last to be tried.
NextLetter_past_Z == main' = [main EXCEPT !.letter = @ + 1]

NextLetter == main.letter # Letters /\ main' = [main EXCEPT !.letter = @ + 1]

\* A turn of the loop of mount_filesystem: the drive is mounted and begin
\* returns; or the letter is taken; or mount_filesystem throws.
mount_filesystem ==
  /\ alive /\ main.pc = "mount"
  /\ \/ /\ nan' = [nan EXCEPT ![main.obj].instance = "mounted"]
        /\ instances' = [instances EXCEPT ![nan[main.obj].device] = main.obj]
        /\ main' = [pc |-> "loop", obj |-> None, letter |-> 1]
        /\ UNCHANGED dtor
     \/ NextLetter /\ UNCHANGED <<nan, instances, dtor>>
     \/ Throw(main.obj) /\ UNCHANGED <<nan, instances>>
  /\ UNCHANGED <<plugged, stale, alive, mtx, listed, todo, failed_to_connect, adb, agent, cb>>

\* Faulty variant of IsGone: only devices that failed before are noticed.
IsGone_failed(d) == instances[d] # None /\ d \in failed_to_connect \ listed

IsGone(d) == instances[d] # None /\ d \notin listed

\* Devices that are gone: each drive is deleted, then erased.
update_remove ==
  /\ alive /\ main.pc = "loop" /\ todo = {}
  /\ todo' = {d \in Devices : IsGone(d)}
  /\ Goto("remove")
  /\ UNCHANGED <<plugged, stale, alive, mtx, listed, instances, failed_to_connect, adb, dtor, nan,
                 agent, cb>>

update_delete ==
  /\ alive /\ main.pc \in {"remove", "tracker"} /\ dtor = NoDtor
  /\ \E d \in todo :
       /\ todo' = todo \ {d}
       /\ Delete(instances[d])
  /\ UNCHANGED <<plugged, stale, alive, mtx, main, listed, instances, failed_to_connect, adb, nan,
                 agent, cb>>

\* device_man_mtx is unlocked: at the end of the scan, or of ~DeviceTracker.
Unlock ==
  /\ alive /\ main.pc \in {"remove", "tracker"} /\ todo = {} /\ dtor = NoDtor
  /\ mtx' = None /\ listed' = {}
  /\ Goto(IF main.pc = "remove" THEN "idle" ELSE "exited")
  /\ UNCHANGED <<plugged, stale, alive, todo, instances, failed_to_connect, adb, dtor, nan, agent, cb>>

\* The program is asked to quit between two scans.
Quit ==
  /\ alive /\ main.pc = "idle"
  /\ Goto("exit")
  /\ UNCHANGED <<plugged, stale, alive, mtx, listed, todo, instances, failed_to_connect, adb, dtor, nan,
                 agent, cb>>

DeviceTracker_destructor ==
  /\ alive /\ main.pc = "exit" /\ mtx = None
  /\ mtx' = Main /\ Goto("tracker")
  /\ todo' = {d \in Devices : instances[d] # None}
  /\ UNCHANGED <<plugged, stale, alive, listed, instances, failed_to_connect, adb, dtor, nan, agent, cb>>

-----------------------------------------------------------------------------
(* Nandroid::invoke_daemon on the agent's thread, and the daemon it runs.  *)

\* CreatePipe, then CreateProcess and the closing of the write end; either may
\* throw.  Without its device adb complains and exits.
invoke_daemon(i) ==
  /\ alive
  /\ \/ /\ agent[i].pc = "start"
        /\ \E pc \in {"open", "notify"} : agent' = [agent EXCEPT ![i].pc = pc]
     \/ /\ agent[i].pc = "open"
        /\ \/ agent' = [agent EXCEPT ![i].pc = "notify"]
           \/ /\ nan[i].device \in plugged
              /\ agent' = [agent EXCEPT ![i].pc = "reading", ![i].daemon = "starting"]
           \/ /\ nan[i].device \notin plugged
              /\ agent' = [agent EXCEPT ![i].pc = "reading", ![i].daemon = "exited", ![i].pipe = Banner]
  /\ UNCHANGED <<plugged, stale, alive, tracker, adb, dtor, nan, cb>>

\* start_server ignores that bind fails, so a daemon says it is ready whether
\* it has AGENT_PORT or another daemon does; without a socket it exits.
start_server(i) ==
  /\ agent[i].daemon = "starting"
  /\ \/ agent' = [agent EXCEPT ![i].daemon = IF nan[i].device \in stale THEN "deaf" ELSE "listening",
                              ![i].pipe = @ \o Banner \o AGENT_READY_MSG \o <<"nl">>]
     \/ agent' = [agent EXCEPT ![i].daemon = "exited", ![i].pipe = @ \o Banner]
  /\ UNCHANGED <<plugged, stale, alive, tracker, adb, dtor, nan, cb>>

\* handle_client returns, or throws, when the connection is gone, and main ends.
handle_client(i) ==
  /\ agent[i].daemon = "serving" /\ nan[i].connection \in {"none", "broken"}
  /\ agent' = [agent EXCEPT ![i].daemon = "exited"]
  /\ UNCHANGED <<plugged, stale, alive, tracker, adb, dtor, nan, cb>>

\* Where a line of buf begins and ends.
IsLine(buf, first, last) ==
  /\ buf[last] = "nl" /\ (first = 1 \/ buf[first - 1] = "nl")
  /\ \A j \in first..last - 1 : buf[j] # "nl"

HasReadyLine(buf) ==
  \E first, last \in 1..Len(buf) :
    first + 1 < last /\ IsLine(buf, first, last) /\ SubSeq(buf, first, first + 1) = AGENT_READY_MSG

\* Faulty variant of Remainder: the line that has only begun is dropped.
Remainder_nothing(buf) == << >>

Remainder(buf) ==
  LET last(j) == buf[j] = "nl" /\ \A l \in (j + 1)..Len(buf) : buf[l] # "nl"
  IN  IF \E j \in 1..Len(buf) : last(j)
      THEN SubSeq(buf, (CHOOSE j \in 1..Len(buf) : last(j)) + 1, Len(buf))
      ELSE buf

\* ReadFile returns some of the output.
handle_daemon_output(i) ==
  /\ alive /\ agent[i].pc = "reading"
  /\ \E n \in 1..Len(agent[i].pipe) :
       LET buf == agent[i].buffer \o SubSeq(agent[i].pipe, 1, n)
       IN  /\ agent' = [agent EXCEPT ![i].pipe = SubSeq(@, n + 1, Len(@)), ![i].buffer = Remainder(buf)]
           /\ IF HasReadyLine(buf)
              THEN /\ ~mtx_agent_ready_held(i)
                   /\ nan' = [nan EXCEPT ![i].agent_ready = TRUE, ![i].agent_ready_notified = TRUE]
              ELSE UNCHANGED nan
  /\ UNCHANGED <<plugged, stale, alive, tracker, adb, dtor, cb>>

\* ReadFile returns nothing once the process ended.
invoke_daemon_eof(i) ==
  /\ alive /\ agent[i].pc = "reading" /\ agent[i].pipe = << >> /\ agent[i].daemon = "exited"
  /\ agent' = [agent EXCEPT ![i].pc = "notify"]
  /\ UNCHANGED <<plugged, stale, alive, tracker, adb, dtor, nan, cb>>

invoke_daemon_notify(i) ==
  /\ alive /\ agent[i].pc = "notify" /\ ~mtx_agent_ready_held(i)
  /\ agent' = [agent EXCEPT ![i].pc = "done"]
  /\ nan' = [nan EXCEPT ![i].agent_ready = FALSE, ![i].agent_ready_notified = TRUE,
                        ![i].agent_dead_notified = TRUE]
  /\ UNCHANGED <<plugged, stale, alive, tracker, adb, dtor, cb>>

-----------------------------------------------------------------------------
(* ~Nandroid, on the thread that owns device_man_mtx.                      *)

Dtor(pc) == dtor' = [dtor EXCEPT !.pc = pc]
Others(i) == {k \in Callbacks \ {mtx} : cb[k].obj = i}

\* DokanCloseHandle takes no more calls, and returns when the other callbacks
\* of the drive have.
DokanCloseHandle ==
  /\ alive
  /\ \/ /\ dtor.pc = "close" /\ nan[dtor.obj].instance = "mounted"
        /\ nan' = [nan EXCEPT ![dtor.obj].instance = "closing"] /\ Dtor("closing")
     \/ /\ dtor.pc = "close" /\ nan[dtor.obj].instance = "none"
        /\ Dtor("conn") /\ UNCHANGED nan
     \/ /\ dtor.pc = "closing" /\ Others(dtor.obj) = {}
        /\ nan' = [nan EXCEPT ![dtor.obj].instance = "none"] /\ Dtor("conn")
  /\ UNCHANGED <<plugged, stale, alive, tracker, adb, agent, cb>>

\* Faulty variant of delete_connection: it comes before DokanCloseHandle.
delete_connection_first ==
  /\ alive /\ dtor.pc \in {"closing", "conn"}
  /\ nan' = [nan EXCEPT ![dtor.obj].connection = "none"] /\ Dtor("wait")
  /\ UNCHANGED <<plugged, stale, alive, tracker, adb, agent, cb>>

delete_connection ==
  /\ alive /\ dtor.pc = "conn"
  /\ nan' = [nan EXCEPT ![dtor.obj].connection = "none"] /\ Dtor("wait")
  /\ UNCHANGED <<plugged, stale, alive, tracker, adb, agent, cb>>

\* The agent ended, or 2 seconds are over.
wait_for_agent_dead ==
  /\ alive /\ dtor.pc = "wait"
  /\ Dtor(IF nan[dtor.obj].agent_dead_notified THEN "join" ELSE "pkill")
  /\ UNCHANGED <<plugged, stale, alive, tracker, adb, nan, agent, cb>>

\* adb shell pkill nandroid-daemon: kills every daemon of the device, or fails.
pkill ==
  /\ alive /\ dtor.pc = "pkill" /\ adb = "open"
  /\ adb' = "none" /\ Dtor("join")
  /\ \/ /\ nan[dtor.obj].device \in plugged
        /\ stale' = stale \ {nan[dtor.obj].device}
        /\ agent' = [agent EXCEPT ![dtor.obj].daemon = IF @ = "none" THEN @ ELSE "exited"]
     \/ UNCHANGED <<stale, agent>>
  /\ UNCHANGED <<plugged, alive, tracker, nan, cb>>

\* The destructor is over; whoever called it goes on.
Freed ==
  LET i == dtor.obj
      d == nan[i].device
  IN  /\ nan' = [nan EXCEPT ![i] = None] /\ agent' = [agent EXCEPT ![i] = NoAgent]
      /\ dtor' = NoDtor
      /\ CASE mtx # Main ->
                /\ mtx' = None /\ cb' = [cb EXCEPT ![mtx] = NoCall]
                /\ UNCHANGED <<main, instances, failed_to_connect>>
           [] mtx = Main /\ main.pc = "throw" ->
                /\ failed_to_connect' = failed_to_connect \cup {d}
                /\ main' = [pc |-> "loop", obj |-> None, letter |-> 1]
                /\ UNCHANGED <<mtx, cb, instances>>
           [] OTHER ->
                /\ instances' = [instances EXCEPT ![d] = None]
                /\ UNCHANGED <<mtx, cb, main, failed_to_connect>>

\* agent_invoke_thread.join(): of a thread that was never started it throws,
\* and an exception from a destructor is std::terminate.
join ==
  /\ alive /\ dtor.pc = "join"
  /\ \/ agent[dtor.obj].pc = "done" /\ Freed /\ UNCHANGED alive
     \/ /\ agent[dtor.obj].pc = "none" /\ alive' = FALSE
        /\ UNCHANGED <<mtx, main, instances, failed_to_connect, nan, agent, dtor, cb>>
  /\ UNCHANGED <<plugged, stale, listed, todo, adb>>

-----------------------------------------------------------------------------
(* Dokan's callbacks.                                                      *)

\* A thread that has nothing to do is called for drive i.
Enter(i) ==
  /\ alive /\ nan[i] # None /\ nan[i].instance = "mounted"
  /\ \E k \in Callbacks : cb[k] = NoCall
  /\ cb' = [cb EXCEPT ![CHOOSE k \in Callbacks : cb[k] = NoCall] = [pc |-> "inside", obj |-> i]]
  /\ UNCHANGED <<plugged, stale, alive, tracker, adb, dtor, nan, agent>>

\* The callback returns; or something in it throws, be it that the connection
\* broke, which NAN_HANDLER_END answers with unmount.
Leave(k) ==
  /\ alive /\ cb[k].pc = "inside"
  /\ \/ cb' = [cb EXCEPT ![k] = NoCall]
     \/ cb' = [cb EXCEPT ![k].pc = "unmount"]
  /\ UNCHANGED <<plugged, stale, alive, tracker, adb, dtor, nan, agent>>

unmount_device(k) ==
  /\ alive /\ cb[k].pc = "unmount" /\ mtx = None
  /\ mtx' = k
  /\ instances' = [instances EXCEPT ![nan[cb[k].obj].device] = None]
  /\ Delete(cb[k].obj)
  /\ UNCHANGED <<plugged, stale, alive, main, listed, todo, failed_to_connect, adb, nan, agent, cb>>

-----------------------------------------------------------------------------
(* The world.                                                              *)

Plug(d) ==
  /\ d \notin plugged /\ plugged' = plugged \cup {d}
  /\ UNCHANGED <<stale, alive, tracker, adb, dtor, nan, agent, cb>>

\* Connections to the device break and the adb of its agent ends.  (A daemon
\* that survives without a client is to begin what one of an earlier run is.)
Unplug(d) ==
  LET objs == {i \in Ids : nan[i] # None /\ nan[i].device = d}
  IN  /\ d \in plugged /\ plugged' = plugged \ {d}
      /\ nan' = [i \in Ids |->
                   IF i \in objs /\ nan[i].connection \in {"own", "stale"}
                   THEN [nan[i] EXCEPT !.connection = "broken"] ELSE nan[i]]
      /\ agent' = [i \in Ids |->
                     IF i \in objs /\ agent[i].daemon # "none"
                     THEN [agent[i] EXCEPT !.daemon = "exited"] ELSE agent[i]]
      /\ UNCHANGED <<stale, alive, tracker, adb, dtor, cb>>

\* The daemon is killed.
Kill(i) ==
  /\ agent[i].daemon \in {"listening", "deaf", "serving"}
  /\ agent' = [agent EXCEPT ![i].daemon = "exited"]
  /\ nan' = IF nan[i].connection # "own" THEN nan ELSE [nan EXCEPT ![i].connection = "broken"]
  /\ UNCHANGED <<plugged, stale, alive, tracker, adb, dtor, cb>>

-----------------------------------------------------------------------------
MainStep ==
  \/ create_stdouterr_pipes \/ update_connected_devices \/ list_authorized_adb_devices
  \/ connect_to_device_internal \/ begin_adb \/ begin_wait \/ begin_connect
  \/ mount_filesystem \/ update_remove \/ update_delete \/ Unlock \/ DeviceTracker_destructor
DestructorStep ==
  DokanCloseHandle \/ delete_connection \/ wait_for_agent_dead \/ pkill \/ join
AgentStep(i) ==
  \/ invoke_daemon(i) \/ start_server(i) \/ handle_client(i) \/ handle_daemon_output(i)
  \/ invoke_daemon_eof(i) \/ invoke_daemon_notify(i)
CallbackStep(k) == Leave(k) \/ unmount_device(k)

Next ==
  \/ MainStep \/ DestructorStep \/ Quit
  \/ \E i \in Ids : AgentStep(i) \/ Kill(i) \/ Enter(i)
  \/ \E k \in Callbacks : CallbackStep(k)
  \/ \E d \in Devices : Plug(d) \/ Unplug(d)

\* The threads and the daemon run; the user, the cable and the calls need not.
\* (Steps of the main thread and of a destructor are never enabled together.)
Fairness ==
  /\ WF_vars(MainStep \/ DestructorStep)
  /\ WF_vars(\E i \in Ids : AgentStep(i))
  /\ \A k \in Callbacks : WF_vars(CallbackStep(k))

Spec == Init /\ [][Next]_vars /\ Fairness

-----------------------------------------------------------------------------
(* Properties.                                                             *)

\* A callback waits for device_man_mtx while its owner waits for it in
\* DokanCloseHandle.
Deadlocked == dtor.pc = "closing" /\ \E k \in Others(dtor.obj) : cb[k].pc = "unmount"

\* ~Nandroid waits for an agent that has no reason to end: pkill failed.
Stuck == dtor.pc = "join" /\ agent[dtor.obj].daemon \in {"listening", "deaf"}

Stopped == ~alive \/ Deadlocked \/ Stuck

\* As long as a callback of a drive runs, its Nandroid object exists, and it
\* has a connection as long as the callback may use it ("Stop dokan calls first
\* so that we can safely delete the connection").
NoUseAfterFree ==
  \A k \in Callbacks : cb[k].obj # None =>
    /\ nan[cb[k].obj] # None
    /\ cb[k].pc = "inside" => nan[cb[k].obj].connection # "none"

\* Every Nandroid object is the one instances has for its device, except for
\* the one the owner of device_man_mtx makes or deletes, and instances has no
\* other objects: no drive is mounted twice, lost or deleted twice.
OneDrivePerDevice ==
  /\ \A i \in Ids : nan[i] # None =>
       instances[nan[i].device] = i \/ (mtx # None /\ i \in {main.obj, dtor.obj})
  /\ \A d \in Devices : instances[d] # None =>
       nan[instances[d]] # None /\ nan[instances[d]].device = d

\* While a child process is created, no write end of the pipe of another one is
\* open in this process to be inherited: "the ReadFile call will EOF when the
\* child process exits".
PipesPrivate ==
  \A i \in Ids : agent[i].pc = "open" => adb # "open" /\ \A j \in Ids \ {i} : agent[j].pc # "open"

\* device_man_mtx is always released again, whatever fails during a scan, a mount or
\* an unmount: begin does not wait for ever for an agent that does not start, nor
\* the destructor for one that does not end.
LockReleased == []<>(mtx = None \/ Stopped)

\* A device that stays is a drive again and again, or is marked as failed; one
\* that stays away is no drive.
DrivesFollowDevices ==
  \A d \in Devices :
    /\ <>[](d \in plugged) =>
         []<>(instances[d] # None \/ d \in failed_to_connect \/ main.pc = "exited" \/ Stopped)
    /\ <>[](d \notin plugged) => []<>(instances[d] = None \/ Stopped)

\* "Throws an exception if this fails": connecting to a device that cannot be
\* set up leaves the program running.
FailureIsException == alive

\* "Removes the filesystem for a device": unmount_device is not kept from it by
\* an owner of device_man_mtx that waits for its caller.
UnmountNotBlocked == ~Deadlocked
=============================================================================
