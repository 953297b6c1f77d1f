---------------------------- MODULE LifecycleProofs ----------------------------
(***************************************************************************)
(* Proofs about Lifecycle, for any number of devices, drives, callbacks    *)
(* and drive letters.                                                      *)
(***************************************************************************)
EXTENDS Lifecycle, TLAPS

-----------------------------------------------------------------------------
(* The inductive invariant.                                                *)

Starting == {"push", "chmod", "forward"}
Connecting == Starting \cup {"wait", "connect", "mount"}
Deleting == {"remove", "tracker"}

\* Who owns device_man_mtx, and the object it is making or deleting: the main
\* thread during a scan, or a callback in unmount_device.
OwnersInv ==
  /\ mtx = Main <=> main.pc \notin {"idle", "exit", "exited"}
  /\ main.obj # None <=> main.pc \in Connecting \cup {"throw"}
  /\ dtor.obj # None <=> dtor.pc # "none"
  /\ main.pc = "throw" => dtor.obj = main.obj
  /\ dtor.obj # None => mtx # None /\ (mtx = Main => main.pc \in Deleting \cup {"throw"})
  /\ mtx \in Callbacks => dtor.obj # None /\ cb[mtx].pc = "unmount" /\ cb[mtx].obj = dtor.obj

\* The objects being made and deleted exist; instances has the one being deleted
\* only if it is the main thread's to remove, and then it is deleted once.
ObjectsInv ==
  /\ main.obj # None => /\ nan[main.obj] # None /\ nan[main.obj].instance = "none"
                        /\ instances[nan[main.obj].device] = None
  /\ dtor.obj # None => nan[dtor.obj] # None
  /\ mtx \in Callbacks => instances[nan[dtor.obj].device] = None
  /\ main.pc \in Deleting =>
       /\ \A d \in todo : instances[d] # None
       /\ dtor.obj # None => /\ instances[nan[dtor.obj].device] = dtor.obj
                             /\ nan[dtor.obj].device \notin todo

\* A drive that Dokan has not closed has its connection.
DrivesInv ==
  /\ \A i \in Ids : nan[i] # None /\ nan[i].instance # "none" => nan[i].connection # "none"
  /\ \A i \in Ids : nan[i] # None /\ nan[i].instance = "closing" => dtor.obj = i /\ dtor.pc = "closing"
  /\ dtor.pc = "closing" => nan[dtor.obj].instance = "closing"
  /\ dtor.pc \in {"conn", "wait", "pkill", "join"} => nan[dtor.obj].instance = "none"
  /\ main.pc = "mount" => nan[main.obj].connection # "none"

\* A callback runs in a drive that is not closed, unless it is the one deleting it.
CallsInv ==
  \A k \in Callbacks :
    /\ cb[k].obj # None <=> cb[k].pc # "idle"
    /\ cb[k].obj # None =>
         /\ nan[cb[k].obj] # None
         /\ nan[cb[k].obj].instance # "none" \/ (mtx = k /\ dtor.obj = cb[k].obj)

\* The owner of device_man_mtx waits for an agent that is starting, and runs no adb
\* meanwhile.
AgentsInv ==
  /\ adb = "open" => main.pc \in Starting \cup {"list"} \/ dtor.pc = "pkill"
  /\ \A i \in Ids : nan[i] = None => agent[i] = NoAgent
  /\ \A i \in Ids : agent[i].pc \in {"start", "open"} =>
       main.pc = "wait" /\ main.obj = i /\ ~nan[i].agent_ready_notified
  /\ main.pc \in Starting => agent[main.obj].pc = "none" /\ ~nan[main.obj].agent_ready_notified

LifeInv ==
  TypeOK /\ OwnersInv /\ ObjectsInv /\ DrivesInv /\ CallsInv /\ AgentsInv /\ OneDrivePerDevice

-----------------------------------------------------------------------------
(* What the steps do to the records.                                       *)

MainPc == {"idle", "list", "loop", "push", "chmod", "forward", "wait", "connect", "mount", "throw",
           "remove", "exit", "tracker", "exited"}
DtorPc == {"none", "close", "closing", "conn", "wait", "pkill", "join"}

LEMMA GotoEffect ==
  ASSUME TypeOK, NEW pc \in MainPc, Goto(pc)
  PROVE  /\ main' \in [pc : MainPc, obj : Ids \cup {None}, letter : 1..Letters]
         /\ main'.pc = pc /\ main'.obj = main.obj
BY DEF TypeOK, Goto, MainPc

LEMMA DtorEffect ==
  ASSUME TypeOK, NEW pc \in DtorPc, Dtor(pc)
  PROVE  dtor' \in [pc : DtorPc, obj : Ids \cup {None}] /\ dtor'.pc = pc /\ dtor'.obj = dtor.obj
BY DEF TypeOK, Dtor, DtorPc

LEMMA DeleteEffect ==
  ASSUME NEW i \in Ids, Delete(i)
  PROVE  dtor' \in [pc : DtorPc, obj : Ids \cup {None}] /\ dtor'.pc = "close" /\ dtor'.obj = i
BY DEF Delete, DtorPc

LEMMA NotNone == None \notin Ids /\ None \notin Callbacks /\ Main \notin Callbacks /\ Main # None
                 /\ None \notin Object
BY NoneAssumption

LEMMA ObjectTyped ==
  ASSUME TypeOK, NEW i \in Ids, nan[i] # None
  PROVE  /\ nan[i] \in Object /\ nan[i].device \in Devices
         /\ nan[i].connection \in {"none", "own", "stale", "broken"}
         /\ nan[i].instance \in {"none", "mounted", "closing"}
BY DEF TypeOK, Object

\* An object whose fields change remains one, and the others are as they were.
LEMMA SetConnection ==
  ASSUME NEW f \in [Ids -> {None} \cup Object], NEW i \in Ids, f[i] # None,
         NEW c \in {"none", "own", "stale", "broken"},
         NEW g, g = [f EXCEPT ![i].connection = c]
  PROVE  /\ g \in [Ids -> {None} \cup Object] /\ g[i] \in Object /\ g[i].connection = c
         /\ g[i].device = f[i].device /\ g[i].instance = f[i].instance
         /\ g[i].agent_ready_notified = f[i].agent_ready_notified
         /\ \A j \in Ids \ {i} : g[j] = f[j]
<1>1. f[i] \in Object
  OBVIOUS
<1>2. [f[i] EXCEPT !.connection = c] \in Object
  BY <1>1 DEF Object
<1>3. g[i] = [f[i] EXCEPT !.connection = c] /\ \A j \in Ids \ {i} : g[j] = f[j]
  OBVIOUS
<1>4. g \in [Ids -> {None} \cup Object]
  BY <1>2, <1>3
<1> QED
  BY <1>1, <1>2, <1>3, <1>4 DEF Object

LEMMA SetInstance ==
  ASSUME NEW f \in [Ids -> {None} \cup Object], NEW i \in Ids, f[i] # None,
         NEW c \in {"none", "mounted", "closing"},
         NEW g, g = [f EXCEPT ![i].instance = c]
  PROVE  /\ g \in [Ids -> {None} \cup Object] /\ g[i] \in Object /\ g[i].instance = c
         /\ g[i].device = f[i].device /\ g[i].connection = f[i].connection
         /\ g[i].agent_ready_notified = f[i].agent_ready_notified
         /\ \A j \in Ids \ {i} : g[j] = f[j]
<1>1. f[i] \in Object
  OBVIOUS
<1>2. [f[i] EXCEPT !.instance = c] \in Object
  BY <1>1 DEF Object
<1>3. g[i] = [f[i] EXCEPT !.instance = c] /\ \A j \in Ids \ {i} : g[j] = f[j]
  OBVIOUS
<1>4. g \in [Ids -> {None} \cup Object]
  BY <1>2, <1>3
<1> QED
  BY <1>1, <1>2, <1>3, <1>4 DEF Object

FlagsSet(f, i, g) ==
  \/ g = [f EXCEPT ![i].agent_ready_notified = FALSE]
  \/ g = [f EXCEPT ![i].agent_ready = TRUE, ![i].agent_ready_notified = TRUE]
  \/ g = [f EXCEPT ![i].agent_ready = FALSE, ![i].agent_ready_notified = TRUE,
                   ![i].agent_dead_notified = TRUE]

\* The same for the flags of the agent, which no drive depends on.
LEMMA SetFlags ==
  ASSUME NEW f \in [Ids -> {None} \cup Object], NEW i \in Ids, f[i] # None,
         NEW g, FlagsSet(f, i, g)
  PROVE  /\ g \in [Ids -> {None} \cup Object] /\ g[i] \in Object
         /\ g[i].device = f[i].device /\ g[i].instance = f[i].instance
         /\ g[i].connection = f[i].connection
         /\ \A j \in Ids \ {i} : g[j] = f[j]
<1>1. f[i] \in Object
  OBVIOUS
<1> DEFINE o1 == [f[i] EXCEPT !.agent_ready_notified = FALSE]
           o2 == [f[i] EXCEPT !.agent_ready = TRUE, !.agent_ready_notified = TRUE]
           o3 == [f[i] EXCEPT !.agent_ready = FALSE, !.agent_ready_notified = TRUE,
                              !.agent_dead_notified = TRUE]
<1>2. o1 \in Object /\ o2 \in Object /\ o3 \in Object
  BY Zenon, <1>1 DEF Object
<1>3. g[i] \in {o1, o2, o3} /\ \A j \in Ids \ {i} : g[j] = f[j]
  BY Zenon DEF FlagsSet
<1>4. DOMAIN g = Ids /\ g = [j \in Ids |-> g[j]]
  BY DEF FlagsSet
<1>5. g \in [Ids -> {None} \cup Object]
  <2>1. g[i] \in Object
    BY Zenon, <1>2, <1>3
  <2>2. \A j \in Ids : g[j] \in {None} \cup Object
    BY <1>3, <2>1
  <2> QED
    BY <1>4, <2>2
<1>6. \A o \in {o1, o2, o3} : /\ o.device = f[i].device /\ o.instance = f[i].instance
                               /\ o.connection = f[i].connection
  BY Zenon, <1>1 DEF Object
<1> QED
  BY Zenon, <1>2, <1>3, <1>5, <1>6

\* The agent of i, and the output it still has to read.
LEMMA AgentTyped ==
  ASSUME NEW f \in [Ids -> AgentState], NEW i \in Ids
  PROVE  /\ f[i] \in AgentState /\ f[i].pipe \in Seq(Token) /\ f[i].buffer \in Seq(Token)
         /\ f[i].pc \in {"none", "start", "open", "reading", "notify", "done"}
         /\ f[i].daemon \in {"none", "starting", "listening", "deaf", "serving", "exited"}
BY DEF AgentState

LEMMA SetAgent ==
  ASSUME NEW f \in [Ids -> AgentState], NEW i \in Ids, NEW a \in AgentState,
         NEW g, g = [f EXCEPT ![i] = a]
  PROVE  g \in [Ids -> AgentState] /\ g[i] = a /\ \A j \in Ids \ {i} : g[j] = f[j]
OBVIOUS

LEMMA NoAgentTyped == NoAgent \in AgentState /\ NoAgent.pc = "none"
BY DEF NoAgent, AgentState, Token

-----------------------------------------------------------------------------
(* The output of an agent.                                                 *)

LEMMA Part ==
  ASSUME NEW s \in Seq(Token), NEW i \in 1..(Len(s) + 1), NEW j \in 0..Len(s)
  PROVE  SubSeq(s, i, j) \in Seq(Token)
OBVIOUS

\* What is left of the buffer is output still.
LEMMA RemainderTyped ==
  ASSUME NEW buf \in Seq(Token)
  PROVE  Remainder(buf) \in Seq(Token)
<1> DEFINE last(j) == buf[j] = "nl" /\ \A l \in (j + 1)..Len(buf) : buf[l] # "nl"
<1>1. CASE \E j \in 1..Len(buf) : last(j)
  <2>1. PICK k \in 1..Len(buf) : k = CHOOSE j \in 1..Len(buf) : last(j)
    BY <1>1
  <2>2. SubSeq(buf, k + 1, Len(buf)) \in Seq(Token)
    BY Part
  <2> QED
    BY <1>1, <2>1, <2>2 DEF Remainder
<1>2. CASE ~\E j \in 1..Len(buf) : last(j)
  BY <1>2 DEF Remainder
<1> QED
  BY <1>1, <1>2

LEMMA OutputTyped ==
  ASSUME NEW pipe \in Seq(Token), NEW buffer \in Seq(Token), NEW n \in 1..Len(pipe)
  PROVE  /\ buffer \o SubSeq(pipe, 1, n) \in Seq(Token)
         /\ SubSeq(pipe, n + 1, Len(pipe)) \in Seq(Token)
<1>1. SubSeq(pipe, 1, n) \in Seq(Token) /\ SubSeq(pipe, n + 1, Len(pipe)) \in Seq(Token)
  BY Part
<1> QED
  BY <1>1

LEMMA BannerTyped ==
  /\ Banner \in Seq(Token)
  /\ \A p \in Seq(Token) : /\ p \o Banner \o AGENT_READY_MSG \o <<"nl">> \in Seq(Token)
                           /\ p \o Banner \in Seq(Token)
<1>1. Banner \in Seq(Token) /\ AGENT_READY_MSG \in Seq(Token) /\ <<"nl">> \in Seq(Token)
  BY DEF Banner, AGENT_READY_MSG, Token
<1> QED
  BY <1>1

-----------------------------------------------------------------------------
(* Steps of the agents and of the world.                                   *)

\* The objects are the same, and so are their drives; no connection is deleted.
SameDrives ==
  \A i \in Ids :
    /\ nan'[i] = None <=> nan[i] = None
    /\ nan[i] # None => /\ nan'[i].device = nan[i].device /\ nan'[i].instance = nan[i].instance
                        /\ nan[i].connection # "none" => nan'[i].connection # "none"

LEMMA KeepsDrives ==
  ASSUME LifeInv, SameDrives, UNCHANGED <<tracker, dtor, cb>>
  PROVE  OwnersInv' /\ ObjectsInv' /\ DrivesInv' /\ CallsInv' /\ OneDrivePerDevice'
<1>1. UNCHANGED <<mtx, main, listed, todo, instances, failed_to_connect, dtor, cb>>
  BY DEF tracker
<1>2. /\ main.obj \in Ids \cup {None} /\ dtor.obj \in Ids \cup {None}
      /\ instances \in [Devices -> Ids \cup {None}]
      /\ \A k \in Callbacks : cb[k].obj \in Ids \cup {None}
  BY DEF LifeInv, TypeOK
<1>3. OwnersInv'
  BY <1>1 DEF LifeInv, OwnersInv
<1>4. ObjectsInv'
  <2>1. main.obj # None => nan[main.obj] # None
    BY DEF LifeInv, ObjectsInv
  <2>2. dtor.obj # None => nan[dtor.obj] # None
    BY DEF LifeInv, ObjectsInv
  <2>3. mtx \in Callbacks => dtor.obj # None
    BY DEF LifeInv, OwnersInv
  <2> QED
    BY <1>1, <1>2, <2>1, <2>2, <2>3 DEF LifeInv, ObjectsInv, SameDrives
<1>5. DrivesInv'
  <2>1. dtor.pc # "none" => dtor.obj \in Ids /\ nan[dtor.obj] # None
    BY <1>2 DEF LifeInv, ObjectsInv, OwnersInv
  <2>2. main.pc = "mount" => main.obj \in Ids /\ nan[main.obj] # None
    BY <1>2 DEF LifeInv, ObjectsInv, OwnersInv, Connecting
  <2>3. \A i \in Ids : nan'[i] # None /\ nan'[i].instance # "none" => nan'[i].connection # "none"
    BY DEF LifeInv, DrivesInv, SameDrives
  <2>4. \A i \in Ids : nan'[i] # None /\ nan'[i].instance = "closing" => dtor.obj = i /\ dtor.pc = "closing"
    BY DEF LifeInv, DrivesInv, SameDrives
  <2>5. dtor.pc = "closing" => nan'[dtor.obj].instance = "closing"
    BY <2>1 DEF LifeInv, DrivesInv, SameDrives
  <2>6. dtor.pc \in {"conn", "wait", "pkill", "join"} => nan'[dtor.obj].instance = "none"
    BY <2>1 DEF LifeInv, DrivesInv, SameDrives
  <2>7. main.pc = "mount" => nan'[main.obj].connection # "none"
    BY <2>2 DEF LifeInv, DrivesInv, SameDrives
  <2> QED
    BY <1>1, <2>3, <2>4, <2>5, <2>6, <2>7 DEF DrivesInv
<1>6. CallsInv'
  BY <1>1, <1>2 DEF LifeInv, CallsInv, SameDrives
<1>7. OneDrivePerDevice'
  BY <1>1, <1>2 DEF LifeInv, OneDrivePerDevice, SameDrives
<1> QED
  BY <1>3, <1>4, <1>5, <1>6, <1>7

\* A step of the agent of i: before the agent reads output, nothing is notified.
LEMMA KeepsAgents ==
  ASSUME LifeInv, NEW i \in Ids, nan[i] # None,
         UNCHANGED <<plugged, stale, alive, tracker, adb, dtor, cb>>,
         agent' \in [Ids -> AgentState], nan' \in [Ids -> {None} \cup Object], nan'[i] \in Object,
         nan'[i].device = nan[i].device, nan'[i].instance = nan[i].instance,
         nan[i].connection # "none" => nan'[i].connection # "none",
         \A j \in Ids \ {i} : agent'[j] = agent[j] /\ nan'[j] = nan[j],
         agent'[i].pc \in {"start", "open"} => agent[i].pc \in {"start", "open"},
         agent[i].pc = "none" => agent'[i].pc = "none",
         agent[i].pc \in {"none", "start", "open"} =>
           nan'[i].agent_ready_notified = nan[i].agent_ready_notified
  PROVE  LifeInv'
<1>1. UNCHANGED <<plugged, stale, alive, mtx, main, listed, todo, instances, failed_to_connect,
                  adb, dtor, cb>>
  BY DEF tracker
<1>2. nan'[i] # None
  BY NotNone
<1>3. SameDrives
  BY <1>2 DEF SameDrives
<1>4. OwnersInv' /\ ObjectsInv' /\ DrivesInv' /\ CallsInv' /\ OneDrivePerDevice'
  BY <1>3, KeepsDrives
<1>5. TypeOK'
  BY <1>1 DEF LifeInv, TypeOK
<1>6. AgentsInv'
  <2>1. main.pc \in Starting => main.obj \in Ids
    BY DEF LifeInv, TypeOK, OwnersInv, Connecting
  <2>2. \A j \in Ids : nan'[j] = None => agent'[j] = NoAgent
    BY <1>2 DEF LifeInv, AgentsInv
  <2>3. \A j \in Ids : agent'[j].pc \in {"start", "open"} =>
          main.pc = "wait" /\ main.obj = j /\ ~nan'[j].agent_ready_notified
    BY DEF LifeInv, AgentsInv
  <2>4. main.pc \in Starting => agent'[main.obj].pc = "none" /\ ~nan'[main.obj].agent_ready_notified
    BY <2>1 DEF LifeInv, AgentsInv
  <2> QED
    BY <1>1, <2>2, <2>3, <2>4 DEF LifeInv, AgentsInv
<1> QED
  BY <1>4, <1>5, <1>6 DEF LifeInv

LEMMA AgentStepNext ==
  ASSUME LifeInv, NEW i \in Ids, AgentStep(i) \/ Kill(i)
  PROVE  LifeInv'
<1>0. TypeOK /\ agent \in [Ids -> AgentState] /\ nan \in [Ids -> {None} \cup Object] /\ None \notin Object
  BY NotNone DEF LifeInv, TypeOK
<1>1. /\ UNCHANGED <<plugged, stale, alive, tracker, adb, dtor, cb>>
      /\ agent[i].pc # "none" \/ agent[i].daemon # "none"
  BY Zenon DEF AgentStep, invoke_daemon, start_server, handle_client, handle_daemon_output,
         invoke_daemon_eof, invoke_daemon_notify, Kill, tracker
<1>2. nan[i] # None /\ nan[i] \in Object
  BY <1>0, <1>1 DEF LifeInv, AgentsInv, NoAgent
<1>3. /\ agent[i] \in AgentState /\ agent[i].pipe \in Seq(Token) /\ agent[i].buffer \in Seq(Token)
  BY <1>0, AgentTyped
<1>4. ASSUME NEW pc \in {"open", "reading", "notify", "done"}, agent[i].pc # "none",
             pc = "open" => agent[i].pc \in {"start", "open"},
             NEW daemon \in {"none", "starting", "exited"}, NEW pipe \in Seq(Token),
             \/ agent' = [agent EXCEPT ![i].pc = pc]
             \/ agent' = [agent EXCEPT ![i].pc = pc, ![i].daemon = daemon]
             \/ agent' = [agent EXCEPT ![i].pc = pc, ![i].daemon = daemon, ![i].pipe = pipe]
      PROVE  /\ agent' \in [Ids -> AgentState] /\ agent'[i].pc = pc
             /\ \A j \in Ids \ {i} : agent'[j] = agent[j]
  <2> DEFINE a1 == [agent[i] EXCEPT !.pc = pc]
             a2 == [agent[i] EXCEPT !.pc = pc, !.daemon = daemon]
             a3 == [agent[i] EXCEPT !.pc = pc, !.daemon = daemon, !.pipe = pipe]
  <2>1. /\ a1 \in AgentState /\ a2 \in AgentState /\ a3 \in AgentState
        /\ a1.pc = pc /\ a2.pc = pc /\ a3.pc = pc
    BY Zenon, <1>3 DEF AgentState
  <2>2. \/ agent' = [agent EXCEPT ![i] = a1] \/ agent' = [agent EXCEPT ![i] = a2]
        \/ agent' = [agent EXCEPT ![i] = a3]
    BY <1>0, <1>4 DEF AgentState
  <2> HIDE DEF a1, a2, a3
  <2>3. CASE agent' = [agent EXCEPT ![i] = a1]
    BY <1>0, <2>1, <2>3, SetAgent
  <2>4. CASE agent' = [agent EXCEPT ![i] = a2]
    BY <1>0, <2>1, <2>4, SetAgent
  <2>5. CASE agent' = [agent EXCEPT ![i] = a3]
    BY <1>0, <2>1, <2>5, SetAgent
  <2> QED
    BY <2>2, <2>3, <2>4, <2>5
<1>5. ASSUME NEW daemon \in {"listening", "deaf", "exited"}, NEW pipe \in Seq(Token),
             NEW buffer \in Seq(Token),
             \/ agent' = [agent EXCEPT ![i].daemon = daemon]
             \/ agent' = [agent EXCEPT ![i].daemon = daemon, ![i].pipe = pipe]
             \/ agent' = [agent EXCEPT ![i].pipe = pipe, ![i].buffer = buffer]
      PROVE  /\ agent' \in [Ids -> AgentState] /\ agent'[i].pc = agent[i].pc
             /\ \A j \in Ids \ {i} : agent'[j] = agent[j]
  <2> DEFINE a1 == [agent[i] EXCEPT !.daemon = daemon]
             a2 == [agent[i] EXCEPT !.daemon = daemon, !.pipe = pipe]
             a3 == [agent[i] EXCEPT !.pipe = pipe, !.buffer = buffer]
  <2>1. /\ a1 \in AgentState /\ a2 \in AgentState /\ a3 \in AgentState
        /\ a1.pc = agent[i].pc /\ a2.pc = agent[i].pc /\ a3.pc = agent[i].pc
    BY Zenon, <1>3 DEF AgentState
  <2>2. \/ agent' = [agent EXCEPT ![i] = a1] \/ agent' = [agent EXCEPT ![i] = a2]
        \/ agent' = [agent EXCEPT ![i] = a3]
    BY Zenon, <1>0, <1>5 DEF AgentState
  <2> HIDE DEF a1, a2, a3
  <2>3. CASE agent' = [agent EXCEPT ![i] = a1]
    BY <1>0, <2>1, <2>3, SetAgent
  <2>4. CASE agent' = [agent EXCEPT ![i] = a2]
    BY <1>0, <2>1, <2>4, SetAgent
  <2>5. CASE agent' = [agent EXCEPT ![i] = a3]
    BY <1>0, <2>1, <2>5, SetAgent
  <2> QED
    BY <2>2, <2>3, <2>4, <2>5
<1>6. CASE invoke_daemon(i)
  <2>1. UNCHANGED nan /\ agent[i].pc \in {"start", "open"}
    BY <1>6 DEF invoke_daemon
  <2>2. \E pc \in {"open", "reading", "notify"} :
          \/ agent' = [agent EXCEPT ![i].pc = pc]
          \/ agent' = [agent EXCEPT ![i].pc = pc, ![i].daemon = "starting"]
          \/ agent' = [agent EXCEPT ![i].pc = pc, ![i].daemon = "exited", ![i].pipe = Banner]
    BY <1>6 DEF invoke_daemon
  <2>3. /\ agent' \in [Ids -> AgentState] /\ agent'[i].pc # "none"
        /\ \A j \in Ids \ {i} : agent'[j] = agent[j]
    BY Zenon, <1>4, <2>1, <2>2, BannerTyped
  <2> QED
    BY <1>0, <1>1, <1>2, <2>1, <2>3, KeepsAgents
<1>7. CASE start_server(i)
  <2>1. UNCHANGED nan
    BY <1>7 DEF start_server
  <2>2. \E daemon \in {"listening", "deaf", "exited"}, pipe \in Seq(Token) :
          agent' = [agent EXCEPT ![i].daemon = daemon, ![i].pipe = pipe]
    <3> DEFINE p1 == agent[i].pipe \o Banner \o AGENT_READY_MSG \o <<"nl">>
               p2 == agent[i].pipe \o Banner
    <3>1. p1 \in Seq(Token) /\ p2 \in Seq(Token)
      BY <1>3, BannerTyped
    <3>2. \E daemon \in {"listening", "deaf", "exited"} :
            \/ agent' = [agent EXCEPT ![i].daemon = daemon, ![i].pipe = p1]
            \/ agent' = [agent EXCEPT ![i].daemon = daemon, ![i].pipe = p2]
      BY Zenon, <1>0, <1>7 DEF start_server, AgentState
    <3> QED
      BY Zenon, <3>1, <3>2
  <2>3. /\ agent' \in [Ids -> AgentState] /\ agent'[i].pc = agent[i].pc
        /\ \A j \in Ids \ {i} : agent'[j] = agent[j]
    BY Zenon, <1>3, <1>5, <2>2
  <2> QED
    BY <1>0, <1>1, <1>2, <2>1, <2>3, KeepsAgents
<1>8. CASE handle_client(i)
  <2>1. UNCHANGED nan /\ agent' = [agent EXCEPT ![i].daemon = "exited"]
    BY <1>8 DEF handle_client
  <2>2. /\ agent' \in [Ids -> AgentState] /\ agent'[i].pc = agent[i].pc
        /\ \A j \in Ids \ {i} : agent'[j] = agent[j]
    BY <1>3, <1>5, <2>1
  <2> QED
    BY <1>0, <1>1, <1>2, <2>1, <2>2, KeepsAgents
<1>9. CASE handle_daemon_output(i)
  <2>1. PICK n \in 1..Len(agent[i].pipe) :
          LET buf == agent[i].buffer \o SubSeq(agent[i].pipe, 1, n)
          IN  /\ agent' = [agent EXCEPT ![i].pipe = SubSeq(agent[i].pipe, n + 1, Len(agent[i].pipe)),
                                        ![i].buffer = Remainder(buf)]
              /\ \/ UNCHANGED nan
                 \/ nan' = [nan EXCEPT ![i].agent_ready = TRUE, ![i].agent_ready_notified = TRUE]
    BY Zenon, <1>0, <1>9 DEF handle_daemon_output, AgentState
  <2>2. /\ SubSeq(agent[i].pipe, n + 1, Len(agent[i].pipe)) \in Seq(Token)
        /\ Remainder(agent[i].buffer \o SubSeq(agent[i].pipe, 1, n)) \in Seq(Token)
    BY Zenon, <1>3, OutputTyped, RemainderTyped
  <2>3. /\ agent' \in [Ids -> AgentState] /\ agent'[i].pc = agent[i].pc
        /\ \A j \in Ids \ {i} : agent'[j] = agent[j]
    BY Zenon, <1>5, <2>1, <2>2
  <2>4. agent[i].pc = "reading"
    BY <1>9 DEF handle_daemon_output
  <2>5. CASE UNCHANGED nan
    BY <1>0, <1>1, <1>2, <2>3, <2>5, KeepsAgents
  <2>6. CASE nan' = [nan EXCEPT ![i].agent_ready = TRUE, ![i].agent_ready_notified = TRUE]
    <3>1. /\ nan' \in [Ids -> {None} \cup Object] /\ nan'[i] \in Object
          /\ nan'[i].device = nan[i].device /\ nan'[i].instance = nan[i].instance
          /\ nan'[i].connection = nan[i].connection
          /\ \A j \in Ids \ {i} : nan'[j] = nan[j]
      <4>1. FlagsSet(nan, i, nan')
        BY <2>6, Zenon DEF FlagsSet
      <4> QED
        BY <1>0, <1>2, <4>1, SetFlags
    <3> QED
      BY <1>1, <1>2, <2>3, <2>4, <3>1, KeepsAgents
  <2> QED
    BY Zenon, <2>1, <2>5, <2>6
<1>10. CASE invoke_daemon_eof(i)
  <2>1. UNCHANGED nan /\ agent[i].pc = "reading" /\ agent' = [agent EXCEPT ![i].pc = "notify"]
    BY <1>10 DEF invoke_daemon_eof
  <2>2. /\ agent' \in [Ids -> AgentState] /\ agent'[i].pc = "notify"
        /\ \A j \in Ids \ {i} : agent'[j] = agent[j]
    BY Zenon, <1>3, <1>4, <2>1
  <2> QED
    BY <1>0, <1>1, <1>2, <2>1, <2>2, KeepsAgents
<1>11. CASE invoke_daemon_notify(i)
  <2>1. /\ agent[i].pc = "notify" /\ agent' = [agent EXCEPT ![i].pc = "done"]
        /\ nan' = [nan EXCEPT ![i].agent_ready = FALSE, ![i].agent_ready_notified = TRUE,
                              ![i].agent_dead_notified = TRUE]
    BY <1>11 DEF invoke_daemon_notify
  <2>2. /\ agent' \in [Ids -> AgentState] /\ agent'[i].pc = "done"
        /\ \A j \in Ids \ {i} : agent'[j] = agent[j]
    BY Zenon, <1>3, <1>4, <2>1
  <2>3. /\ nan' \in [Ids -> {None} \cup Object] /\ nan'[i] \in Object
        /\ nan'[i].device = nan[i].device /\ nan'[i].instance = nan[i].instance
        /\ nan'[i].connection = nan[i].connection
        /\ \A j \in Ids \ {i} : nan'[j] = nan[j]
    <3>1. FlagsSet(nan, i, nan')
      BY <2>1, Zenon DEF FlagsSet
    <3> QED
      BY <1>0, <1>2, <3>1, SetFlags
  <2> QED
    BY Zenon, <1>1, <1>2, <2>1, <2>2, <2>3, KeepsAgents
<1>12. CASE Kill(i)
  <2>1. agent' = [agent EXCEPT ![i].daemon = "exited"]
    BY <1>12 DEF Kill
  <2>2. /\ agent' \in [Ids -> AgentState] /\ agent'[i].pc = agent[i].pc
        /\ \A j \in Ids \ {i} : agent'[j] = agent[j]
    BY <1>3, <1>5, <2>1
  <2>3. CASE UNCHANGED nan
    BY <1>0, <1>1, <1>2, <2>2, <2>3, KeepsAgents
  <2>4. CASE nan' = [nan EXCEPT ![i].connection = "broken"]
    <3>1. /\ nan' \in [Ids -> {None} \cup Object] /\ nan'[i] \in Object
          /\ nan'[i].connection = "broken"
          /\ nan'[i].device = nan[i].device /\ nan'[i].instance = nan[i].instance
          /\ nan'[i].agent_ready_notified = nan[i].agent_ready_notified
          /\ \A j \in Ids \ {i} : nan'[j] = nan[j]
      BY <1>0, <1>2, <2>4, SetConnection
    <3> QED
      BY <1>1, <1>2, <2>2, <3>1, KeepsAgents
  <2> QED
    BY <1>12, <2>3, <2>4 DEF Kill
<1> QED
  BY <1>6, <1>7, <1>8, <1>9, <1>10, <1>11, <1>12 DEF AgentStep

LEMMA WorldNext ==
  ASSUME LifeInv, NEW d \in Devices, Plug(d) \/ Unplug(d)
  PROVE  LifeInv'
<1>0. TypeOK /\ agent \in [Ids -> AgentState] /\ nan \in [Ids -> {None} \cup Object] /\ None \notin Object
  BY NotNone DEF LifeInv, TypeOK
<1>1. UNCHANGED <<stale, alive, tracker, adb, dtor, cb>> /\ plugged' \subseteq Devices
  BY <1>0 DEF Plug, Unplug, TypeOK
<1>2. UNCHANGED <<mtx, main, listed, todo, instances, failed_to_connect>>
  BY <1>1 DEF tracker
<1>3. /\ nan' \in [Ids -> {None} \cup Object]
      /\ \A i \in Ids : \/ nan'[i] = nan[i]
                        \/ nan[i] \in Object /\ nan'[i] = [nan[i] EXCEPT !.connection = "broken"]
  <2>1. CASE Plug(d)
    BY <1>0, <2>1 DEF Plug
  <2>2. CASE Unplug(d)
    <3>1. /\ nan' = [i \in Ids |-> nan'[i]]
          /\ \A i \in Ids : \/ nan'[i] = nan[i]
                            \/ nan[i] \in Object /\ nan'[i] = [nan[i] EXCEPT !.connection = "broken"]
      BY <1>0, <2>2 DEF Unplug
    <3>2. \A o \in Object : [o EXCEPT !.connection = "broken"] \in Object
      BY DEF Object
    <3> QED
      BY <1>0, <3>1, <3>2
  <2> QED
    BY <2>1, <2>2
<1>4. /\ agent' \in [Ids -> AgentState]
      /\ \A i \in Ids : /\ agent'[i].pc = agent[i].pc
                        /\ nan[i] = None => agent'[i] = agent[i]
  <2>1. CASE Plug(d)
    BY <1>0, <2>1 DEF Plug
  <2>2. CASE Unplug(d)
    <3>1. /\ agent' = [i \in Ids |-> agent'[i]]
          /\ \A i \in Ids : \/ agent'[i] = agent[i]
                            \/ nan[i] # None /\ agent'[i] = [agent[i] EXCEPT !.daemon = "exited"]
      BY <1>0, <2>2 DEF Unplug
    <3>2. \A a \in AgentState : /\ [a EXCEPT !.daemon = "exited"] \in AgentState
                                /\ [a EXCEPT !.daemon = "exited"].pc = a.pc
      BY DEF AgentState
    <3>3. ASSUME NEW i \in Ids
          PROVE  /\ agent'[i] \in AgentState /\ agent'[i].pc = agent[i].pc
                 /\ nan[i] = None => agent'[i] = agent[i]
      <4>1. agent[i] \in AgentState
        BY <1>0
      <4>2. CASE agent'[i] = agent[i]
        BY <4>1, <4>2
      <4>3. CASE nan[i] # None /\ agent'[i] = [agent[i] EXCEPT !.daemon = "exited"]
        BY <3>2, <4>1, <4>3
      <4> QED
        BY <3>1, <4>2, <4>3
    <3> QED
      BY <3>1, <3>3
  <2> QED
    BY <2>1, <2>2
<1>5. \A i \in Ids :
        /\ nan'[i] = None <=> nan[i] = None
        /\ nan[i] # None => /\ nan'[i].device = nan[i].device /\ nan'[i].instance = nan[i].instance
                            /\ nan'[i].agent_ready_notified = nan[i].agent_ready_notified
                            /\ nan[i].connection # "none" => nan'[i].connection # "none"
  <2>1. ASSUME NEW o \in Object
        PROVE  LET b == [o EXCEPT !.connection = "broken"]
               IN  /\ b \in Object /\ b.connection = "broken" /\ b.device = o.device
                   /\ b.instance = o.instance /\ b.agent_ready_notified = o.agent_ready_notified
    BY DEF Object
  <2>2. ASSUME NEW i \in Ids, nan[i] \in Object, nan'[i] = [nan[i] EXCEPT !.connection = "broken"]
        PROVE  /\ nan'[i] # None /\ nan'[i].connection = "broken"
               /\ nan'[i].device = nan[i].device /\ nan'[i].instance = nan[i].instance
               /\ nan'[i].agent_ready_notified = nan[i].agent_ready_notified
    BY <1>0, <2>1, <2>2
  <2> QED
    BY <1>0, <1>3, <2>2
<1>6. SameDrives
  BY <1>5 DEF SameDrives
<1>7. OwnersInv' /\ ObjectsInv' /\ DrivesInv' /\ CallsInv' /\ OneDrivePerDevice'
  BY <1>1, <1>6, KeepsDrives
<1>8. TypeOK'
  BY <1>1, <1>2, <1>3, <1>4 DEF LifeInv, TypeOK
<1>9. AgentsInv'
  <2>1. main.pc \in Starting => main.obj \in Ids /\ nan[main.obj] # None
    BY DEF LifeInv, TypeOK, OwnersInv, ObjectsInv, Connecting
  <2>2. \A i \in Ids : nan'[i] = None => agent'[i] = NoAgent
    BY <1>4, <1>5 DEF LifeInv, AgentsInv
  <2>3. \A i \in Ids : agent[i].pc \in {"start", "open"} => nan[i] # None
    BY DEF LifeInv, AgentsInv, NoAgent
  <2>4. \A i \in Ids : agent'[i].pc \in {"start", "open"} =>
          main.pc = "wait" /\ main.obj = i /\ ~nan'[i].agent_ready_notified
    BY <1>4, <1>5, <2>3 DEF LifeInv, AgentsInv
  <2>5. main.pc \in Starting => agent'[main.obj].pc = "none" /\ ~nan'[main.obj].agent_ready_notified
    BY <1>4, <1>5, <2>1 DEF LifeInv, AgentsInv
  <2> QED
    BY <1>1, <1>2, <2>2, <2>4, <2>5 DEF LifeInv, AgentsInv
<1> QED
  BY <1>7, <1>8, <1>9 DEF LifeInv

-----------------------------------------------------------------------------
(* Steps of the owner of device_man_mtx that leave the objects alone.      *)

\* Only adb's pipe, or the position of the main thread outside begin and the
\* destructors, changes.
LEMMA PipesNext ==
  ASSUME LifeInv, create_stdouterr_pipes
  PROVE  LifeInv'
<1>1. UNCHANGED <<plugged, stale, alive, mtx, main, listed, todo, instances, failed_to_connect, dtor,
                  nan, agent, cb>> /\ adb' = "open"
  BY DEF create_stdouterr_pipes, tracker
<1>2. AgentsInv'
  BY <1>1 DEF LifeInv, AgentsInv, create_stdouterr_pipes, Starting
<1>3. OwnersInv' /\ ObjectsInv' /\ DrivesInv' /\ CallsInv' /\ OneDrivePerDevice'
  BY <1>1, KeepsDrives DEF SameDrives, tracker
<1>4. TypeOK'
  BY <1>1 DEF LifeInv, TypeOK
<1> QED
  BY <1>2, <1>3, <1>4 DEF LifeInv

\* The main thread moves while no object is being made or deleted.
LEMMA ScanMoves ==
  ASSUME LifeInv, UNCHANGED <<plugged, stale, alive, instances, failed_to_connect, dtor, nan, agent, cb>>,
         dtor.obj = None, main.obj = None, main'.obj = None,
         main' \in [pc : MainPc, obj : Ids \cup {None}, letter : 1..Letters],
         main'.pc \notin Connecting \cup {"throw"},
         mtx' \in {Main, None}, mtx' = Main <=> main'.pc \notin {"idle", "exit", "exited"},
         adb' \in {"none", "open"}, adb' = "open" => main'.pc = "list",
         listed' \subseteq Devices, todo' \subseteq Devices,
         main'.pc \in Deleting => \A d \in todo' : instances[d] # None
  PROVE  LifeInv'
<1>0. None \notin Ids /\ Main # None /\ Main \notin Callbacks /\ None \notin Callbacks
  BY NotNone
<1>1. dtor.pc = "none" /\ mtx \notin Callbacks
  BY DEF LifeInv, OwnersInv
<1>2. TypeOK'
  BY DEF LifeInv, TypeOK, MainPc
<1>3. OwnersInv'
  BY <1>0, <1>1 DEF LifeInv, OwnersInv
<1>4. ObjectsInv'
  BY <1>0, <1>1 DEF LifeInv, ObjectsInv
<1>5. DrivesInv'
  BY <1>0, <1>1 DEF LifeInv, DrivesInv, Connecting
<1>6. CallsInv'
  <2>1. \A k \in Callbacks : mtx # k
    BY <1>1
  <2> QED
    BY <2>1 DEF LifeInv, CallsInv
<1>7. AgentsInv'
  <2>1. \A i \in Ids : agent[i].pc \notin {"start", "open"}
    BY <1>0 DEF LifeInv, AgentsInv
  <2> QED
    BY <1>1, <2>1 DEF LifeInv, AgentsInv, Starting, Connecting
<1>8. OneDrivePerDevice'
  <2>1. \A i \in Ids : i \notin {main.obj, dtor.obj}
    BY <1>0
  <2> QED
    BY <2>1 DEF LifeInv, OneDrivePerDevice
<1> QED
  BY <1>2, <1>3, <1>4, <1>5, <1>6, <1>7, <1>8 DEF LifeInv

LEMMA ScanNext ==
  ASSUME LifeInv,
         \/ update_connected_devices \/ list_authorized_adb_devices \/ update_remove \/ Unlock
         \/ DeviceTracker_destructor
  PROVE  LifeInv'
<1>0. TypeOK /\ Main # None /\ Main \notin Callbacks /\ None \notin Callbacks
  BY NotNone DEF LifeInv
<1>1. /\ UNCHANGED <<plugged, stale, alive, instances, failed_to_connect, dtor, nan, agent, cb>>
      /\ main.pc \in {"idle", "list", "loop", "remove", "tracker", "exit"}
  BY DEF update_connected_devices, list_authorized_adb_devices, update_remove, Unlock,
         DeviceTracker_destructor
<1>2. main.obj = None
  BY <1>1 DEF LifeInv, OwnersInv, Connecting, Starting
<1>3. adb = "open" /\ dtor.obj = None => main.pc \in Starting \cup {"list"}
  BY DEF LifeInv, AgentsInv, OwnersInv
<1>4. CASE update_connected_devices
  <2>1. dtor.obj = None
    BY <1>0, <1>4 DEF update_connected_devices, LifeInv, OwnersInv
  <2>2. mtx' = Main /\ main.pc = "idle" /\ UNCHANGED <<listed, todo, adb>> /\ Goto("list")
    BY <1>4 DEF update_connected_devices
  <2>3. /\ main' \in [pc : MainPc, obj : Ids \cup {None}, letter : 1..Letters]
        /\ main'.pc = "list" /\ main'.obj = main.obj
    BY <1>0, <2>2, GotoEffect DEF MainPc
  <2>4. adb = "none"
    BY <1>0, <1>3, <2>1, <2>2 DEF TypeOK, Starting
  <2> QED
    BY <1>0, <1>1, <1>2, <2>1, <2>2, <2>3, <2>4, ScanMoves
    DEF Connecting, Starting, Deleting, TypeOK
<1>5. CASE list_authorized_adb_devices
  <2>1. main.pc = "list" /\ adb' = "none" /\ listed' \subseteq Devices /\ todo' \subseteq Devices
    BY <1>0, <1>5 DEF list_authorized_adb_devices, TypeOK
  <2>2. mtx = Main /\ dtor.obj = None
    BY <2>1 DEF LifeInv, OwnersInv, Deleting
  <2>3. \/ Goto("loop") /\ mtx' = Main
        \/ Goto("exit") /\ mtx' = None
    BY <1>5, <2>2, Zenon DEF list_authorized_adb_devices
  <2>4. /\ main' \in [pc : MainPc, obj : Ids \cup {None}, letter : 1..Letters]
        /\ main'.pc \in {"loop", "exit"} /\ main'.obj = main.obj
        /\ main'.pc = "loop" <=> mtx' = Main
    BY <1>0, <2>3, GotoEffect DEF MainPc
  <2>5. mtx' \in {Main, None}
    BY <2>3
  <2> QED
    <3>1. /\ main'.pc \notin Connecting \cup {"throw"} /\ main'.pc \notin Deleting
          /\ main'.obj = None
          /\ mtx' = Main <=> main'.pc \notin {"idle", "exit", "exited"}
      BY <1>2, <2>4 DEF Connecting, Starting, Deleting
    <3> QED
      BY <1>1, <1>2, <2>1, <2>2, <2>4, <2>5, <3>1, ScanMoves
<1>6. CASE update_remove
  <2>1. /\ main.pc = "loop" /\ Goto("remove") /\ UNCHANGED <<mtx, listed, adb>>
        /\ todo' = {d \in Devices : IsGone(d)}
    BY <1>6 DEF update_remove
  <2>2. mtx = Main /\ dtor.obj = None
    BY <2>1 DEF LifeInv, OwnersInv, Deleting
  <2>3. adb = "none"
    BY <1>0, <1>3, <2>1, <2>2 DEF TypeOK, Starting
  <2>4. /\ main' \in [pc : MainPc, obj : Ids \cup {None}, letter : 1..Letters]
        /\ main'.pc = "remove" /\ main'.obj = main.obj
    BY <1>0, <2>1, GotoEffect DEF MainPc
  <2>5. todo' \subseteq Devices /\ \A d \in todo' : instances[d] # None
    BY <2>1 DEF IsGone
  <2> QED
    BY <1>0, <1>1, <1>2, <2>1, <2>2, <2>3, <2>4, <2>5, ScanMoves
    DEF Connecting, Starting, Deleting, TypeOK
<1>7. CASE Unlock
  <2>1. /\ main.pc \in {"remove", "tracker"} /\ dtor = NoDtor /\ mtx' = None /\ listed' = {}
        /\ UNCHANGED <<todo, adb>> /\ Goto(IF main.pc = "remove" THEN "idle" ELSE "exited")
    BY <1>7 DEF Unlock
  <2>2. dtor.obj = None
    BY <2>1 DEF NoDtor
  <2>3. adb = "none"
    BY <1>0, <1>3, <2>1, <2>2 DEF TypeOK, Starting
  <2>4. /\ main' \in [pc : MainPc, obj : Ids \cup {None}, letter : 1..Letters]
        /\ main'.pc \in {"idle", "exited"} /\ main'.obj = main.obj
    BY <1>0, <2>1, GotoEffect DEF MainPc
  <2> QED
    BY <1>0, <1>1, <1>2, <2>1, <2>2, <2>3, <2>4, ScanMoves DEF Connecting, Starting, Deleting, TypeOK
<1>8. CASE DeviceTracker_destructor
  <2>1. /\ main.pc = "exit" /\ mtx = None /\ mtx' = Main /\ Goto("tracker") /\ UNCHANGED <<listed, adb>>
        /\ todo' = {d \in Devices : instances[d] # None}
    BY <1>8 DEF DeviceTracker_destructor
  <2>2. dtor.obj = None
    BY <2>1 DEF LifeInv, OwnersInv
  <2>3. adb = "none"
    BY <1>0, <1>3, <2>1, <2>2 DEF TypeOK, Starting
  <2>4. /\ main' \in [pc : MainPc, obj : Ids \cup {None}, letter : 1..Letters]
        /\ main'.pc = "tracker" /\ main'.obj = main.obj
    BY <1>0, <2>1, GotoEffect DEF MainPc
  <2>5. todo' \subseteq Devices /\ \A d \in todo' : instances[d] # None
    BY <2>1
  <2> QED
    BY <1>0, <1>1, <1>2, <2>1, <2>2, <2>3, <2>4, <2>5, ScanMoves
    DEF Connecting, Starting, Deleting, TypeOK
<1> QED
  BY <1>4, <1>5, <1>6, <1>7, <1>8

LEMMA QuitNext ==
  ASSUME LifeInv, Quit
  PROVE  LifeInv'
<1>1. /\ UNCHANGED <<plugged, stale, alive, mtx, listed, todo, instances, failed_to_connect, adb, dtor,
                     nan, agent, cb>>
      /\ main.pc = "idle" /\ Goto("exit")
  BY DEF Quit
<1>2. /\ main' \in [pc : MainPc, obj : Ids \cup {None}, letter : 1..Letters]
      /\ main'.pc = "exit" /\ main'.obj = main.obj
  BY <1>1, GotoEffect DEF LifeInv, MainPc
<1>3. main.obj = None
  BY <1>1 DEF LifeInv, OwnersInv, Connecting, Starting
<1>4. TypeOK'
  BY <1>1, <1>2 DEF LifeInv, TypeOK, MainPc
<1>5. OwnersInv'
  BY <1>1, <1>2 DEF LifeInv, OwnersInv, Connecting, Starting, Deleting
<1>6. ObjectsInv' /\ DrivesInv'
  BY <1>1, <1>2, <1>3 DEF LifeInv, ObjectsInv, DrivesInv, Deleting
<1>7. CallsInv' /\ OneDrivePerDevice'
  BY <1>1, <1>2 DEF LifeInv, CallsInv, OneDrivePerDevice
<1>8. AgentsInv'
  BY <1>1, <1>2 DEF LifeInv, AgentsInv, Starting
<1> QED
  BY <1>4, <1>5, <1>6, <1>7, <1>8 DEF LifeInv

-----------------------------------------------------------------------------
(* The main thread makes a drive, or deletes one.                          *)

\* What holds whenever the main thread is in begin.
LEMMA InBegin ==
  ASSUME LifeInv, main.pc \in Connecting
  PROVE  /\ mtx = Main /\ mtx \notin Callbacks /\ mtx # None
         /\ main.obj \in Ids /\ nan[main.obj] # None /\ nan[main.obj] \in Object
         /\ nan[main.obj].device \in Devices
         /\ nan[main.obj].instance = "none" /\ instances[nan[main.obj].device] = None
         /\ dtor.obj = None /\ dtor.pc = "none"
         /\ main.pc \notin Starting => adb = "none"
         /\ \A i \in Ids : agent[i].pc \in {"start", "open"} => i = main.obj /\ main.pc = "wait"
<1>1. mtx = Main
  BY DEF LifeInv, OwnersInv, Connecting, Starting
<1>2. main.obj \in Ids
  BY DEF LifeInv, OwnersInv, TypeOK
<1>3. nan[main.obj] # None /\ nan[main.obj].instance = "none" /\ instances[nan[main.obj].device] = None
  BY <1>2, NotNone DEF LifeInv, ObjectsInv
<1>4. dtor.obj = None /\ dtor.pc = "none"
  BY <1>1 DEF LifeInv, OwnersInv, Connecting, Starting, Deleting
<1>5. main.pc \notin Starting => adb = "none"
  BY <1>4 DEF LifeInv, AgentsInv, TypeOK, Connecting, Starting
<1>6. \A i \in Ids : agent[i].pc \in {"start", "open"} => i = main.obj /\ main.pc = "wait"
  BY DEF LifeInv, AgentsInv
<1>7. nan[main.obj] \in Object /\ nan[main.obj].device \in Devices
  BY <1>2, <1>3, ObjectTyped DEF LifeInv
<1> QED
  BY <1>1, <1>2, <1>3, <1>4, <1>5, <1>6, <1>7, NotNone

\* begin goes on.
LEMMA BeginMoves ==
  ASSUME LifeInv, main.pc \in Connecting, main'.pc \in Connecting, main'.obj = main.obj,
         UNCHANGED <<mtx, instances, dtor, cb>>, SameDrives,
         main'.pc = "mount" => nan'[main.obj].connection # "none"
  PROVE  OwnersInv' /\ ObjectsInv' /\ DrivesInv' /\ CallsInv' /\ OneDrivePerDevice'
<1>1. /\ mtx = Main /\ mtx \notin Callbacks /\ main.obj \in Ids /\ nan[main.obj] # None
      /\ nan[main.obj].instance = "none" /\ instances[nan[main.obj].device] = None
      /\ dtor.obj = None /\ dtor.pc = "none"
  BY InBegin
<1>2. /\ instances \in [Devices -> Ids \cup {None}]
      /\ \A k \in Callbacks : cb[k].obj \in Ids \cup {None}
  BY DEF LifeInv, TypeOK
<1>3. OwnersInv'
  BY <1>1 DEF LifeInv, OwnersInv, Connecting, Starting
<1>4. ObjectsInv'
  BY <1>1 DEF ObjectsInv, SameDrives, Connecting, Starting, Deleting
<1>5. DrivesInv'
  BY <1>1 DEF LifeInv, DrivesInv, SameDrives
<1>6. CallsInv'
  BY <1>1, <1>2 DEF LifeInv, CallsInv, SameDrives
<1>7. OneDrivePerDevice'
  BY <1>1, <1>2 DEF LifeInv, OneDrivePerDevice, SameDrives
<1> QED
  BY <1>3, <1>4, <1>5, <1>6, <1>7

\* begin throws: the object is deleted, and no agent is starting.
LEMMA ThrowNext ==
  ASSUME LifeInv, main.pc \in Connecting, Throw(main.obj), SameDrives,
         UNCHANGED <<plugged, stale, alive, mtx, listed, todo, instances, failed_to_connect, agent, cb>>,
         adb' = "none", nan' \in [Ids -> {None} \cup Object],
         \A i \in Ids : agent[i].pc \notin {"start", "open"}
  PROVE  LifeInv'
<1>1. /\ mtx = Main /\ mtx \notin Callbacks /\ mtx # None /\ main.obj \in Ids /\ nan[main.obj] # None
      /\ nan[main.obj].instance = "none" /\ instances[nan[main.obj].device] = None
      /\ dtor.obj = None /\ dtor.pc = "none"
  BY InBegin
<1>2. /\ instances \in [Devices -> Ids \cup {None}]
      /\ \A k \in Callbacks : cb[k].obj \in Ids \cup {None}
  BY DEF LifeInv, TypeOK
<1>3. /\ main' \in [pc : MainPc, obj : Ids \cup {None}, letter : 1..Letters]
      /\ main'.pc = "throw" /\ main'.obj = main.obj
  BY GotoEffect DEF Throw, LifeInv, MainPc
<1>4. dtor' \in [pc : DtorPc, obj : Ids \cup {None}] /\ dtor'.pc = "close" /\ dtor'.obj = main.obj
  BY <1>1, DeleteEffect DEF Throw
<1>5. TypeOK'
  BY <1>3, <1>4 DEF LifeInv, TypeOK, MainPc, DtorPc
<1>6. OwnersInv'
  BY <1>1, <1>3, <1>4, NotNone DEF LifeInv, OwnersInv
<1>7. ObjectsInv'
  BY <1>1, <1>3, <1>4 DEF ObjectsInv, SameDrives, Deleting
<1>8. DrivesInv'
  BY <1>1, <1>3, <1>4 DEF LifeInv, DrivesInv, SameDrives
<1>9. CallsInv'
  BY Zenon, <1>1, <1>2 DEF LifeInv, CallsInv, SameDrives
<1>10. AgentsInv'
  BY Zenon, <1>3 DEF LifeInv, AgentsInv, SameDrives, Starting
<1>11. OneDrivePerDevice'
  <2>1. \A i \in Ids : nan'[i] # None => instances[nan'[i].device] = i \/ i = main.obj
    BY <1>1, NotNone DEF LifeInv, OneDrivePerDevice, SameDrives
  <2>2. \A d \in Devices : instances[d] # None =>
          nan'[instances[d]] # None /\ nan'[instances[d]].device = d
    BY <1>2 DEF LifeInv, OneDrivePerDevice, SameDrives
  <2> QED
    BY <1>1, <1>4, <2>1, <2>2 DEF OneDrivePerDevice
<1> QED
  BY <1>5, <1>6, <1>7, <1>8, <1>9, <1>10, <1>11 DEF LifeInv

\* A new object for a device without one.
LEMMA ConnectNext ==
  ASSUME LifeInv, connect_to_device_internal
  PROVE  LifeInv'
<1>0. /\ TypeOK /\ nan \in [Ids -> {None} \cup Object] /\ instances \in [Devices -> Ids \cup {None}]
      /\ \A k \in Callbacks : cb[k].obj \in Ids \cup {None}
      /\ todo \subseteq Devices
  BY DEF LifeInv, TypeOK
<1>1. /\ UNCHANGED <<plugged, stale, alive, mtx, listed, instances, failed_to_connect, adb, dtor, agent, cb>>
      /\ main.pc = "loop"
  BY DEF connect_to_device_internal
<1>2. mtx = Main /\ dtor.obj = None /\ dtor.pc = "none" /\ main.obj = None /\ mtx \notin Callbacks
  BY <1>1, NotNone DEF LifeInv, OwnersInv, Connecting, Starting, Deleting
<1>3. adb = "none" /\ \A i \in Ids : agent[i].pc \notin {"start", "open"}
  BY <1>1, <1>2 DEF LifeInv, AgentsInv, TypeOK, Starting
<1>4. PICK d \in todo :
        /\ todo' = todo \ {d}
        /\ IF ~IsNew(d) THEN UNCHANGED <<main, nan>>
           ELSE \E i \in Ids : /\ nan[i] = None /\ nan' = [nan EXCEPT ![i] = Nandroid(d)]
                               /\ main' = [pc |-> "push", obj |-> i, letter |-> 1]
  BY Zenon DEF connect_to_device_internal
<1>5. CASE ~IsNew(d)
  BY <1>0, <1>1, <1>2, <1>3, <1>4, <1>5, ScanMoves
  DEF TypeOK, Connecting, Starting, Deleting, MainPc
<1>6. CASE IsNew(d)
  <2>1. PICK i \in Ids : /\ nan[i] = None /\ nan' = [nan EXCEPT ![i] = Nandroid(d)]
                         /\ main' = [pc |-> "push", obj |-> i, letter |-> 1]
    BY <1>4, <1>6
  <2>2. /\ Nandroid(d) \in Object /\ Nandroid(d).device = d /\ Nandroid(d).instance = "none"
        /\ Nandroid(d).agent_ready_notified = FALSE /\ d \in Devices
    BY <1>0, <1>4 DEF Nandroid, Object
  <2>3. /\ nan' \in [Ids -> {None} \cup Object] /\ nan'[i] = Nandroid(d) /\ nan'[i] # None
        /\ \A j \in Ids \ {i} : nan'[j] = nan[j]
    BY <1>0, <2>1, <2>2, NotNone
  <2>4. main'.pc = "push" /\ main'.obj = i /\ main'.letter = 1 /\ i # None
    BY <2>1, NotNone
  <2>5. instances[d] = None
    BY <1>6 DEF IsNew
  <2>6. TypeOK'
    BY <1>0, <1>1, <1>4, <2>1, <2>3, LettersAssumption DEF TypeOK
  <2>7. OwnersInv'
    BY <1>1, <1>2, <2>4 DEF LifeInv, OwnersInv, Connecting, Starting
  <2>8. ObjectsInv'
    BY Zenon, <1>1, <1>2, <2>2, <2>3, <2>4, <2>5 DEF ObjectsInv, Deleting
  <2>9. DrivesInv'
    BY <1>1, <1>2, <2>2, <2>3, <2>4 DEF LifeInv, DrivesInv
  <2>10. CallsInv'
    BY <1>0, <1>1, <1>2, <2>1, <2>3 DEF LifeInv, CallsInv
  <2>11. AgentsInv'
    BY <1>1, <1>3, <2>1, <2>2, <2>3, <2>4 DEF LifeInv, AgentsInv, NoAgent, Starting
  <2>12. OneDrivePerDevice'
    <3>1. \A j \in Ids : nan'[j] # None => instances[nan'[j].device] = j \/ j = i
      BY <1>2, <2>3, NotNone DEF LifeInv, OneDrivePerDevice
    <3>2. \A e \in Devices : instances[e] # None => nan'[instances[e]] # None /\ nan'[instances[e]].device = e
      BY <1>0, <2>1, <2>3 DEF LifeInv, OneDrivePerDevice
    <3> QED
      BY <1>1, <1>2, <2>4, <3>1, <3>2, NotNone DEF OneDrivePerDevice
  <2> QED
    BY <2>6, <2>7, <2>8, <2>9, <2>10, <2>11, <2>12 DEF LifeInv
<1> QED
  BY <1>5, <1>6

LEMMA BeginAdbNext ==
  ASSUME LifeInv, begin_adb
  PROVE  LifeInv'
<1>0. /\ TypeOK /\ nan \in [Ids -> {None} \cup Object] /\ agent \in [Ids -> AgentState]
      /\ SameDrives
  BY DEF LifeInv, TypeOK, begin_adb, SameDrives
<1>1. /\ UNCHANGED <<plugged, stale, alive, mtx, listed, todo, instances, failed_to_connect, nan, cb>>
      /\ main.pc \in Starting /\ main.pc \in Connecting /\ adb' = "none"
  BY DEF begin_adb, Starting, Connecting
<1>2. main.obj \in Ids /\ \A i \in Ids : agent[i].pc \notin {"start", "open"}
  BY <1>1, InBegin DEF Starting
<1>3. CASE Throw(main.obj) /\ UNCHANGED agent
  BY <1>0, <1>1, <1>2, <1>3, ThrowNext
<1>4. CASE /\ Goto(CASE main.pc = "push"    -> "chmod"
                     [] main.pc = "chmod"   -> "forward"
                     [] main.pc = "forward" -> "wait")
           /\ agent' = IF main.pc = "forward" THEN [agent EXCEPT ![main.obj].pc = "start"] ELSE agent
           /\ UNCHANGED dtor
  <2>1. PICK pc \in {"chmod", "forward", "wait"} : Goto(pc) /\ (pc = "wait" <=> main.pc = "forward")
    BY <1>1, <1>4 DEF Starting
  <2>2. /\ main' \in [pc : MainPc, obj : Ids \cup {None}, letter : 1..Letters]
        /\ main'.pc \in {"chmod", "forward", "wait"} /\ main'.obj = main.obj
        /\ main'.pc = "wait" <=> main.pc = "forward"
    BY <1>0, <2>1, GotoEffect DEF MainPc
  <2>3. /\ agent' \in [Ids -> AgentState] /\ \A i \in Ids \ {main.obj} : agent'[i] = agent[i]
        /\ main.pc # "forward" => agent' = agent
    <3>1. [agent[main.obj] EXCEPT !.pc = "start"] \in AgentState
      BY Zenon, <1>0, <1>2 DEF AgentState
    <3>2. \/ agent' = agent
          \/ agent' = [agent EXCEPT ![main.obj] = [agent[main.obj] EXCEPT !.pc = "start"]]
      BY <1>0, <1>2, <1>4 DEF AgentState
    <3> QED
      BY <1>0, <1>2, <1>4, <3>1, <3>2
  <2>4. OwnersInv' /\ ObjectsInv' /\ DrivesInv' /\ CallsInv' /\ OneDrivePerDevice'
    BY <1>0, <1>1, <1>4, <2>2, BeginMoves DEF Connecting, Starting
  <2>5. TypeOK'
    BY <1>1, <1>4, <2>2, <2>3 DEF LifeInv, TypeOK, MainPc
  <2>6. AgentsInv'
    <3>1. agent[main.obj].pc = "none" /\ ~nan[main.obj].agent_ready_notified /\ nan[main.obj] # None
      BY <1>1, InBegin DEF LifeInv, AgentsInv
    <3>2. \A i \in Ids : nan'[i] = None => agent'[i] = NoAgent
      BY <1>1, <2>3, <3>1 DEF LifeInv, AgentsInv
    <3>3. \A i \in Ids : agent'[i].pc \in {"start", "open"} => i = main.obj /\ main.pc = "forward"
      BY <1>2, <2>3
    <3> QED
      BY <1>1, <2>2, <2>3, <3>1, <3>2, <3>3 DEF AgentsInv, Starting
  <2> QED
    BY <2>4, <2>5, <2>6 DEF LifeInv
<1> QED
  BY <1>3, <1>4 DEF begin_adb

LEMMA BeginWaitNext ==
  ASSUME LifeInv, begin_wait
  PROVE  LifeInv'
<1>0. TypeOK /\ nan \in [Ids -> {None} \cup Object]
  BY DEF LifeInv, TypeOK
<1>1. /\ UNCHANGED <<plugged, stale, alive, mtx, listed, todo, instances, failed_to_connect, adb, agent, cb>>
      /\ main.pc = "wait" /\ main.pc \in Connecting /\ main.pc \notin Starting
      /\ nan' = [nan EXCEPT ![main.obj].agent_ready_notified = FALSE]
      /\ nan[main.obj].agent_ready_notified
      /\ (Goto("connect") /\ UNCHANGED dtor) \/ Throw(main.obj)
  BY DEF begin_wait, Starting, Connecting
<1>2. main.obj \in Ids /\ nan[main.obj] # None /\ adb = "none"
  BY <1>1, InBegin
<1>3. \A i \in Ids : agent[i].pc \notin {"start", "open"}
  BY <1>1 DEF LifeInv, AgentsInv
<1>4. /\ nan' \in [Ids -> {None} \cup Object] /\ nan'[main.obj] \in Object
      /\ nan'[main.obj].device = nan[main.obj].device
      /\ nan'[main.obj].instance = nan[main.obj].instance
      /\ nan'[main.obj].connection = nan[main.obj].connection
      /\ \A j \in Ids \ {main.obj} : nan'[j] = nan[j]
  <2>1. FlagsSet(nan, main.obj, nan')
    BY <1>1, Zenon DEF FlagsSet
  <2> QED
    BY <1>0, <1>2, <2>1, SetFlags
<1>5. SameDrives
  BY <1>2, <1>4, NotNone DEF SameDrives
<1>6. CASE Throw(main.obj)
  BY <1>1, <1>2, <1>3, <1>4, <1>5, <1>6, ThrowNext
<1>7. CASE Goto("connect") /\ UNCHANGED dtor
  <2>1. /\ main' \in [pc : MainPc, obj : Ids \cup {None}, letter : 1..Letters]
        /\ main'.pc = "connect" /\ main'.obj = main.obj
    BY <1>0, <1>7, GotoEffect DEF MainPc
  <2>2. OwnersInv' /\ ObjectsInv' /\ DrivesInv' /\ CallsInv' /\ OneDrivePerDevice'
    BY <1>1, <1>5, <1>7, <2>1, BeginMoves DEF Connecting
  <2>3. TypeOK'
    BY <1>1, <1>4, <1>7, <2>1 DEF LifeInv, TypeOK, MainPc
  <2>4. AgentsInv'
    BY <1>1, <1>2, <1>3, <1>5, <2>1 DEF LifeInv, AgentsInv, SameDrives, Starting
  <2> QED
    BY <2>2, <2>3, <2>4 DEF LifeInv
<1> QED
  BY <1>1, <1>6, <1>7

LEMMA BeginConnectNext ==
  ASSUME LifeInv, begin_connect
  PROVE  LifeInv'
<1>0. TypeOK /\ nan \in [Ids -> {None} \cup Object] /\ agent \in [Ids -> AgentState] /\ stale \subseteq Devices
  BY DEF LifeInv, TypeOK
<1>1. /\ UNCHANGED <<plugged, alive, mtx, listed, todo, instances, failed_to_connect, adb, cb>>
      /\ main.pc = "connect" /\ main.pc \in Connecting /\ main.pc \notin Starting
  BY DEF begin_connect, Starting, Connecting
<1>2. /\ main.obj \in Ids /\ nan[main.obj] # None /\ adb = "none"
      /\ \A i \in Ids : agent[i].pc \notin {"start", "open"}
  BY <1>1, InBegin
<1>3. CASE Throw(main.obj) /\ UNCHANGED <<nan, agent, stale>>
  BY <1>0, <1>1, <1>2, <1>3, ThrowNext DEF SameDrives
<1>4. ASSUME NEW c \in {"own", "stale"}, nan' = [nan EXCEPT ![main.obj].connection = c],
             Goto("mount"), UNCHANGED dtor, stale' \subseteq Devices,
             \/ UNCHANGED agent
             \/ agent' = [agent EXCEPT ![main.obj].daemon = "serving"]
      PROVE  LifeInv'
  <2>1. /\ main' \in [pc : MainPc, obj : Ids \cup {None}, letter : 1..Letters]
        /\ main'.pc = "mount" /\ main'.obj = main.obj
    BY <1>0, <1>4, GotoEffect DEF MainPc
  <2>2. /\ nan' \in [Ids -> {None} \cup Object] /\ nan'[main.obj] \in Object
        /\ nan'[main.obj].connection = c /\ nan'[main.obj].device = nan[main.obj].device
        /\ nan'[main.obj].instance = nan[main.obj].instance
        /\ \A j \in Ids \ {main.obj} : nan'[j] = nan[j]
    <3>1. c \in {"none", "own", "stale", "broken"}
      OBVIOUS
    <3> QED
      BY <1>0, <1>2, <1>4, <3>1, SetConnection
  <2>3. SameDrives
    BY <1>2, <2>2, NotNone DEF SameDrives
  <2>4. OwnersInv' /\ ObjectsInv' /\ DrivesInv' /\ CallsInv' /\ OneDrivePerDevice'
    BY <1>1, <1>4, <2>1, <2>2, <2>3, BeginMoves DEF Connecting
  <2>5. /\ agent' \in [Ids -> AgentState] /\ agent'[main.obj].pc = agent[main.obj].pc
        /\ \A i \in Ids \ {main.obj} : agent'[i] = agent[i]
    <3> DEFINE a == [agent[main.obj] EXCEPT !.daemon = "serving"]
    <3>1. a \in AgentState /\ a.pc = agent[main.obj].pc
      BY Zenon, <1>0, <1>2 DEF AgentState
    <3>2. agent' = agent \/ agent' = [agent EXCEPT ![main.obj] = a]
      BY <1>0, <1>2, <1>4 DEF AgentState
    <3> HIDE DEF a
    <3>3. CASE agent' = [agent EXCEPT ![main.obj] = a]
      BY <1>0, <1>2, <3>1, <3>3, SetAgent
    <3> QED
      BY <1>0, <3>2, <3>3
  <2>6. TypeOK'
    BY <1>1, <1>4, <2>1, <2>2, <2>5 DEF LifeInv, TypeOK, MainPc
  <2>7. AgentsInv'
    <3>1. \A i \in Ids : agent'[i].pc \notin {"start", "open"}
      BY <1>2, <2>5
    <3>2. \A i \in Ids : nan'[i] = None => agent'[i] = NoAgent
      BY <1>2, <2>2, <2>5, NotNone DEF LifeInv, AgentsInv
    <3> QED
      BY <1>1, <1>2, <2>1, <3>1, <3>2 DEF AgentsInv, Starting
  <2> QED
    BY <2>4, <2>6, <2>7 DEF LifeInv
<1>5. CASE /\ nan' = [nan EXCEPT ![main.obj].connection = "stale"]
           /\ stale' = stale \ {nan[main.obj].device}
           /\ Goto("mount") /\ UNCHANGED <<dtor, agent>>
  BY <1>0, <1>4, <1>5
<1>6. CASE /\ nan' = [nan EXCEPT ![main.obj].connection = "own"]
           /\ agent' = [agent EXCEPT ![main.obj].daemon = "serving"]
           /\ Goto("mount") /\ UNCHANGED <<dtor, stale>>
  BY <1>0, <1>4, <1>6
<1> QED
  BY <1>3, <1>5, <1>6 DEF begin_connect

LEMMA MountNext ==
  ASSUME LifeInv, mount_filesystem
  PROVE  LifeInv'
<1>0. /\ TypeOK /\ nan \in [Ids -> {None} \cup Object] /\ instances \in [Devices -> Ids \cup {None}]
      /\ \A k \in Callbacks : cb[k].obj \in Ids \cup {None}
  BY DEF LifeInv, TypeOK
<1>1. /\ UNCHANGED <<plugged, stale, alive, mtx, listed, todo, failed_to_connect, adb, agent, cb>>
      /\ main.pc = "mount" /\ main.pc \in Connecting /\ main.pc \notin Starting
  BY DEF mount_filesystem, Starting, Connecting
<1> DEFINE i == main.obj
<1>2. /\ i \in Ids /\ nan[i] # None /\ adb = "none" /\ mtx = Main /\ mtx \notin Callbacks
      /\ nan[i].device \in Devices /\ instances[nan[i].device] = None
      /\ dtor.obj = None /\ dtor.pc = "none"
      /\ \A j \in Ids : agent[j].pc \notin {"start", "open"}
  BY <1>1, InBegin
<1>3. CASE Throw(main.obj) /\ UNCHANGED <<nan, instances>>
  BY <1>0, <1>1, <1>2, <1>3, ThrowNext DEF SameDrives
<1>4. CASE NextLetter /\ UNCHANGED <<nan, instances, dtor>>
  <2>1. /\ main' \in [pc : MainPc, obj : Ids \cup {None}, letter : 1..Letters]
        /\ main'.pc = "mount" /\ main'.obj = main.obj
    BY <1>0, <1>1, <1>4, LettersAssumption DEF NextLetter, TypeOK, MainPc
  <2>2. OwnersInv' /\ ObjectsInv' /\ DrivesInv' /\ CallsInv' /\ OneDrivePerDevice'
    BY <1>1, <1>4, <2>1, BeginMoves DEF Connecting, SameDrives, LifeInv, DrivesInv
  <2>3. TypeOK'
    BY <1>1, <1>4, <2>1 DEF LifeInv, TypeOK, MainPc
  <2>4. AgentsInv'
    BY <1>1, <1>2, <1>4, <2>1 DEF LifeInv, AgentsInv, Starting
  <2> QED
    BY <2>2, <2>3, <2>4 DEF LifeInv
<1>5. CASE /\ nan' = [nan EXCEPT ![i].instance = "mounted"]
           /\ instances' = [instances EXCEPT ![nan[i].device] = i]
           /\ main' = [pc |-> "loop", obj |-> None, letter |-> 1]
           /\ UNCHANGED dtor
  <2> HIDE DEF i
  <2>1. main'.pc = "loop" /\ main'.obj = None
    BY <1>5
  <2>2. /\ nan' \in [Ids -> {None} \cup Object] /\ nan'[i] \in Object /\ nan'[i] # None
        /\ nan'[i].instance = "mounted" /\ nan'[i].device = nan[i].device
        /\ nan'[i].connection = nan[i].connection
        /\ \A j \in Ids \ {i} : nan'[j] = nan[j]
    BY <1>0, <1>2, <1>5, SetInstance, NotNone
  <2>3. /\ instances' \in [Devices -> Ids \cup {None}] /\ instances'[nan[i].device] = i
        /\ \A d \in Devices \ {nan[i].device} : instances'[d] = instances[d]
    BY <1>0, <1>2, <1>5
  <2>4. TypeOK'
    BY <1>0, <1>1, <1>5, <2>2, <2>3, LettersAssumption DEF TypeOK
  <2>5. OwnersInv'
    BY <1>1, <1>2, <1>5, <2>1 DEF LifeInv, OwnersInv, Connecting, Starting
  <2>6. ObjectsInv'
    BY <1>1, <1>2, <1>5, <2>1 DEF ObjectsInv, Deleting
  <2>7. DrivesInv'
    <3>1. nan[i].connection # "none"
      BY <1>1 DEF LifeInv, DrivesInv, i
    <3> QED
      BY <1>2, <1>5, <2>1, <2>2, <3>1 DEF LifeInv, DrivesInv
  <2>8. CallsInv'
    BY <1>0, <1>1, <1>2, <1>5, <2>2 DEF LifeInv, CallsInv
  <2>9. AgentsInv'
    BY <1>1, <1>2, <2>1, <2>2 DEF LifeInv, AgentsInv, Starting
  <2>10. OneDrivePerDevice'
    <3>1. \A j \in Ids : nan[j] # None => nan[j].device \in Devices
      BY <1>0, ObjectTyped
    <3>2. \A j \in Ids \ {i} : nan[j] # None => instances[nan[j].device] = j
      BY <1>2, NotNone DEF LifeInv, OneDrivePerDevice, i
    <3>3. \A j \in Ids : nan'[j] # None => instances'[nan'[j].device] = j
      BY <1>2, <2>2, <2>3, <3>1, <3>2, NotNone
    <3>4. \A d \in Devices : instances'[d] # None =>
            nan'[instances'[d]] # None /\ nan'[instances'[d]].device = d
      <4>1. \A d \in Devices \ {nan[i].device} : instances[d] # i
        BY <1>2, NotNone DEF LifeInv, OneDrivePerDevice
      <4> QED
        BY <1>0, <1>2, <2>2, <2>3, <4>1 DEF LifeInv, OneDrivePerDevice
    <3> QED
      BY <3>3, <3>4 DEF OneDrivePerDevice
  <2> QED
    BY <2>4, <2>5, <2>6, <2>7, <2>8, <2>9, <2>10 DEF LifeInv
<1> QED
  BY <1>3, <1>4, <1>5 DEF mount_filesystem

\* The main thread deletes a drive that instances has.
LEMMA UpdateDeleteNext ==
  ASSUME LifeInv, update_delete
  PROVE  LifeInv'
<1>0. /\ TypeOK /\ instances \in [Devices -> Ids \cup {None}] /\ todo \subseteq Devices
  BY DEF LifeInv, TypeOK
<1>1. /\ UNCHANGED <<plugged, stale, alive, mtx, main, listed, instances, failed_to_connect, adb, nan,
                     agent, cb>>
      /\ main.pc \in Deleting /\ dtor.pc = "none" /\ dtor.obj = None
  BY DEF update_delete, NoDtor, Deleting
<1>2. PICK d \in todo : todo' = todo \ {d} /\ Delete(instances[d])
  BY DEF update_delete
<1> DEFINE i == instances[d]
<1>3. i \in Ids /\ i # None /\ nan[i] # None /\ nan[i].device = d /\ d \in Devices
  BY <1>0, <1>1, <1>2 DEF LifeInv, ObjectsInv, OneDrivePerDevice
<1>4. dtor' \in [pc : DtorPc, obj : Ids \cup {None}] /\ dtor'.pc = "close" /\ dtor'.obj = i
  BY <1>2, <1>3, DeleteEffect
<1>5. mtx = Main /\ mtx # None /\ mtx \notin Callbacks /\ main.obj = None
  BY Zenon, <1>1, NotNone DEF LifeInv, OwnersInv, Deleting, Connecting, Starting
<1> HIDE DEF i
<1>6. TypeOK'
  BY <1>0, <1>1, <1>2, <1>4 DEF TypeOK, DtorPc
<1>7. OwnersInv'
  BY Zenon, <1>1, <1>3, <1>4, <1>5 DEF LifeInv, OwnersInv, Deleting
<1>8. ObjectsInv'
  BY Zenon, <1>1, <1>2, <1>3, <1>4, <1>5 DEF LifeInv, ObjectsInv, i
<1>9. DrivesInv'
  BY Zenon, <1>1, <1>4 DEF LifeInv, DrivesInv
<1>10. CallsInv'
  BY Zenon, <1>1, <1>5 DEF LifeInv, CallsInv
<1>11. AgentsInv'
  BY Zenon, <1>1, <1>4 DEF LifeInv, AgentsInv
<1>12. OneDrivePerDevice'
  <2>1. \A j \in Ids : nan[j] # None => instances[nan[j].device] = j
    BY <1>1, <1>5, NotNone DEF LifeInv, OneDrivePerDevice
  <2> QED
    BY <1>1, <2>1 DEF LifeInv, OneDrivePerDevice
<1> QED
  BY <1>6, <1>7, <1>8, <1>9, <1>10, <1>11, <1>12 DEF LifeInv

-----------------------------------------------------------------------------
(* The destructor.                                                         *)

\* What holds whenever a destructor runs.
LEMMA InDestructor ==
  ASSUME LifeInv, dtor.pc # "none"
  PROVE  /\ mtx # None /\ dtor.obj \in Ids /\ nan[dtor.obj] # None /\ nan[dtor.obj] \in Object
         /\ nan[dtor.obj].device \in Devices
         /\ main.pc \notin Connecting /\ main.obj \in {None, dtor.obj}
         /\ mtx = Main => main.pc \in Deleting \cup {"throw"}
         /\ mtx # Main => mtx \in Callbacks /\ main.obj = None
         /\ \A i \in Ids : agent[i].pc \notin {"start", "open"}
<1>1. mtx # None /\ dtor.obj \in Ids /\ nan[dtor.obj] # None /\ dtor.obj # None
  BY DEF LifeInv, OwnersInv, ObjectsInv, TypeOK
<1>2. main.pc \notin Connecting
  BY <1>1, InBegin
<1>3. main.obj \in {None, dtor.obj}
  BY <1>2 DEF LifeInv, OwnersInv
<1>4. mtx = Main => main.pc \in Deleting \cup {"throw"}
  BY <1>1 DEF LifeInv, OwnersInv
<1>5. mtx # Main => mtx \in Callbacks /\ main.obj = None
  BY <1>1 DEF LifeInv, OwnersInv, TypeOK, Connecting, Starting
<1>6. \A i \in Ids : agent[i].pc \notin {"start", "open"}
  BY <1>2 DEF LifeInv, AgentsInv, Connecting
<1>7. nan[dtor.obj] \in Object /\ nan[dtor.obj].device \in Devices
  BY <1>1, ObjectTyped DEF LifeInv
<1> QED
  BY <1>1, <1>2, <1>3, <1>4, <1>5, <1>6, <1>7

\* The destructor goes on; Dokan is done with the drive, or closes it.
TearsDown ==
  /\ UNCHANGED <<plugged, alive, tracker, cb>> /\ stale' \subseteq Devices
  /\ dtor' \in [pc : DtorPc, obj : Ids \cup {None}] /\ dtor'.obj = dtor.obj
  /\ dtor'.pc \in {"closing", "conn", "wait", "pkill", "join"}
  /\ nan' \in [Ids -> {None} \cup Object] /\ nan'[dtor.obj] \in Object
  /\ nan'[dtor.obj].device = nan[dtor.obj].device
  /\ \A j \in Ids \ {dtor.obj} : nan'[j] = nan[j]
  /\ IF dtor'.pc = "closing"
     THEN /\ nan'[dtor.obj].instance = "closing" /\ nan'[dtor.obj].connection # "none"
          /\ nan[dtor.obj].instance # "none"
     ELSE /\ nan'[dtor.obj].instance = "none"
          /\ \A k \in Callbacks \ {mtx} : cb[k].obj # dtor.obj
  /\ agent' \in [Ids -> AgentState] /\ \A j \in Ids \ {dtor.obj} : agent'[j] = agent[j]
  /\ agent'[dtor.obj].pc = agent[dtor.obj].pc
  /\ adb' = "none" \/ (adb' = adb /\ dtor.pc # "pkill")

LEMMA DtorMoves ==
  ASSUME LifeInv, dtor.pc # "none", TearsDown
  PROVE  LifeInv'
<1>0. /\ mtx' = mtx /\ main' = main /\ listed' = listed /\ todo' = todo /\ instances' = instances
      /\ failed_to_connect' = failed_to_connect /\ cb' = cb /\ plugged' = plugged /\ alive' = alive
      /\ stale' \subseteq Devices
  BY DEF TearsDown, tracker
<1>1. PICK i \in Ids : /\ i = dtor.obj /\ mtx # None /\ nan[i] # None /\ main.pc \notin Connecting
                       /\ main.obj \in {None, i} /\ \A j \in Ids : agent[j].pc \notin {"start", "open"}
  BY InDestructor
<1>2. /\ dtor' \in [pc : DtorPc, obj : Ids \cup {None}] /\ dtor'.obj = i
      /\ dtor'.pc \in {"closing", "conn", "wait", "pkill", "join"}
  BY Zenon, <1>1 DEF TearsDown
<1>3. /\ nan' \in [Ids -> {None} \cup Object] /\ nan'[i] # None /\ i # None
      /\ nan'[i].device = nan[i].device /\ \A j \in Ids \ {i} : nan'[j] = nan[j]
  <2>1. nan'[i] \in Object
    BY Zenon, <1>1 DEF TearsDown
  <2> QED
    BY Zenon, <1>1, <2>1, NotNone DEF TearsDown
<1>4. IF dtor'.pc = "closing"
      THEN nan'[i].instance = "closing" /\ nan'[i].connection # "none" /\ nan[i].instance # "none"
      ELSE nan'[i].instance = "none" /\ \A k \in Callbacks \ {mtx} : cb[k].obj # i
  BY Zenon, <1>1 DEF TearsDown
<1>5. /\ agent' \in [Ids -> AgentState] /\ \A j \in Ids \ {i} : agent'[j] = agent[j]
      /\ agent'[i].pc = agent[i].pc /\ (adb' = "none" \/ (adb' = adb /\ dtor.pc # "pkill"))
  BY Zenon, <1>1 DEF TearsDown
<1>6. TypeOK'
  <2>1. mtx \in Callbacks \cup {Main, None}
    BY DEF LifeInv, TypeOK
  <2> QED
    BY <1>0, <1>2, <1>3, <1>5 DEF LifeInv, TypeOK, DtorPc
<1>7. OwnersInv'
  BY <1>0, <1>1, <1>2, <1>3 DEF LifeInv, OwnersInv
<1>8. ObjectsInv'
  <2>1. main.obj # None => nan[i].instance = "none" /\ main.obj = i /\ instances[nan[i].device] = None
    BY <1>1 DEF LifeInv, ObjectsInv
  <2>2. main.obj # None => nan'[i].instance = "none"
    BY <1>4, <2>1
  <2>3. /\ mtx \in Callbacks => instances[nan[i].device] = None
        /\ main.pc \in Deleting =>
             /\ \A d \in todo : instances[d] # None
             /\ instances[nan[i].device] = i /\ nan[i].device \notin todo
    BY Zenon, <1>1, <1>3 DEF LifeInv, ObjectsInv
  <2> QED
    BY Zenon, <1>0, <1>2, <1>3, <2>1, <2>2, <2>3 DEF ObjectsInv
<1>9. DrivesInv'
  <2>1. ASSUME NEW j \in Ids, nan'[j] # None, nan'[j].instance # "none" PROVE nan'[j].connection # "none"
    <3>1. CASE j = i
      BY <1>4, <2>1, <3>1
    <3>2. CASE j # i
      BY Zenon, <1>3, <2>1, <3>2 DEF LifeInv, DrivesInv
    <3> QED
      BY <3>1, <3>2
  <2>2. ASSUME NEW j \in Ids, nan'[j] # None, nan'[j].instance = "closing"
        PROVE  dtor'.obj = j /\ dtor'.pc = "closing"
    <3>1. CASE j = i
      BY <1>2, <1>4, <2>2, <3>1
    <3>2. CASE j # i
      BY Zenon, <1>1, <1>3, <2>2, <3>2 DEF LifeInv, DrivesInv
    <3> QED
      BY <3>1, <3>2
  <2>3. /\ dtor'.pc = "closing" => nan'[dtor'.obj].instance = "closing"
        /\ dtor'.pc \in {"conn", "wait", "pkill", "join"} => nan'[dtor'.obj].instance = "none"
    BY <1>2, <1>4
  <2>4. main'.pc # "mount"
    BY <1>0, <1>1 DEF Connecting
  <2> QED
    BY Zenon, <2>1, <2>2, <2>3, <2>4 DEF DrivesInv
<1>10. CallsInv'
  <2>1. ASSUME NEW k \in Callbacks
        PROVE  /\ cb[k].obj # None <=> cb[k].pc # "idle"
               /\ cb[k].obj # None =>
                    /\ nan'[cb[k].obj] # None
                    /\ nan'[cb[k].obj].instance # "none" \/ (mtx = k /\ i = cb[k].obj)
    <3>1. /\ cb[k].obj # None <=> cb[k].pc # "idle" /\ cb[k].obj \in Ids \cup {None}
      BY DEF LifeInv, CallsInv, TypeOK
    <3>2. CASE cb[k].obj = i
      BY <1>3, <1>4, <3>1, <3>2
    <3>3. CASE cb[k].obj # i
      <4>1. cb[k].obj # None => nan[cb[k].obj] # None /\ nan[cb[k].obj].instance # "none"
        BY Zenon, <1>1, <3>3 DEF LifeInv, CallsInv
      <4> QED
        BY <1>3, <3>1, <3>3, <4>1
    <3> QED
      BY <3>2, <3>3
  <2> QED
    BY Zenon, <1>0, <1>2, <2>1 DEF CallsInv
<1>11. AgentsInv'
  <2>1. \A j \in Ids : agent'[j].pc \notin {"start", "open"}
    BY <1>1, <1>5
  <2>2. \A j \in Ids : nan'[j] = None => agent'[j] = NoAgent
    BY <1>3, <1>5 DEF LifeInv, AgentsInv
  <2>3. adb' = "open" => main.pc \in Starting \cup {"list"}
    BY Zenon, <1>5 DEF LifeInv, AgentsInv
  <2> QED
    BY <1>0, <1>1, <2>1, <2>2, <2>3 DEF AgentsInv, Connecting
<1>12. OneDrivePerDevice'
  <2>1. ASSUME NEW j \in Ids, nan'[j] # None
        PROVE  instances[nan'[j].device] = j \/ (mtx # None /\ j \in {main.obj, i})
    <3>1. CASE j = i
      BY <1>1, <3>1
    <3>2. CASE j # i
      BY Zenon, <1>1, <1>3, <2>1, <3>2 DEF LifeInv, OneDrivePerDevice
    <3> QED
      BY <3>1, <3>2
  <2>2. ASSUME NEW d \in Devices, instances[d] # None
        PROVE  nan'[instances[d]] # None /\ nan'[instances[d]].device = d
    <3>1. instances[d] \in Ids /\ nan[instances[d]] # None /\ nan[instances[d]].device = d
      BY <2>2 DEF LifeInv, TypeOK, OneDrivePerDevice
    <3> QED
      BY <1>3, <3>1
  <2> QED
    BY Zenon, <1>0, <1>2, <2>1, <2>2 DEF OneDrivePerDevice
<1> QED
  BY Zenon, <1>6, <1>7, <1>8, <1>9, <1>10, <1>11, <1>12 DEF LifeInv

LEMMA DestructorNext ==
  ASSUME LifeInv, DokanCloseHandle \/ delete_connection \/ wait_for_agent_dead \/ pkill
  PROVE  LifeInv'
<1> DEFINE i == dtor.obj
<1>0. TypeOK /\ nan \in [Ids -> {None} \cup Object] /\ agent \in [Ids -> AgentState] /\ stale \subseteq Devices
  BY DEF LifeInv, TypeOK
<1>1. UNCHANGED <<plugged, alive, tracker, cb>> /\ dtor.pc # "none"
  BY DEF DokanCloseHandle, delete_connection, wait_for_agent_dead, pkill
<1>2. i \in Ids /\ nan[i] # None /\ nan[i] \in Object
  BY Zenon, <1>1, InDestructor
<1>3. nan[i].instance = "none" => \A k \in Callbacks \ {mtx} : cb[k].obj # i
  BY <1>2, NotNone DEF LifeInv, CallsInv
<1>4. dtor.pc \in {"conn", "wait", "pkill", "join"} => nan[i].instance = "none"
  BY DEF LifeInv, DrivesInv
<1>5. CASE DokanCloseHandle
  <2>1. UNCHANGED <<stale, adb, agent>> /\ dtor.pc # "pkill"
    BY <1>5 DEF DokanCloseHandle
  <2>2. CASE /\ dtor.pc = "close" /\ nan[i].instance = "mounted"
             /\ nan' = [nan EXCEPT ![i].instance = "closing"] /\ Dtor("closing")
    <3>1. dtor' \in [pc : DtorPc, obj : Ids \cup {None}] /\ dtor'.pc = "closing" /\ dtor'.obj = dtor.obj
      BY <1>0, <2>2, DtorEffect DEF DtorPc
    <3>2. /\ nan' \in [Ids -> {None} \cup Object] /\ nan'[i] \in Object /\ nan'[i].instance = "closing"
          /\ nan'[i].device = nan[i].device /\ nan'[i].connection = nan[i].connection
          /\ \A j \in Ids \ {i} : nan'[j] = nan[j]
      BY <1>0, <1>2, <2>2, SetInstance
    <3>3. nan[i].connection # "none"
      BY <1>2, <2>2 DEF LifeInv, DrivesInv
    <3> QED
      BY <1>0, <1>1, <2>1, <2>2, <3>1, <3>2, <3>3, DtorMoves DEF TearsDown
  <2>3. CASE /\ dtor.pc = "close" /\ nan[i].instance = "none"
             /\ Dtor("conn") /\ UNCHANGED nan
    <3>1. dtor' \in [pc : DtorPc, obj : Ids \cup {None}] /\ dtor'.pc = "conn" /\ dtor'.obj = dtor.obj
      BY <1>0, <2>3, DtorEffect DEF DtorPc
    <3> QED
      BY <1>0, <1>1, <1>2, <1>3, <2>1, <2>3, <3>1, DtorMoves DEF TearsDown
  <2>4. CASE /\ dtor.pc = "closing" /\ Others(i) = {}
             /\ nan' = [nan EXCEPT ![i].instance = "none"] /\ Dtor("conn")
    <3>1. dtor' \in [pc : DtorPc, obj : Ids \cup {None}] /\ dtor'.pc = "conn" /\ dtor'.obj = dtor.obj
      BY <1>0, <2>4, DtorEffect DEF DtorPc
    <3>2. /\ nan' \in [Ids -> {None} \cup Object] /\ nan'[i] \in Object /\ nan'[i].instance = "none"
          /\ nan'[i].device = nan[i].device /\ nan'[i].connection = nan[i].connection
          /\ \A j \in Ids \ {i} : nan'[j] = nan[j]
      BY <1>0, <1>2, <2>4, SetInstance
    <3>3. \A k \in Callbacks \ {mtx} : cb[k].obj # i
      BY <2>4 DEF Others
    <3> QED
      BY <1>0, <1>1, <2>1, <3>1, <3>2, <3>3, DtorMoves DEF TearsDown
  <2> QED
    BY <1>5, <2>2, <2>3, <2>4 DEF DokanCloseHandle
<1>6. CASE delete_connection
  <2>1. /\ UNCHANGED <<stale, adb, agent>> /\ dtor.pc = "conn" /\ Dtor("wait")
        /\ nan' = [nan EXCEPT ![i].connection = "none"]
    BY <1>6 DEF delete_connection
  <2>2. dtor' \in [pc : DtorPc, obj : Ids \cup {None}] /\ dtor'.pc = "wait" /\ dtor'.obj = dtor.obj
    BY <1>0, <2>1, DtorEffect DEF DtorPc
  <2>3. /\ nan' \in [Ids -> {None} \cup Object] /\ nan'[i] \in Object
        /\ nan'[i].device = nan[i].device /\ nan'[i].instance = nan[i].instance
        /\ \A j \in Ids \ {i} : nan'[j] = nan[j]
    <3> DEFINE c == "none"
    <3>1. nan' = [nan EXCEPT ![i].connection = c] /\ c \in {"none", "own", "stale", "broken"}
      BY <2>1
    <3> HIDE DEF c
    <3> QED
      BY <1>0, <1>2, <3>1, SetConnection
  <2> QED
    BY <1>0, <1>1, <1>3, <1>4, <2>1, <2>2, <2>3, DtorMoves DEF TearsDown
<1>7. CASE wait_for_agent_dead
  <2>1. UNCHANGED <<stale, adb, agent, nan>> /\ dtor.pc = "wait" /\ \E pc \in {"join", "pkill"} : Dtor(pc)
    BY <1>7 DEF wait_for_agent_dead
  <2>2. /\ dtor' \in [pc : DtorPc, obj : Ids \cup {None}] /\ dtor'.pc \in {"join", "pkill"}
        /\ dtor'.obj = dtor.obj
    BY <1>0, <2>1, DtorEffect DEF DtorPc
  <2> QED
    BY <1>0, <1>1, <1>2, <1>3, <1>4, <2>1, <2>2, DtorMoves DEF TearsDown
<1>8. CASE pkill
  <2>1. /\ dtor.pc = "pkill" /\ Dtor("join") /\ adb' = "none" /\ UNCHANGED nan
        /\ stale' \subseteq Devices
        /\ \/ UNCHANGED agent
           \/ agent' = [agent EXCEPT ![i].daemon = "exited"]
           \/ agent' = [agent EXCEPT ![i].daemon = agent[i].daemon]
    BY <1>0, <1>8 DEF pkill
  <2>2. dtor' \in [pc : DtorPc, obj : Ids \cup {None}] /\ dtor'.pc = "join" /\ dtor'.obj = dtor.obj
    BY <1>0, <2>1, DtorEffect DEF DtorPc
  <2>3. /\ agent' \in [Ids -> AgentState] /\ agent'[i].pc = agent[i].pc
        /\ \A j \in Ids \ {i} : agent'[j] = agent[j]
    <3> DEFINE a == [agent[i] EXCEPT !.daemon = "exited"]
    <3>1. a \in AgentState /\ a.pc = agent[i].pc
      BY Zenon, <1>0, <1>2 DEF AgentState
    <3>2. [agent EXCEPT ![i].daemon = "exited"] = [agent EXCEPT ![i] = a]
      BY <1>0, <1>2 DEF AgentState
    <3>3. [agent EXCEPT ![i].daemon = agent[i].daemon] = agent
      <4>1. [agent[i] EXCEPT !.daemon = agent[i].daemon] = agent[i]
        BY Zenon, <1>0, <1>2 DEF AgentState
      <4>2. [agent EXCEPT ![i].daemon = agent[i].daemon]
              = [agent EXCEPT ![i] = [agent[i] EXCEPT !.daemon = agent[i].daemon]]
        BY <1>0, <1>2 DEF AgentState
      <4> QED
        BY <1>0, <1>2, <4>1, <4>2
    <3>4. agent' = agent \/ agent' = [agent EXCEPT ![i] = a]
      BY <2>1, <3>2, <3>3, Zenon
    <3> HIDE DEF a
    <3>5. CASE agent' = [agent EXCEPT ![i] = a]
      BY <1>0, <1>2, <3>1, <3>5, SetAgent
    <3> QED
      BY <1>0, <3>4, <3>5
  <2> QED
    BY <1>0, <1>1, <1>2, <1>3, <1>4, <2>1, <2>2, <2>3, DtorMoves DEF TearsDown
<1> QED
  BY <1>5, <1>6, <1>7, <1>8

\* The object goes with its entry in instances, and nothing refers to it any more.
LEMMA FreedNext ==
  ASSUME LifeInv, dtor.pc = "join", Freed, UNCHANGED <<plugged, stale, alive, listed, todo, adb>>
  PROVE  LifeInv'
<1> DEFINE i == dtor.obj
           d == nan[i].device
<1>0. /\ TypeOK /\ instances \in [Devices -> Ids \cup {None}] /\ nan \in [Ids -> {None} \cup Object]
      /\ agent \in [Ids -> AgentState] /\ cb \in [Callbacks -> [pc : {"idle", "inside", "unmount"}, obj : Ids \cup {None}]]
  BY DEF LifeInv, TypeOK
<1>1. /\ mtx # None /\ i \in Ids /\ nan[i] # None /\ d \in Devices
      /\ main.pc \notin Connecting /\ main.obj \in {None, i}
      /\ mtx = Main => main.pc \in Deleting \cup {"throw"}
      /\ mtx # Main => mtx \in Callbacks /\ main.obj = None
      /\ \A j \in Ids : agent[j].pc \notin {"start", "open"}
  BY InDestructor
<1>2. /\ nan' = [nan EXCEPT ![i] = None] /\ agent' = [agent EXCEPT ![i] = NoAgent] /\ dtor' = NoDtor
      /\ \/ /\ mtx # Main /\ mtx' = None /\ cb' = [cb EXCEPT ![mtx] = NoCall]
            /\ UNCHANGED <<main, instances, failed_to_connect>>
         \/ /\ mtx = Main /\ main.pc = "throw"
            /\ failed_to_connect' = failed_to_connect \cup {d}
            /\ main' = [pc |-> "loop", obj |-> None, letter |-> 1]
            /\ UNCHANGED <<mtx, cb, instances>>
         \/ /\ mtx = Main /\ main.pc # "throw"
            /\ instances' = [instances EXCEPT ![d] = None]
            /\ UNCHANGED <<mtx, cb, main, failed_to_connect>>
  BY DEF Freed
<1>3. nan[i].instance = "none" /\ \A j \in Ids : nan[j] # None => nan[j].instance # "closing"
  BY <1>1 DEF LifeInv, DrivesInv
<1>4. \A k \in Callbacks : k # mtx => cb[k].obj # i
  BY <1>1, <1>3, NotNone DEF LifeInv, CallsInv
<1>5. /\ nan' \in [Ids -> {None} \cup Object] /\ nan'[i] = None /\ agent'[i] = NoAgent
      /\ agent' \in [Ids -> AgentState]
      /\ \A j \in Ids \ {i} : nan'[j] = nan[j] /\ agent'[j] = agent[j]
  <2>1. NoAgent \in AgentState
    BY NoAgentTyped
  <2> QED
    BY <1>0, <1>1, <1>2, <2>1, SetAgent
<1>6. dtor'.pc = "none" /\ dtor'.obj = None /\ dtor' \in [pc : DtorPc, obj : Ids \cup {None}]
  BY Zenon, <1>2 DEF NoDtor, DtorPc
<1>7. /\ cb' \in [Callbacks -> [pc : {"idle", "inside", "unmount"}, obj : Ids \cup {None}]]
      /\ \A k \in Callbacks : cb'[k] = NoCall \/ (cb'[k] = cb[k] /\ cb[k].obj # i)
  <2>1. CASE mtx # Main
    <3>1. mtx \in Callbacks /\ cb' = [cb EXCEPT ![mtx] = NoCall]
      BY <1>1, <1>2, <2>1
    <3>2. NoCall \in [pc : {"idle", "inside", "unmount"}, obj : Ids \cup {None}]
      BY DEF NoCall
    <3> HIDE DEF i
    <3> QED
      BY <1>0, <1>4, <3>1, <3>2
  <2>2. CASE mtx = Main
    BY Zenon, <1>0, <1>2, <1>4, <2>2, NotNone
  <2> QED
    BY <2>1, <2>2
<1>8. /\ instances' \in [Devices -> Ids \cup {None}]
      /\ \A e \in Devices : instances'[e] = IF instances[e] = i THEN None ELSE instances[e]
  <2>1. \A e \in Devices : instances[e] = i => e = d
    BY <1>1, NotNone DEF LifeInv, OneDrivePerDevice
  <2>2. CASE mtx # Main
    <3>1. instances[d] = None
      BY Zenon, <1>1, <2>2 DEF LifeInv, ObjectsInv
    <3> QED
      BY Zenon, <1>0, <1>1, <1>2, <2>1, <2>2, <3>1, NotNone
  <2>3. CASE mtx = Main /\ main.pc = "throw"
    <3>1. instances[d] = None
      BY Zenon, <1>1, <2>3, NotNone DEF LifeInv, ObjectsInv, OwnersInv
    <3> QED
      BY <1>0, <1>1, <1>2, <2>1, <2>3, <3>1, NotNone
  <2>4. CASE mtx = Main /\ main.pc # "throw"
    <3>1. instances[d] = i
      BY Zenon, <1>1, <2>4, NotNone DEF LifeInv, ObjectsInv
    <3> QED
      BY <1>0, <1>1, <1>2, <2>1, <2>4, <3>1, NotNone
  <2> QED
    BY <2>2, <2>3, <2>4
<1>9. /\ main' \in [pc : MainPc, obj : Ids \cup {None}, letter : 1..Letters] /\ main'.obj = None
      /\ main'.pc \notin Connecting \cup {"throw"} /\ failed_to_connect' \subseteq Devices
      /\ main'.pc \in Deleting => main.pc \in Deleting /\ mtx = Main
      /\ main'.pc \notin Starting \cup {"list"} => main.pc \notin Starting \cup {"list"}
  <2>1. CASE mtx = Main /\ main.pc = "throw"
    <3>1. /\ main' = [pc |-> "loop", obj |-> None, letter |-> 1]
          /\ failed_to_connect' = failed_to_connect \cup {d}
      BY Zenon, <1>2, <2>1
    <3>2. /\ main' \in [pc : MainPc, obj : Ids \cup {None}, letter : 1..Letters]
          /\ main'.obj = None /\ main'.pc = "loop"
      BY <3>1, LettersAssumption DEF MainPc
    <3>3. failed_to_connect' \subseteq Devices
      BY Zenon, <1>1, <3>1 DEF LifeInv, TypeOK
    <3> HIDE DEF i, d
    <3> QED
      BY <2>1, <3>2, <3>3 DEF Connecting, Starting, Deleting
  <2>2. CASE ~(mtx = Main /\ main.pc = "throw")
    BY Zenon, <1>1, <1>2, <2>2 DEF LifeInv, TypeOK, MainPc, Connecting, Starting, Deleting, OwnersInv
  <2> QED
    BY <2>1, <2>2
<1>10. mtx' \in {None, Main} /\ (mtx' = Main <=> main'.pc \notin {"idle", "exit", "exited"})
  <2>1. CASE mtx # Main
    BY Zenon, <1>2, <2>1, NotNone DEF LifeInv, OwnersInv
  <2>2. CASE mtx = Main
    <3>1. mtx' = Main
      BY Zenon, <1>2, <2>2
    <3>2. main'.pc \notin {"idle", "exit", "exited"}
      <4>1. CASE main.pc = "throw"
        <5>1. main' = [pc |-> "loop", obj |-> None, letter |-> 1]
          BY Zenon, <1>2, <2>2, <4>1
        <5> QED
          BY <5>1
      <4>2. CASE main.pc # "throw"
        <5>1. main' = main
          BY Zenon, <1>2, <2>2, <4>2
        <5> QED
          BY <1>1, <2>2, <4>2, <5>1 DEF Deleting
      <4> QED
        BY <4>1, <4>2
    <3> QED
      BY <3>1, <3>2
  <2> QED
    BY <2>1, <2>2
<1> HIDE DEF i, d
<1>11. TypeOK'
  BY Zenon, <1>0, <1>5, <1>6, <1>7, <1>8, <1>9, <1>10 DEF TypeOK, MainPc, DtorPc
<1>12. OwnersInv'
  BY <1>6, <1>9, <1>10, NotNone DEF OwnersInv
<1>13. ObjectsInv'
  <2>1. ASSUME main'.pc \in Deleting, NEW e \in todo
        PROVE  instances'[e] # None
    <3>1. /\ e \in Devices /\ instances[e] # None /\ d \notin todo /\ instances[d] = i
      BY Zenon, <1>0, <1>1, <1>9, <2>1, NotNone DEF LifeInv, ObjectsInv, TypeOK, i, d
    <3>2. instances[e] # i
      BY Zenon, <1>1, <3>1, NotNone DEF LifeInv, OneDrivePerDevice, d
    <3> QED
      BY <1>8, <3>1, <3>2
  <2> QED
    BY <1>6, <1>9, <1>10, <2>1, NotNone DEF ObjectsInv
<1>14. DrivesInv'
  <2>1. \A j \in Ids : nan'[j] # None => nan'[j] = nan[j]
    BY <1>5
  <2> QED
    BY Zenon, <1>3, <1>6, <1>9, <2>1 DEF LifeInv, DrivesInv, Connecting
<1>15. CallsInv'
  <2>1. ASSUME NEW k \in Callbacks, cb'[k] # NoCall
        PROVE  /\ cb'[k].obj # None <=> cb'[k].pc # "idle"
               /\ cb'[k].obj # None => nan'[cb'[k].obj] # None /\ nan'[cb'[k].obj].instance # "none"
    <3>1. cb'[k] = cb[k] /\ cb[k].obj # i /\ cb[k].obj \in Ids \cup {None}
      BY <1>0, <1>7, <2>1
    <3>2. ~(mtx = k /\ dtor.obj = cb[k].obj)
      BY Zenon, <3>1 DEF i
    <3>3. cb[k].obj # None => nan'[cb[k].obj] = nan[cb[k].obj]
      BY Zenon, <1>5, <3>1
    <3> QED
      BY <3>1, <3>2, <3>3 DEF LifeInv, CallsInv
  <2>2. ASSUME NEW k \in Callbacks, cb'[k] = NoCall
        PROVE  cb'[k].obj = None /\ cb'[k].pc = "idle"
    BY <2>2 DEF NoCall
  <2> QED
    BY <2>1, <2>2 DEF CallsInv
<1>16. AgentsInv'
  <2>1. \A j \in Ids : agent'[j].pc \notin {"start", "open"}
    BY <1>1, <1>5, NoAgentTyped
  <2>2. \A j \in Ids : nan'[j] = None => agent'[j] = NoAgent
    BY <1>5 DEF LifeInv, AgentsInv
  <2>3. adb' # "open"
    BY Zenon, <1>1 DEF LifeInv, AgentsInv, Connecting, OwnersInv, Deleting
  <2> QED
    BY <1>9, <2>1, <2>2, <2>3 DEF AgentsInv, Connecting
<1>17. OneDrivePerDevice'
  <2>1. ASSUME NEW j \in Ids, nan'[j] # None
        PROVE  instances'[nan'[j].device] = j
    <3>1. j # i /\ nan'[j] = nan[j] /\ nan[j] # None /\ nan[j].device \in Devices
      BY <1>0, <1>5, <2>1, ObjectTyped
    <3>2. instances[nan[j].device] = j
      BY <1>1, <3>1, NotNone DEF LifeInv, OneDrivePerDevice, i
    <3> QED
      BY <1>8, <3>1, <3>2
  <2>2. ASSUME NEW e \in Devices, instances'[e] # None
        PROVE  nan'[instances'[e]] # None /\ nan'[instances'[e]].device = e
    <3>1. instances'[e] = instances[e] /\ instances[e] # i /\ instances[e] \in Ids
      BY <1>0, <1>8, <2>2
    <3>2. nan[instances[e]] # None /\ nan[instances[e]].device = e
      BY Zenon, <2>2, <3>1 DEF LifeInv, OneDrivePerDevice
    <3>3. nan'[instances[e]] = nan[instances[e]]
      BY Zenon, <1>5, <3>1
    <3> QED
      BY Zenon, <3>1, <3>2, <3>3
  <2> QED
    BY <2>1, <2>2 DEF OneDrivePerDevice
<1> QED
  BY <1>11, <1>12, <1>13, <1>14, <1>15, <1>16, <1>17 DEF LifeInv

LEMMA JoinNext ==
  ASSUME LifeInv, join
  PROVE  LifeInv'
<1>1. CASE Freed /\ UNCHANGED alive
  BY Zenon, <1>1, FreedNext DEF join
<1>2. CASE /\ alive' = FALSE
           /\ UNCHANGED <<mtx, main, instances, failed_to_connect, nan, agent, dtor, cb>>
           /\ UNCHANGED <<plugged, stale, listed, todo, adb>>
  <2>1. TypeOK'
    BY <1>2, ZenonT(30) DEF LifeInv, TypeOK
  <2>2. OwnersInv' /\ ObjectsInv'
    BY Zenon, <1>2 DEF LifeInv, OwnersInv, ObjectsInv
  <2>3. DrivesInv' /\ CallsInv'
    BY Zenon, <1>2 DEF LifeInv, DrivesInv, CallsInv
  <2>4. AgentsInv' /\ OneDrivePerDevice'
    BY <1>2 DEF LifeInv, AgentsInv, OneDrivePerDevice
  <2> QED
    BY <2>1, <2>2, <2>3, <2>4 DEF LifeInv
<1> QED
  BY Zenon, <1>1, <1>2 DEF join

-----------------------------------------------------------------------------
(* The callbacks.                                                          *)

\* A callback that does not own device_man_mtx enters or leaves a drive that is open.
LEMMA CallMoves ==
  ASSUME LifeInv, NEW k \in Callbacks, k # mtx,
         UNCHANGED <<plugged, stale, alive, tracker, adb, dtor, nan, agent>>,
         NEW c \in [pc : {"idle", "inside", "unmount"}, obj : Ids \cup {None}],
         cb' = [cb EXCEPT ![k] = c], c.obj # None <=> c.pc # "idle",
         c.obj # None => nan[c.obj] # None /\ nan[c.obj].instance # "none"
  PROVE  LifeInv'
<1>1. UNCHANGED <<plugged, stale, alive, mtx, main, listed, todo, instances, failed_to_connect,
                  adb, dtor, nan, agent>>
  BY Zenon DEF tracker
<1>2. cb \in [Callbacks -> [pc : {"idle", "inside", "unmount"}, obj : Ids \cup {None}]]
  BY DEF LifeInv, TypeOK
<1>3. /\ cb' \in [Callbacks -> [pc : {"idle", "inside", "unmount"}, obj : Ids \cup {None}]]
      /\ cb'[k] = c /\ \A l \in Callbacks \ {k} : cb'[l] = cb[l]
  BY <1>2
<1>4. TypeOK'
  BY <1>1, <1>3, SMTT(30) DEF LifeInv, TypeOK
<1>5. OwnersInv'
  <2>1. mtx \in Callbacks => cb'[mtx] = cb[mtx]
    BY <1>3
  <2> QED
    BY <1>1, <2>1 DEF LifeInv, OwnersInv
<1>6. CallsInv'
  <2>1. ASSUME NEW l \in Callbacks
        PROVE  /\ cb'[l].obj # None <=> cb'[l].pc # "idle"
               /\ cb'[l].obj # None =>
                    /\ nan[cb'[l].obj] # None
                    /\ nan[cb'[l].obj].instance # "none" \/ (mtx = l /\ dtor.obj = cb'[l].obj)
    <3>1. CASE l = k
      BY Zenon, <1>3, <3>1
    <3>2. CASE l # k
      <4>1. cb'[l] = cb[l]
        BY <1>3, <3>2
      <4> QED
        BY Zenon, <4>1 DEF LifeInv, CallsInv
    <3> QED
      BY <3>1, <3>2
  <2>2. mtx' = mtx /\ dtor' = dtor /\ nan' = nan
    BY <1>1
  <2> QED
    BY Zenon, <2>1, <2>2 DEF CallsInv
<1>7. ObjectsInv' /\ DrivesInv'
  BY Zenon, <1>1 DEF LifeInv, ObjectsInv, DrivesInv
<1>8. AgentsInv'
  BY Zenon, <1>1 DEF LifeInv, AgentsInv
<1>9. OneDrivePerDevice'
  BY Zenon, <1>1 DEF LifeInv, OneDrivePerDevice
<1> QED
  BY Zenon, <1>4, <1>5, <1>6, <1>7, <1>8, <1>9 DEF LifeInv

LEMMA EnterNext ==
  ASSUME LifeInv, NEW i \in Ids, Enter(i)
  PROVE  LifeInv'
<1>1. PICK k \in Callbacks : cb[k] = NoCall /\ cb' = [cb EXCEPT ![k] = [pc |-> "inside", obj |-> i]]
  BY Zenon DEF Enter
<1>2. k # mtx
  BY <1>1 DEF LifeInv, OwnersInv, NoCall
<1> DEFINE c == [pc |-> "inside", obj |-> i]
<1>3. /\ c \in [pc : {"idle", "inside", "unmount"}, obj : Ids \cup {None}] /\ c.pc = "inside" /\ c.obj = i
      /\ cb' = [cb EXCEPT ![k] = c]
  BY <1>1
<1>4. nan[i] # None /\ nan[i].instance = "mounted" /\ i # None
  BY NotNone DEF Enter
<1> HIDE DEF c
<1> QED
  BY Zenon, <1>2, <1>3, <1>4, CallMoves DEF Enter

LEMMA LeaveNext ==
  ASSUME LifeInv, NEW k \in Callbacks, Leave(k)
  PROVE  LifeInv'
<1>0. cb \in [Callbacks -> [pc : {"idle", "inside", "unmount"}, obj : Ids \cup {None}]]
  BY DEF LifeInv, TypeOK
<1>1. cb[k].pc = "inside" /\ k # mtx
  BY DEF Leave, LifeInv, OwnersInv
<1>2. cb[k].obj # None /\ nan[cb[k].obj] # None /\ nan[cb[k].obj].instance # "none"
  BY <1>1 DEF LifeInv, CallsInv
<1>3. CASE cb' = [cb EXCEPT ![k] = NoCall]
  <2>1. /\ NoCall \in [pc : {"idle", "inside", "unmount"}, obj : Ids \cup {None}]
        /\ NoCall.pc = "idle" /\ NoCall.obj = None
    BY DEF NoCall
  <2> QED
    BY Zenon, <1>1, <1>3, <2>1, CallMoves DEF Leave
<1>4. CASE cb' = [cb EXCEPT ![k].pc = "unmount"]
  <2> DEFINE c == [cb[k] EXCEPT !.pc = "unmount"]
  <2>1. /\ c \in [pc : {"idle", "inside", "unmount"}, obj : Ids \cup {None}]
        /\ c.pc = "unmount" /\ c.obj = cb[k].obj
    BY <1>0
  <2>2. cb' = [cb EXCEPT ![k] = c]
    BY <1>0, <1>4
  <2> HIDE DEF c
  <2> QED
    BY Zenon, <1>1, <1>2, <2>1, <2>2, CallMoves DEF Leave
<1> QED
  BY <1>3, <1>4 DEF Leave

\* Who takes device_man_mtx for unmount_device finds its drive in instances.
LEMMA UnmountNext ==
  ASSUME LifeInv, NEW k \in Callbacks, unmount_device(k)
  PROVE  LifeInv'
<1> DEFINE i == cb[k].obj
           d == nan[i].device
<1>0. /\ TypeOK /\ instances \in [Devices -> Ids \cup {None}]
      /\ UNCHANGED <<plugged, stale, alive, main, listed, todo, failed_to_connect, adb, nan, agent, cb>>
      /\ cb[k].pc = "unmount" /\ mtx = None /\ mtx' = k /\ k # Main /\ k # None
      /\ instances' = [instances EXCEPT ![d] = None]
  BY NotNone DEF LifeInv, TypeOK, unmount_device
<1>1. i # None /\ i \in Ids /\ nan[i] # None /\ nan[i].instance # "none"
  BY Zenon, <1>0 DEF LifeInv, CallsInv, TypeOK
<1>2. d \in Devices
  BY Zenon, <1>0, <1>1, ObjectTyped
<1>3. /\ dtor' \in [pc : DtorPc, obj : Ids \cup {None}] /\ dtor'.pc = "close" /\ dtor'.obj = i
  BY Zenon, <1>1, DeleteEffect DEF unmount_device
<1>4. /\ main.pc \in {"idle", "exit", "exited"} /\ main.obj = None
      /\ dtor.obj = None /\ dtor.pc = "none"
  BY Zenon, <1>0, NotNone DEF LifeInv, OwnersInv, Connecting, Starting
<1>5. /\ instances[d] = i /\ \A j \in Ids : nan[j] # None => instances[nan[j].device] = j
  BY Zenon, <1>0, <1>1 DEF LifeInv, OneDrivePerDevice
<1>6. /\ instances' \in [Devices -> Ids \cup {None}] /\ instances'[d] = None
      /\ \A e \in Devices \ {d} : instances'[e] = instances[e]
  BY Zenon, <1>0, <1>2
<1> HIDE DEF i, d
<1>7. TypeOK'
  BY <1>0, <1>3, <1>6 DEF TypeOK, DtorPc
<1>8. OwnersInv'
  BY Zenon, <1>0, <1>1, <1>3, <1>4 DEF LifeInv, OwnersInv, i
<1>9. ObjectsInv'
  BY Zenon, <1>0, <1>1, <1>3, <1>4, <1>6 DEF ObjectsInv, Deleting, d
<1>10. DrivesInv'
  <2>1. \A j \in Ids : nan[j] # None => nan[j].instance # "closing"
    BY Zenon, <1>4 DEF LifeInv, DrivesInv
  <2> QED
    BY Zenon, <1>0, <1>3, <1>4, <2>1 DEF LifeInv, DrivesInv
<1>11. CallsInv'
  <2>1. \A l \in Callbacks : /\ cb[l].obj # None <=> cb[l].pc # "idle"
                             /\ cb[l].obj # None => nan[cb[l].obj] # None /\ nan[cb[l].obj].instance # "none"
    BY Zenon, <1>0, NotNone DEF LifeInv, CallsInv
  <2> QED
    BY Zenon, <1>0, <2>1 DEF CallsInv
<1>12. AgentsInv'
  BY Zenon, <1>0, <1>3, <1>4 DEF LifeInv, AgentsInv
<1>13. OneDrivePerDevice'
  <2>1. ASSUME NEW j \in Ids, nan[j] # None
        PROVE  instances'[nan[j].device] = j \/ j = i
    BY Zenon, <1>0, <1>5, <1>6, <2>1, ObjectTyped
  <2>2. ASSUME NEW e \in Devices, instances'[e] # None
        PROVE  nan[instances'[e]] # None /\ nan[instances'[e]].device = e
    BY <1>6, <2>2 DEF LifeInv, OneDrivePerDevice
  <2> QED
    BY Zenon, <1>0, <1>3, <2>1, <2>2 DEF OneDrivePerDevice
<1> QED
  BY <1>7, <1>8, <1>9, <1>10, <1>11, <1>12, <1>13 DEF LifeInv

-----------------------------------------------------------------------------
(* The theorems.                                                           *)

LEMMA LifeInit == Init => LifeInv
<1> SUFFICES ASSUME Init PROVE LifeInv
  OBVIOUS
<1>1. TypeOK
  <2>1. plugged \subseteq Devices /\ stale \subseteq Devices
    BY StaleAssumption DEF Init
  <2>2. agent \in [Ids -> AgentState]
    BY NoAgentTyped DEF Init
  <2>3. /\ main \in [pc : {"idle", "list", "loop", "push", "chmod", "forward", "wait", "connect", "mount",
                          "throw", "remove", "exit", "tracker", "exited"},
                    obj : Ids \cup {None}, letter : 1..Letters]
    BY LettersAssumption DEF Init
  <2>4. dtor \in [pc : {"none", "close", "closing", "conn", "wait", "pkill", "join"}, obj : Ids \cup {None}]
    BY DEF Init, NoDtor
  <2>5. cb \in [Callbacks -> [pc : {"idle", "inside", "unmount"}, obj : Ids \cup {None}]]
    BY DEF Init, NoCall
  <2> QED
    BY <2>1, <2>2, <2>3, <2>4, <2>5 DEF Init, TypeOK
<1>2. OwnersInv /\ ObjectsInv
  BY Zenon, NotNone DEF Init, OwnersInv, ObjectsInv, NoDtor, Connecting, Starting, Deleting
<1>3. DrivesInv /\ CallsInv /\ OneDrivePerDevice
  BY DEF Init, DrivesInv, CallsInv, OneDrivePerDevice, NoDtor, NoCall
<1>4. AgentsInv
  BY DEF Init, AgentsInv, NoAgent, Starting
<1> QED
  BY <1>1, <1>2, <1>3, <1>4 DEF LifeInv

LEMMA LifeNext == LifeInv /\ [Next]_vars => LifeInv'
<1> SUFFICES ASSUME LifeInv, [Next]_vars PROVE LifeInv'
  OBVIOUS
<1>1. CASE MainStep
  BY <1>1, PipesNext, ScanNext, ConnectNext, BeginAdbNext, BeginWaitNext, BeginConnectNext, MountNext,
     UpdateDeleteNext DEF MainStep
<1>2. CASE DestructorStep
  BY <1>2, DestructorNext, JoinNext DEF DestructorStep
<1>3. CASE Quit
  BY <1>3, QuitNext
<1>4. ASSUME NEW i \in Ids, AgentStep(i) \/ Kill(i) \/ Enter(i)
      PROVE  LifeInv'
  BY <1>4, AgentStepNext, EnterNext
<1>5. ASSUME NEW k \in Callbacks, CallbackStep(k)
      PROVE  LifeInv'
  BY <1>5, LeaveNext, UnmountNext DEF CallbackStep
<1>6. ASSUME NEW d \in Devices, Plug(d) \/ Unplug(d)
      PROVE  LifeInv'
  BY <1>6, WorldNext
<1>7. CASE UNCHANGED vars
  <2>1. UNCHANGED <<plugged, stale, alive, mtx, main, listed, todo, instances, failed_to_connect, adb,
                    dtor, nan, agent, cb>>
    BY <1>7 DEF vars, tracker
  <2>2. TypeOK'
    BY <2>1, SMTT(30) DEF LifeInv, TypeOK
  <2>3. OwnersInv' /\ ObjectsInv'
    BY Zenon, <2>1 DEF LifeInv, OwnersInv, ObjectsInv
  <2>4. DrivesInv' /\ CallsInv'
    BY Zenon, <2>1 DEF LifeInv, DrivesInv, CallsInv
  <2>5. AgentsInv' /\ OneDrivePerDevice'
    BY <2>1 DEF LifeInv, AgentsInv, OneDrivePerDevice
  <2> QED
    BY <2>2, <2>3, <2>4, <2>5 DEF LifeInv
<1> QED
  BY <1>1, <1>2, <1>3, <1>4, <1>5, <1>6, <1>7 DEF Next

\* Whatever is plugged, unplugged, killed or fails during a scan, a mount or an
\* unmount: the owner of device_man_mtx, its object, instances, the callbacks and
\* the agents stay in step.
THEOREM LifecycleCorrect == Spec => []LifeInv
BY LifeInit, LifeNext, PTL DEF Spec

\* The variables of Lifecycle keep their types.
THEOREM TypeCorrect == Spec => []TypeOK
<1>1. LifeInv => TypeOK
  BY DEF LifeInv
<1> QED
  BY LifecycleCorrect, <1>1, PTL

\* No Dokan callback runs in a Nandroid object that was deleted, or uses the
\* connection of one whose destructor deleted it (nandroid.cpp: "Stop dokan calls
\* first so that we can safely delete the connection"), for any number of
\* devices, drives and callbacks.
THEOREM CallbacksUseLiveDrives == Spec => []NoUseAfterFree
<1>1. LifeInv => NoUseAfterFree
  <2> SUFFICES ASSUME LifeInv, NEW k \in Callbacks, cb[k].obj # None
               PROVE  /\ nan[cb[k].obj] # None
                      /\ cb[k].pc = "inside" => nan[cb[k].obj].connection # "none"
    BY DEF NoUseAfterFree
  <2>1. cb[k].obj \in Ids /\ nan[cb[k].obj] # None
    BY DEF LifeInv, TypeOK, CallsInv
  <2>2. ASSUME cb[k].pc = "inside"
        PROVE  nan[cb[k].obj].connection # "none"
    <3>1. mtx # k
      BY <2>2 DEF LifeInv, OwnersInv
    <3>2. nan[cb[k].obj].instance # "none"
      BY <3>1 DEF LifeInv, CallsInv
    <3> QED
      BY <2>1, <3>2 DEF LifeInv, DrivesInv
  <2> QED
    BY <2>1, <2>2
<1> QED
  BY LifecycleCorrect, <1>1, PTL

\* update_connected_devices and unmount_device never mount a device twice, lose a
\* drive or delete one twice: instances has exactly the objects that no owner of
\* device_man_mtx is making or deleting.
THEOREM DrivesUnique == Spec => []OneDrivePerDevice
<1>1. LifeInv => OneDrivePerDevice
  BY DEF LifeInv
<1> QED
  BY LifecycleCorrect, <1>1, PTL

\* No child process inherits the write end of the pipe of another one, although
\* create_stdouterr_pipes makes both ends inheritable: agents start one at a time,
\* while the owner of device_man_mtx waits and runs no adb.
THEOREM PipesNotInherited == Spec => []PipesPrivate
<1>1. LifeInv => PipesPrivate
  <2> SUFFICES ASSUME LifeInv, NEW i \in Ids, agent[i].pc = "open"
               PROVE  adb # "open" /\ \A j \in Ids \ {i} : agent[j].pc # "open"
    BY DEF PipesPrivate
  <2>1. main.pc = "wait" /\ main.obj = i
    BY DEF LifeInv, AgentsInv
  <2>2. dtor.pc = "none"
    BY <2>1, InBegin DEF Connecting
  <2>3. adb # "open"
    BY <2>1, <2>2 DEF LifeInv, AgentsInv, Starting
  <2>4. \A j \in Ids \ {i} : agent[j].pc # "open"
    BY <2>1 DEF LifeInv, AgentsInv
  <2> QED
    BY <2>3, <2>4
<1> QED
  BY LifecycleCorrect, <1>1, PTL
=============================================================================
