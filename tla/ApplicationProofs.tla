--------------------------- MODULE ApplicationProofs ---------------------------
(***************************************************************************)
(* Application for any set of processes: one instance at a time, the       *)
(* tray's resources given back once, and Ctrl+C that does no harm.         *)
(*                                                                         *)
(* The inductive invariant has a part for each process on its own, Good:   *)
(* where its two threads may be together, and what the window's thread     *)
(* then holds; and a part that relates the processes: one that got past    *)
(* prompt_if_already_running has a handle of the named mutex, so nobody    *)
(* else creates it.                                                        *)
(***************************************************************************)
EXTENDS Application, TLAPS

Outside == {"start", "refused", "exited", "crashed"}

Good(r) ==
  /\ r.main \in Outside \cup {"constructed"} => r.tray = "none" /\ r.consoles = 0
  /\ r.main \notin Outside \cup {"constructed", "return"} => r.inst
  /\ r.main \notin Outside \cup {"constructed", "initialise"} => r.tray \in {"loop", "done"}
  /\ r.main = "return" => r.tray = "done"
  /\ r.init_process_finished => r.tray \in {"loop", "done"}
  /\ r.tray = "none" => r.held = {} /\ ~r.window /\ r.releases = 0 /\ r.stage = 1
  /\ r.tray = "initialise" => r.releases = 0 /\ (r.stage > 2 => r.window)
  /\ r.tray \in {"report", "loop", "done"} =>
       \/ r.window /\ r.releases = 0
       \/ ~r.window /\ r.releases = 1 /\ r.held \subseteq {"menu"}
  /\ r.tray = "done" => ~r.window
  /\ r.closing => r.window /\ r.tray = "loop"

Sound(r) == r \in Process /\ Good(r)

IInv ==
  /\ named \subseteq Processes
  /\ app \in [Processes -> Process]
  /\ \A p \in Processes : Good(app[p]) /\ (app[p].main \notin Outside => p \in named)
  /\ OneInstance

LEMMA SixStages == Len(Stages) = 6
  BY DEF Stages

LEMMA FreshSound ==
  ASSUME NEW pc \in {"start", "exited", "crashed"}
  PROVE  Sound([Fresh EXCEPT !.main = pc])
<1>1. 1 \in 1..Len(Stages)
  BY SixStages
<1>2. Fresh \in Process
  BY <1>1 DEF Process, Fresh
<1>3. [Fresh EXCEPT !.main = pc] \in Process
  BY <1>2 DEF Process
<1>4. Good([Fresh EXCEPT !.main = pc])
  BY DEF Good, Fresh, Outside
<1> QED
  BY <1>3, <1>4 DEF Sound

LEMMA MainSound ==
  ASSUME NEW r, Sound(r), NEW pc,
         \/ r.main = "start" /\ pc \in {"refused", "constructed"}
         \/ r.main = "initialise" /\ pc = "loop" /\ r.init_process_finished
         \/ /\ r.main \in {"loop", "update", "wait", "tracker", "failed", "shutdown", "message"}
            /\ pc \in {"loop", "update", "wait", "tracker", "failed", "shutdown", "message", "close"}
  PROVE  Sound([r EXCEPT !.main = pc])
  BY DEF Sound, Good, Process, Outside

LEMMA InitialiseSound ==
  ASSUME NEW r, Sound(r), r.main = "constructed"
  PROVE  Sound([TrayMenuManager(r) EXCEPT !.main = "initialise", !.tray = "initialise"])
<1> DEFINE s == [r EXCEPT !.inst = TRUE, !.main = "initialise", !.tray = "initialise"]
<1>1. [TrayMenuManager(r) EXCEPT !.main = "initialise", !.tray = "initialise"] = s
  BY DEF Sound, Process, TrayMenuManager
<1>2. s \in Process
  BY DEF Sound, Process
<1>3. Good(s)
  BY DEF Sound, Good, Process, Outside
<1> HIDE DEF s
<1> QED
  BY <1>1, <1>2, <1>3 DEF Sound

LEMMA DestructorSound ==
  ASSUME NEW r, Sound(r), r.main = "close"
  PROVE  Sound([r EXCEPT !.main = "join", !.closing = r.window])
  BY DEF Sound, Good, Process, Outside

LEMMA JoinedSound ==
  ASSUME NEW r, Sound(r), r.main = "join", r.tray = "done"
  PROVE  Sound([r EXCEPT !.main = "return", !.inst = FALSE])
  BY DEF Sound, Good, Process, Outside

LEMMA QuitSound ==
  ASSUME NEW r, Sound(r)
  PROVE  Sound(quit_callback(r))
<1> DEFINE m == IF r.main = "wait" THEN "loop" ELSE r.main
<1>1. quit_callback(r) = [r EXCEPT !.shutdown_requested = TRUE, !.main = m]
  BY DEF quit_callback
<1>2. m = r.main \/ (r.main = "wait" /\ m = "loop")
  OBVIOUS
<1> HIDE DEF m
<1>3. quit_callback(r) \in Process
  BY <1>1, <1>2 DEF Sound, Process
<1>4. Good(quit_callback(r))
  BY <1>1, <1>2 DEF Sound, Good, Process, Outside
<1> QED
  BY <1>3, <1>4 DEF Sound

LEMMA ConsoleSound ==
  ASSUME NEW r, Sound(r), r.tray \in {"report", "loop"}, NEW new \in BOOLEAN,
         NEW s \in set_console_enabled(r, new)
  PROVE  Sound(s) /\ s.main = r.main /\ s.tray = r.tray
<1>1. r.main \notin Outside \cup {"constructed"}
  BY DEF Sound, Good
<1>2. CASE s = r
  BY <1>2
<1>3. CASE s = [r EXCEPT !.console_enabled = new, !.consoles = IF new THEN 1 ELSE @]
  <2> DEFINE n == IF new THEN 1 ELSE r.consoles
  <2>1. n \in 0..1
    BY DEF Sound, Process
  <2>2. s = [r EXCEPT !.console_enabled = new, !.consoles = n]
    BY <1>3
  <2> HIDE DEF n
  <2>3. s \in Process
    BY <2>1, <2>2 DEF Sound, Process
  <2>4. Good(s) /\ s.main = r.main /\ s.tray = r.tray
    BY <1>1, <2>2 DEF Sound, Good, Process
  <2> QED
    BY <2>3, <2>4 DEF Sound
<1> QED
  BY <1>2, <1>3 DEF set_console_enabled

LEMMA ReportSound ==
  ASSUME NEW r, Sound(r), r.tray = "report"
  PROVE  Sound(Report(r)) /\ Report(r).main = r.main
  BY DEF Sound, Good, Process, Outside, Report

LEMMA ReleaseType ==
  ASSUME NEW r \in Process, NEW held \in SUBSET Resources, NEW window \in BOOLEAN,
         NEW closing \in BOOLEAN, NEW releases \in 0..2,
         NEW tray \in {"none", "initialise", "report", "loop", "done"}
  PROVE  [r EXCEPT !.held = held, !.window = window, !.closing = closing,
                   !.releases = releases, !.tray = tray] \in Process
  BY DEF Process

LEMMA ReleaseSound ==
  ASSUME NEW r, Sound(r), r.tray = "loop", r.closing
  PROVE  Sound(release_resources(r)) /\ release_resources(r).main = r.main
<1>1. r.releases = 0
  BY DEF Sound, Good
<1> DEFINE held == r.held \ {"tray", "window", "icon", "class"}
<1>2. held \in SUBSET {"menu"} /\ held \in SUBSET Resources
  BY DEF Sound, Process, Resources
<1>3a. release_resources(r) =
          [r EXCEPT !.held = held, !.window = FALSE, !.closing = FALSE, !.releases = 1,
                    !.tray = "loop"]
  BY <1>1 DEF Sound, Process, release_resources
<1> HIDE DEF held
<1>3. release_resources(r) \in Process /\ release_resources(r).main = r.main
  <2> DEFINE s == [r EXCEPT !.held = held, !.window = FALSE, !.closing = FALSE, !.releases = 1,
                            !.tray = "loop"]
  <2>1. s \in Process
    <3>1. 1 \in 0..2
      OBVIOUS
    <3> QED
      BY <3>1, <1>2, ReleaseType, Zenon DEF Sound
  <2> QED
    BY <2>1, <1>3a DEF Sound, Process
<1>4. Good(release_resources(r))
  BY <1>2, <1>3a DEF Sound, Good, Process, Outside
<1> QED
  BY <1>3, <1>4 DEF Sound

\* A step of initialise_internal that succeeds.
LEMMA AcquireSound ==
  ASSUME NEW r, Sound(r), r.tray = "initialise", NEW got, got = {Stages[r.stage]} \cap Resources
  PROVE  Sound([r EXCEPT !.tray = IF r.stage = Len(Stages) THEN "report" ELSE @,
                         !.stage = IF @ = Len(Stages) THEN @ ELSE @ + 1,
                         !.held = @ \cup got, !.window = @ \/ "window" \in got])
<1> DEFINE s == [r EXCEPT !.tray = IF r.stage = Len(Stages) THEN "report" ELSE @,
                         !.stage = IF @ = Len(Stages) THEN @ ELSE @ + 1,
                         !.held = @ \cup got, !.window = @ \/ "window" \in got]
<1>1. r.stage = 2 => "window" \in got
  <2>1. Stages[2] = "window" /\ "window" \in Resources
    BY DEF Stages, Resources
  <2> QED
    BY <2>1
<1>2. r.stage \in 1..6 /\ r.releases = 0 /\ (r.stage > 2 => r.window) /\ r.window \in BOOLEAN
  BY SixStages DEF Sound, Good, Process
<1> DEFINE t == IF r.stage = Len(Stages) THEN "report" ELSE r.tray
           n == IF r.stage = Len(Stages) THEN r.stage ELSE r.stage + 1
           h == r.held \cup got
           w == r.window \/ "window" \in got
<1>3. /\ t \in {"initialise", "report"} /\ n \in 1..Len(Stages)
      /\ h \in SUBSET Resources /\ w \in BOOLEAN
  BY <1>2, SixStages DEF Sound, Process
<1>4. (t = "report" => w) /\ (n > 2 => w)
  BY <1>1, <1>2, SixStages
<1>5. s = [r EXCEPT !.tray = t, !.stage = n, !.held = h, !.window = w]
  OBVIOUS
<1> HIDE DEF s, t, n, h, w
<1>6. s \in Process
  BY <1>3, <1>5 DEF Sound, Process
<1>7. Good(s)
  BY <1>2, <1>3, <1>4, <1>5 DEF Sound, Good, Process, Outside
<1> QED
  BY <1>6, <1>7 DEF Sound, s, t, n, h, w

\* One that fails.
LEMMA FailSound ==
  ASSUME NEW r, Sound(r), r.tray = "initialise", NEW part \in SUBSET {"menu"}
  PROVE  Sound([release_resources([r EXCEPT !.held = @ \cup part]) EXCEPT !.tray = "report"])
<1>1. r.releases = 0
  BY DEF Sound, Good
<1> DEFINE held == (r.held \cup part) \ {"tray", "window", "icon", "class"}
           s == [r EXCEPT !.held = held, !.window = FALSE, !.closing = FALSE, !.releases = 1,
                          !.tray = "report"]
<1>2. held \in SUBSET {"menu"} /\ held \in SUBSET Resources
  BY DEF Sound, Process, Resources
<1>3. [release_resources([r EXCEPT !.held = @ \cup part]) EXCEPT !.tray = "report"] = s
  BY <1>1 DEF Sound, Process, release_resources
<1> HIDE DEF held
<1>4. s \in Process
  <2>1. 1 \in 0..2
    OBVIOUS
  <2> QED
    BY <2>1, <1>2, ReleaseType, Zenon DEF Sound
<1>5. Good(s)
  BY <1>2 DEF Sound, Good, Process, Outside
<1> HIDE DEF s
<1> QED
  BY <1>3, <1>4, <1>5 DEF Sound

LEMMA LoopEndSound ==
  ASSUME NEW r, Sound(r), r.tray = "loop", ~r.window
  PROVE  Sound([r EXCEPT !.tray = "done"])
  BY DEF Sound, Good, Process, Outside

-----------------------------------------------------------------------------
\* A step of a process on its own, that does not take it past the prompt.
LEMMA Local ==
  ASSUME IInv, NEW p \in Processes, NEW r, Sound(r), Becomes(p, r), named' = named,
         r.main \notin Outside => app[p].main \notin Outside
  PROVE  IInv'
<1>1. app' \in [Processes -> Process] /\ app'[p] = r /\ \A q \in Processes \ {p} : app'[q] = app[q]
  BY DEF IInv, Becomes, Sound
<1>2. \A q \in Processes : Good(app'[q]) /\ (app'[q].main \notin Outside => app[q].main \notin Outside)
  BY <1>1 DEF IInv, Sound
<1>3. OneInstance'
  BY <1>2 DEF IInv, OneInstance, Outside
<1> QED
  BY <1>1, <1>2, <1>3 DEF IInv, Good

LEMMA GoneOK ==
  ASSUME IInv, NEW p \in Processes, NEW pc \in {"exited", "crashed"}, Gone(p, pc)
  PROVE  IInv'
<1> DEFINE r == [Fresh EXCEPT !.main = pc]
<1>1. Sound(r) /\ r.main = pc
  BY FreshSound DEF Fresh
<1> HIDE DEF r
<1>2. app' \in [Processes -> Process] /\ app'[p] = r /\ \A q \in Processes \ {p} : app'[q] = app[q]
  BY <1>1 DEF IInv, Gone, Becomes, Sound, r
<1>3. named' = named \ {p}
  BY DEF Gone
<1>4. app'[p].main \in Outside
  BY <1>1, <1>2 DEF Outside
<1>5. \A q \in Processes : Good(app'[q]) /\ (app'[q].main \notin Outside => q \in named')
  BY <1>1, <1>2, <1>3, <1>4 DEF IInv, Sound
<1>6. OneInstance'
  BY <1>2, <1>4 DEF IInv, OneInstance, Outside
<1> QED
  BY <1>2, <1>3, <1>5, <1>6 DEF IInv, Good

\* A step of the main thread that moves it from one place to another.
LEMMA MainOK ==
  ASSUME IInv, NEW p \in Processes, NEW pc, Main(p, pc), named' = named,
         app[p].main \notin Outside,
         \/ app[p].main = "initialise" /\ pc = "loop" /\ app[p].init_process_finished
         \/ /\ app[p].main \in {"loop", "update", "wait", "tracker", "failed", "shutdown", "message"}
            /\ pc \in {"loop", "update", "wait", "tracker", "failed", "shutdown", "message", "close"}
  PROVE  IInv'
<1>1. Sound(app[p])
  BY DEF IInv, Sound
<1>2. Sound([app[p] EXCEPT !.main = pc])
  BY <1>1, MainSound
<1> QED
  BY <1>2, Local DEF Main

LEMMA PromptOK ==
  ASSUME IInv, NEW p \in Processes, prompt_if_already_running(p)
  PROVE  IInv'
<1>1. CASE Gone(p, "exited")
  BY <1>1, GoneOK
<1>2. CASE named' = named \cup {p} /\ Main(p, IF AlreadyRunning THEN "refused" ELSE "constructed")
  <2> DEFINE r == [app[p] EXCEPT !.main = IF AlreadyRunning THEN "refused" ELSE "constructed"]
  <2>1. app[p] \in Process /\ Sound(app[p]) /\ app[p].main = "start"
    BY DEF IInv, Sound, prompt_if_already_running
  <2>2. Sound(r)
    BY <2>1, MainSound
  <2>3. r.main = IF AlreadyRunning THEN "refused" ELSE "constructed"
    BY <2>1 DEF Process
  <2>4. app' = [app EXCEPT ![p] = r]
    BY <1>2 DEF Main, Becomes
  <2> HIDE DEF r
  <2>5. app' \in [Processes -> Process] /\ app'[p] = r /\ \A q \in Processes \ {p} : app'[q] = app[q]
    BY <2>2, <2>4 DEF IInv, Sound
  <2>6. \A q \in Processes : Good(app'[q]) /\ (app'[q].main \notin Outside => q \in named')
    BY <1>2, <2>2, <2>5 DEF IInv, Sound
  <2>7. CASE named = {}
    <3>1. \A q \in Processes \ {p} : app'[q].main \in Outside
      BY <2>5, <2>7 DEF IInv
    <3>2. OneInstance'
      BY <3>1 DEF OneInstance, Outside
    <3> QED
      BY <1>2, <2>5, <2>6, <3>2 DEF IInv, Good
  <2>8. CASE named # {}
    <3>1. app'[p].main \in Outside
      BY <2>3, <2>5, <2>8 DEF AlreadyRunning, Outside
    <3>2. OneInstance'
      BY <2>5, <3>1 DEF IInv, OneInstance, Outside
    <3> QED
      BY <1>2, <2>5, <2>6, <3>2 DEF IInv, Good
  <2> QED
    BY <2>7, <2>8
<1> QED
  BY <1>1, <1>2 DEF prompt_if_already_running

LEMMA MainStepOK ==
  ASSUME IInv, NEW p \in Processes, MainStep(p)
  PROVE  IInv'
<1>0. Sound(app[p]) /\ app[p] \in Process
  BY DEF IInv, Sound
<1>1. CASE prompt_if_already_running(p)
  BY <1>1, PromptOK
<1>2. CASE initialise(p)
  <2>1. Sound([TrayMenuManager(app[p]) EXCEPT !.main = "initialise", !.tray = "initialise"])
    BY <1>0, <1>2, InitialiseSound DEF initialise
  <2> QED
    BY <1>2, <2>1, Local DEF initialise, Outside
<1>3. CASE initialise_wait(p)
  BY <1>3, MainOK DEF initialise_wait, Outside
<1>4. CASE scan_for_devices(p)
  BY <1>4, MainOK DEF scan_for_devices, Outside
<1>5. CASE update(p)
  BY <1>5, MainOK DEF update, Outside
<1>6. CASE wait_for(p)
  BY <1>6, MainOK DEF wait_for, Outside
<1>7. CASE leave(p)
  BY <1>7, MainOK DEF leave, Outside
<1>8. CASE TrayMenuManager_destructor(p)
  <2>1. Sound([app[p] EXCEPT !.main = "join", !.closing = app[p].window])
    BY <1>0, <1>8, DestructorSound DEF TrayMenuManager_destructor
  <2> QED
    BY <1>8, <2>1, Local DEF TrayMenuManager_destructor, Outside
<1>9. CASE TrayMenuManager_joined(p)
  <2>1. Sound([app[p] EXCEPT !.main = "return", !.inst = FALSE])
    BY <1>0, <1>9, JoinedSound DEF TrayMenuManager_joined
  <2> QED
    BY <1>9, <2>1, Local DEF TrayMenuManager_joined, Outside
<1> QED
  BY <1>1, <1>2, <1>3, <1>4, <1>5, <1>6, <1>7, <1>8, <1>9 DEF MainStep

LEMMA WindowStepOK ==
  ASSUME IInv, NEW p \in Processes, WindowStep(p)
  PROVE  IInv'
<1>0. Sound(app[p]) /\ app[p] \in Process
  BY DEF IInv, Sound
<1>a. app[p].tray # "none"
  BY DEF WindowStep, initialise_internal, window_thread_entry_point, event_loop, tray_window_proc_close
<1>b. app[p].main \notin Outside
  BY <1>0, <1>a DEF Sound, Good
<1>1. CASE initialise_internal(p)
  <2> DEFINE got == {Stages[app[p].stage]} \cap Resources
             r == [app[p] EXCEPT !.tray = IF app[p].stage = Len(Stages) THEN "report" ELSE @,
                                 !.stage = IF @ = Len(Stages) THEN @ ELSE @ + 1,
                                 !.held = @ \cup got, !.window = @ \/ "window" \in got]
             s(part) == [release_resources([app[p] EXCEPT !.held = @ \cup part]) EXCEPT !.tray = "report"]
  <2>1. app[p].tray = "initialise" /\ named' = named
    BY <1>1 DEF initialise_internal
  <2>2. Becomes(p, r) \/ \E part \in SUBSET (got \cap {"menu"}) : Becomes(p, s(part))
    BY <1>1 DEF initialise_internal
  <2>3. Sound(r)
    BY <1>0, <2>1, AcquireSound
  <2>4. \A part \in SUBSET {"menu"} : Sound(s(part))
    BY <1>0, <2>1, FailSound
  <2>5. \A part \in SUBSET (got \cap {"menu"}) : part \in SUBSET {"menu"}
    OBVIOUS
  <2> HIDE DEF r, s
  <2>6. CASE Becomes(p, r)
    BY <1>b, <2>1, <2>3, <2>6, Local
  <2>7. ASSUME NEW part \in SUBSET (got \cap {"menu"}), Becomes(p, s(part))
        PROVE  IInv'
    BY <1>b, <2>1, <2>4, <2>5, <2>7, Local
  <2> QED
    BY <2>2, <2>6, <2>7
<1>2. CASE window_thread_entry_point(p)
  <2>1. PICK r \in {app[p]} \cup set_console_enabled(app[p], TRUE) : Becomes(p, Report(r))
    BY <1>2 DEF window_thread_entry_point
  <2>2. app[p].tray = "report" /\ named' = named
    BY <1>2 DEF window_thread_entry_point
  <2>3. Sound(r) /\ r.tray = "report"
    BY <1>0, <2>1, <2>2, ConsoleSound
  <2>4. Sound(Report(r))
    BY <2>3, ReportSound
  <2> QED
    BY <1>b, <2>1, <2>2, <2>4, Local
<1>3. CASE event_loop(p)
  <2>1. Sound([app[p] EXCEPT !.tray = "done"])
    BY <1>0, <1>3, LoopEndSound DEF event_loop
  <2> QED
    BY <1>3, <1>b, <2>1, Local DEF event_loop
<1>4. CASE tray_window_proc_close(p)
  <2>1. Sound(release_resources(app[p]))
    BY <1>0, <1>4, ReleaseSound DEF tray_window_proc_close
  <2> QED
    BY <1>4, <1>b, <2>1, Local DEF tray_window_proc_close
<1> QED
  BY <1>1, <1>2, <1>3, <1>4 DEF WindowStep

LEMMA HandlerSound ==
  ASSUME NEW r, Sound(r), NEW h \in {"none", "loaded"}
  PROVE  Sound([r EXCEPT !.handler = h])
  BY DEF Sound, Good, Process

LEMMA UserStepOK ==
  ASSUME IInv, NEW p \in Processes, UserStep(p)
  PROVE  IInv'
<1>0. Sound(app[p]) /\ app[p] \in Process
  BY DEF IInv, Sound
<1>1. CASE MessageBox(p)
  BY <1>1, MainOK DEF MessageBox, Outside
<1>2. CASE Start(p)
  <2>1. Fresh = [Fresh EXCEPT !.main = "start"] /\ Fresh.main = "start"
    BY DEF Fresh
  <2>2. Sound(Fresh)
    BY <2>1, FreshSound
  <2> QED
    BY <1>2, <2>1, <2>2, Local DEF Start, Outside
<1>3. CASE tray_window_proc_command(p)
  <2>1. app[p].tray = "loop" /\ named' = named
    BY <1>3 DEF tray_window_proc_command
  <2>2. app[p].main \notin Outside
    BY <1>0, <2>1 DEF Sound, Good
  <2>3. PICK s \in {quit_callback(app[p])} \cup set_console_enabled(app[p], ~app[p].console_enabled) :
          Becomes(p, s)
    BY <1>3 DEF tray_window_proc_command
  <2>4. Sound(s)
    <3>1. (~app[p].console_enabled) \in BOOLEAN
      BY <1>0 DEF Process
    <3>2. CASE s = quit_callback(app[p])
      BY <1>0, <3>2, QuitSound
    <3>3. CASE s \in set_console_enabled(app[p], ~app[p].console_enabled)
      BY <1>0, <2>1, <3>1, <3>3, ConsoleSound
    <3> QED
      BY <2>3, <3>2, <3>3
  <2> QED
    BY <2>1, <2>2, <2>3, <2>4, Local
<1>4. CASE console_handler(p)
  <2>1. app[p].main \notin Outside
    BY <1>0, <1>4 DEF console_handler, Sound, Good
  <2>2. CASE Becomes(p, [app[p] EXCEPT !.handler = "loaded"]) /\ named' = named
    <3>1. Sound([app[p] EXCEPT !.handler = "loaded"])
      BY <1>0, HandlerSound
    <3> QED
      BY <2>1, <2>2, <3>1, Local
  <2>3. CASE Becomes(p, [quit_callback(app[p]) EXCEPT !.handler = "none"]) /\ named' = named
    <3>1. Sound([quit_callback(app[p]) EXCEPT !.handler = "none"])
      BY <1>0, QuitSound, HandlerSound
    <3> QED
      BY <2>1, <2>3, <3>1, Local
  <2>4. CASE Gone(p, "crashed")
    BY <2>4, GoneOK
  <2> QED
    BY <1>4, <2>2, <2>3, <2>4 DEF console_handler
<1> QED
  BY <1>1, <1>2, <1>3, <1>4 DEF UserStep

-----------------------------------------------------------------------------
LEMMA InitOK == Init => IInv
<1> SUFFICES ASSUME Init PROVE IInv
  OBVIOUS
<1>1. Fresh = [Fresh EXCEPT !.main = "start"] /\ Fresh.main = "start"
  BY DEF Fresh
<1>2. Sound(Fresh)
  BY <1>1, FreshSound
<1> QED
  BY <1>1, <1>2 DEF Init, IInv, OneInstance, Outside, Sound

LEMMA NextOK == IInv /\ [Next]_vars => IInv'
<1> SUFFICES ASSUME IInv, [Next]_vars PROVE IInv'
  OBVIOUS
<1>1. CASE UNCHANGED vars
  BY <1>1 DEF vars, IInv, Good, OneInstance
<1>2. ASSUME NEW p \in Processes, Exit(p)
      PROVE  IInv'
  BY <1>2, GoneOK DEF Exit
<1> QED
  BY <1>1, <1>2, MainStepOK, WindowStepOK, UserStepOK DEF Next

\* The invariant holds for every set of processes.
THEOREM ProgramInvariant == Spec => []IInv
  BY InitOK, NextOK, PTL DEF Spec

\* At most one process gets past prompt_if_already_running, however many are
\* started, refused, ended and started again.
THEOREM OneInstanceOnly == Spec => []OneInstance
<1>1. IInv => OneInstance
  BY DEF IInv
<1> QED
  BY <1>1, ProgramInvariant, PTL

\* The window's thread gives back what it has acquired, once, wherever
\* initialise_internal fails and whenever ~TrayMenuManager closes the window.
THEOREM ResourcesReleasedOnce == Spec => []ResourcesReleased
<1>1. IInv => ResourcesReleased
  <2> SUFFICES ASSUME IInv, NEW p \in Processes
               PROVE  /\ app[p].releases <= 1
                      /\ app[p].main = "return" => app[p].held \subseteq {"menu"}
    BY DEF ResourcesReleased
  <2>1. app[p] \in Process /\ Good(app[p])
    BY DEF IInv
  <2>2. app[p].tray \in {"none", "initialise", "report", "loop", "done"}
    BY <2>1 DEF Process
  <2> QED
    BY <2>1, <2>2 DEF Good
<1> QED
  BY <1>1, ProgramInvariant, PTL

\* What the window's thread gives back leaves the main thread where it is.
LEMMA FailKeepsPlace ==
  ASSUME NEW r \in Process, NEW h
  PROVE  [release_resources([r EXCEPT !.held = h]) EXCEPT !.tray = "report"].main = r.main
BY DEF Process, release_resources

\* What a step other than a crash makes of the place of a process.
LEMMA Places ==
  ASSUME IInv, NEW p \in Processes, app[p].main # "crashed",
         MainStep(p) \/ Exit(p) \/ WindowStep(p) \/ MessageBox(p) \/ Start(p)
           \/ tray_window_proc_command(p)
  PROVE  app'[p].main # "crashed"
<1>0. app[p] \in Process /\ \A r : Becomes(p, r) => app'[p] = r
  BY DEF IInv, Becomes
<1>1. \A pc : Main(p, pc) => app'[p].main = pc
  BY <1>0 DEF Main, Process
<1>2. \A pc : Gone(p, pc) => app'[p].main = pc
  BY <1>0 DEF Gone, Fresh
<1>3. CASE MainStep(p)
  <2>1. CASE initialise(p)
    BY <1>0, <2>1 DEF initialise, TrayMenuManager, Process
  <2>2. CASE TrayMenuManager_destructor(p) \/ TrayMenuManager_joined(p)
    BY <1>0, <2>2 DEF TrayMenuManager_destructor, TrayMenuManager_joined, Process
  <2>3. CASE prompt_if_already_running(p)
    BY <1>1, <1>2, <2>3 DEF prompt_if_already_running
  <2>4. CASE initialise_wait(p) \/ scan_for_devices(p) \/ update(p) \/ wait_for(p) \/ leave(p)
    BY <1>1, <2>4 DEF initialise_wait, scan_for_devices, update, wait_for, leave
  <2> QED
    BY <1>3, <2>1, <2>2, <2>3, <2>4 DEF MainStep
<1>4. CASE WindowStep(p)
  <2>1. CASE initialise_internal(p)
    <3> DEFINE r == app[p]
               got == {Stages[r.stage]} \cap Resources
               tray == IF r.stage = Len(Stages) THEN "report" ELSE r.tray
               stage == IF r.stage = Len(Stages) THEN r.stage ELSE r.stage + 1
               held == r.held \cup got
               window == r.window \/ "window" \in got
    <3>1. CASE Becomes(p, [r EXCEPT !.tray = tray, !.stage = stage, !.held = held,
                                    !.window = window])
      <4>1. app'[p] = [r EXCEPT !.tray = tray, !.stage = stage, !.held = held, !.window = window]
        BY <1>0, <3>1, Zenon
      <4>2. r \in Process
        BY <1>0
      <4> HIDE DEF r, got, tray, stage, held, window
      <4>3. [r EXCEPT !.tray = tray, !.stage = stage, !.held = held, !.window = window].main = r.main
        BY <4>2 DEF Process
      <4>4. app'[p].main = r.main
        BY <4>1, <4>3, Zenon
      <4> QED
        BY <4>4 DEF r
    <3>2. ASSUME NEW part,
                 Becomes(p, [release_resources([r EXCEPT !.held = r.held \cup part])
                               EXCEPT !.tray = "report"])
          PROVE  app'[p].main # "crashed"
      <4>1. app'[p] = [release_resources([r EXCEPT !.held = r.held \cup part]) EXCEPT !.tray = "report"]
        BY <1>0, <3>2, Zenon
      <4>2. r \in Process
        BY <1>0
      <4> HIDE DEF r
      <4>3. app'[p].main = r.main
        BY <4>1, <4>2, FailKeepsPlace, Zenon
      <4> QED
        BY <4>3 DEF r
    <3> QED
      BY <2>1, <3>1, <3>2 DEF initialise_internal
  <2>2. CASE window_thread_entry_point(p)
    <3>1. PICK r \in {app[p]} \cup set_console_enabled(app[p], TRUE) : Becomes(p, Report(r))
      BY <2>2 DEF window_thread_entry_point
    <3>2. Sound(app[p]) /\ app[p].tray = "report"
      BY <2>2 DEF IInv, Sound, window_thread_entry_point
    <3>3. Sound(r) /\ r.tray = "report" /\ r.main = app[p].main
      BY <3>1, <3>2, ConsoleSound
    <3> QED
      BY <1>0, <3>1, <3>3, ReportSound
  <2>3. CASE event_loop(p) \/ tray_window_proc_close(p)
    BY <1>0, <2>3 DEF event_loop, tray_window_proc_close, release_resources, Process
  <2> QED
    BY <1>4, <2>1, <2>2, <2>3 DEF WindowStep
<1>5. CASE tray_window_proc_command(p)
  <2>1. PICK s \in {quit_callback(app[p])} \cup set_console_enabled(app[p], ~app[p].console_enabled) :
          Becomes(p, s)
    BY <1>5 DEF tray_window_proc_command
  <2>2. CASE s = quit_callback(app[p])
    BY <1>0, <2>1, <2>2 DEF quit_callback, Process
  <2>3. CASE s \in set_console_enabled(app[p], ~app[p].console_enabled)
    <3>1. Sound(app[p]) /\ app[p].tray = "loop"
      BY <1>5 DEF IInv, Sound, tray_window_proc_command
    <3>2. (~app[p].console_enabled) \in BOOLEAN
      BY <1>0 DEF Process
    <3>3. s.main = app[p].main
      BY <2>3, <3>1, <3>2, ConsoleSound
    <3> QED
      BY <1>0, <2>1, <3>3
  <2> QED
    BY <2>1, <2>2, <2>3
<1>6. CASE MessageBox(p) \/ Start(p) \/ Exit(p)
  BY <1>0, <1>1, <1>2, <1>6 DEF MessageBox, Start, Exit, Fresh
<1> QED
  BY <1>3, <1>4, <1>5, <1>6

\* A step of a process leaves the others where they are.
LEMMA Others ==
  ASSUME IInv, NEW p \in Processes, NEW q \in Processes \ {p},
         MainStep(q) \/ Exit(q) \/ WindowStep(q) \/ UserStep(q)
  PROVE  app'[p] = app[p]
<1>1. \A r : Becomes(q, r) => app'[p] = app[p]
  BY DEF IInv, Becomes
<1>2. CASE MainStep(q)
  BY <1>1, <1>2
  DEF MainStep, prompt_if_already_running, initialise, initialise_wait, scan_for_devices, update,
      wait_for, leave, TrayMenuManager_destructor, TrayMenuManager_joined, Main, Gone
<1>3. CASE WindowStep(q)
  BY <1>1, <1>3
  DEF WindowStep, initialise_internal, window_thread_entry_point, event_loop, tray_window_proc_close
<1>4. CASE Exit(q) \/ UserStep(q)
  BY <1>1, <1>4
  DEF Exit, UserStep, MessageBox, Start, tray_window_proc_command, console_handler, Main, Gone
<1> QED
  BY <1>2, <1>3, <1>4

\* A process can die of Ctrl+C only when ~TrayMenuManager is over.
THEOREM CtrlCDoesNoHarm == Spec => CtrlCHarmless
<1> DEFINE A == \A p \in Processes :
                  app[p].main # "crashed" /\ app'[p].main = "crashed" => app[p].main = "return"
<1>1. IInv /\ [Next]_vars => [A]_vars
  <2> SUFFICES ASSUME IInv, Next, NEW p \in Processes,
                      app[p].main # "crashed", app'[p].main = "crashed"
               PROVE  app[p].main = "return"
    OBVIOUS
  <2>1. app[p] \in Process /\ Good(app[p])
    BY DEF IInv
  <2>2. PICK q \in Processes : MainStep(q) \/ Exit(q) \/ WindowStep(q) \/ UserStep(q)
    BY DEF Next
  <2>3. q = p
    BY <2>2, Others
  <2>4. console_handler(p)
    BY <2>2, <2>3, Places DEF UserStep
  <2>5. app[p].consoles = 1 /\ ~app[p].inst
    <3>1. \A r : Becomes(p, r) => app'[p] = r
      BY DEF IInv, Becomes
    <3>2. ~Becomes(p, [app[p] EXCEPT !.handler = "loaded"])
      BY <2>1, <3>1 DEF Process
    <3>3. ~Becomes(p, [quit_callback(app[p]) EXCEPT !.handler = "none"])
      BY <2>1, <3>1 DEF Process, quit_callback
    <3> QED
      BY <2>4, <3>2, <3>3 DEF console_handler
  <2> QED
    BY <2>1, <2>5 DEF Good
<1> QED
  BY <1>1, ProgramInvariant, PTL DEF Spec, CtrlCHarmless
=============================================================================
