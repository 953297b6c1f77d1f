------------------------------ MODULE Application ------------------------------
(***************************************************************************)
(* The process around the drives: WinMain, scan_for_devices, and           *)
(* TrayMenuManager with the thread of its window, its menu, the console    *)
(* and the Ctrl+C handler.  Several processes may be started.  What a scan *)
(* does with the devices is Lifecycle's; here it returns or throws.        *)
(***************************************************************************)
EXTENDS Integers, Sequences

CONSTANT Processes

VARIABLES
  named,  \* the processes with a handle of NandroidFS_Mutex
  app     \* the processes

vars == <<named, app>>

\* What initialise_internal acquires, in order; NIM_SETVERSION acquires nothing.
Stages == <<"class", "window", "icon", "menu", "tray", "none">>
Resources == {"class", "window", "icon", "menu", "tray"}

Process ==
  [main : {"start", "refused", "constructed", "initialise", "loop", "update", "wait", "tracker",
           "failed", "shutdown", "message", "close", "join", "return", "exited", "crashed"},
   tray : {"none", "initialise", "report", "loop", "done"}, \* the window's thread
   stage : 1..Len(Stages),      \* the next step of initialise_internal
   held : SUBSET Resources,     \* what the window's thread has acquired
   releases : 0..2,             \* calls of release_resources, capped
   window : BOOLEAN,            \* tray_icon_window is not NULL
   closing : BOOLEAN,           \* WM_CLOSE is in the window's queue
   init_process_finished : BOOLEAN, shutdown_requested : BOOLEAN,
   console_enabled : BOOLEAN,
   consoles : 0..1,             \* consoles allocated
   inst : BOOLEAN,              \* TrayMenuManager::inst is not null
   handler : {"none", "loaded"} \* a Ctrl+C handler that has loaded inst
  ]

\* A process allocates at most one console.
TypeOK == named \subseteq Processes /\ app \in [Processes -> Process]

Fresh ==
  [main |-> "start", tray |-> "none", stage |-> 1, held |-> {}, releases |-> 0, window |-> FALSE,
   closing |-> FALSE, init_process_finished |-> FALSE, shutdown_requested |-> FALSE,
   console_enabled |-> FALSE, consoles |-> 0, inst |-> FALSE, handler |-> "none"]

Init == named = {} /\ app = [p \in Processes |-> Fresh]

Becomes(p, r) == app' = [app EXCEPT ![p] = r]
Main(p, pc) == Becomes(p, [app[p] EXCEPT !.main = pc])

\* The process is gone, and Windows closes its handles.
Gone(p, pc) == Becomes(p, [Fresh EXCEPT !.main = pc]) /\ named' = named \ {p}

-----------------------------------------------------------------------------
(* The main thread.                                                        *)

\* Faulty variant of AlreadyRunning: it asks for a program that scans.
AlreadyRunning_scanning == \E q \in Processes : app[q].main \in {"loop", "update", "wait"}

AlreadyRunning == named # {}

\* The named mutex is created or, if it exists, opened; a process that finds
\* it shows a message, still with its handle.  CreateMutex may fail.
prompt_if_already_running(p) ==
  /\ app[p].main = "start"
  /\ \/ named' = named \cup {p} /\ Main(p, IF AlreadyRunning THEN "refused" ELSE "constructed")
     \/ Gone(p, "exited")

\* Faulty variant of TrayMenuManager: inst is not set.
TrayMenuManager_anonymous(r) == r

TrayMenuManager(r) == [r EXCEPT !.inst = TRUE]

\* TrayMenuManager is constructed, and initialise starts the window's thread.
initialise(p) ==
  /\ app[p].main = "constructed"
  /\ Becomes(p, [TrayMenuManager(app[p]) EXCEPT !.main = "initialise", !.tray = "initialise"])
  /\ UNCHANGED named

initialise_wait(p) ==
  /\ app[p].main = "initialise" /\ app[p].init_process_finished
  /\ Main(p, "loop")
  /\ UNCHANGED named

scan_for_devices(p) ==
  /\ app[p].main = "loop"
  /\ Main(p, IF app[p].shutdown_requested THEN "tracker" ELSE "update")
  /\ UNCHANGED named

\* update_connected_devices, without shutdown_mutex; it may throw.
update(p) ==
  /\ app[p].main = "update"
  /\ \E pc \in {"wait", "failed"} : Main(p, pc)
  /\ UNCHANGED named

\* Faulty variant of wait_for: it has no timeout.
wait_for_ever(p) == FALSE /\ UNCHANGED vars

\* The wait is over after a second (see quit_callback for the other reason).
wait_for(p) ==
  /\ app[p].main = "wait"
  /\ Main(p, "loop")
  /\ UNCHANGED named

\* ~DeviceTracker, DokanShutdown and, after an exception, the message to the user.
leave(p) ==
  /\ app[p].main \in {"tracker", "failed", "shutdown"}
  /\ Main(p, CASE app[p].main = "tracker"  -> "shutdown"
               [] app[p].main = "failed"   -> "message"
               [] app[p].main = "shutdown" -> "close")
  /\ UNCHANGED named

\* The user closes the message box.
MessageBox(p) ==
  /\ app[p].main = "message"
  /\ Main(p, "close")
  /\ UNCHANGED named

TrayMenuManager_destructor(p) ==
  /\ app[p].main = "close"
  /\ Becomes(p, [app[p] EXCEPT !.main = "join", !.closing = app[p].window])
  /\ UNCHANGED named

TrayMenuManager_joined(p) ==
  /\ app[p].main = "join" /\ app[p].tray = "done"
  /\ Becomes(p, [app[p] EXCEPT !.main = "return", !.inst = FALSE])
  /\ UNCHANGED named

\* The process ends, or the user closes the message of one that was refused.
Exit(p) ==
  /\ app[p].main \in {"return", "refused"}
  /\ Gone(p, "exited")

\* The program is started again.
Start(p) == app[p].main \in {"exited", "crashed"} /\ Becomes(p, Fresh) /\ UNCHANGED named

-----------------------------------------------------------------------------
(* The window's thread.                                                    *)

\* Faulty variant of release_resources: tray_icon_window is NULL before the
\* window is destroyed, and its class stays in use.
release_resources_null_first(r) ==
  [r EXCEPT !.held = @ \ {"tray", "icon"}, !.window = FALSE, !.closing = FALSE, !.releases = 1]

\* All but the menu.
release_resources(r) ==
  [r EXCEPT !.held = @ \ {"tray", "window", "icon", "class"}, !.window = FALSE, !.closing = FALSE,
            !.releases = IF @ = 0 THEN 1 ELSE 2]

\* A step of initialise_internal; when it fails (with the menu perhaps
\* created, but without its items) what was acquired is released.
initialise_internal(p) ==
  LET r == app[p]
      got == {Stages[r.stage]} \cap Resources
  IN  /\ r.tray = "initialise"
      /\ \/ Becomes(p, [r EXCEPT !.tray = IF r.stage = Len(Stages) THEN "report" ELSE @,
                                 !.stage = IF @ = Len(Stages) THEN @ ELSE @ + 1,
                                 !.held = @ \cup got, !.window = @ \/ "window" \in got])
         \/ \E part \in SUBSET (got \cap {"menu"}) :
              Becomes(p, [release_resources([r EXCEPT !.held = @ \cup part]) EXCEPT !.tray = "report"])
      /\ UNCHANGED named

\* Faulty variant of set_console_enabled: a console is allocated each time.
set_console_enabled_anew(r, new) ==
  {r} \cup {[r EXCEPT !.console_enabled = new, !.consoles = IF new THEN @ + 1 ELSE @]}

\* What it may lead to: AllocConsole can fail.
set_console_enabled(r, new) ==
  IF new = r.console_enabled THEN {r}
  ELSE {[r EXCEPT !.console_enabled = new, !.consoles = IF new THEN 1 ELSE @]}
       \cup (IF new /\ r.consoles = 0 THEN {r} ELSE {})

\* Faulty variant of Report: only a success is reported.
Report_success(r) == [r EXCEPT !.init_process_finished = r.window, !.tray = "loop"]

Report(r) == [r EXCEPT !.init_process_finished = TRUE, !.tray = "loop"]

\* The end of initialisation is reported; a debug build shows the console first.
window_thread_entry_point(p) ==
  /\ app[p].tray = "report"
  /\ \E r \in {app[p]} \cup set_console_enabled(app[p], TRUE) : Becomes(p, Report(r))
  /\ UNCHANGED named

\* The callback given by WinMain: it sets shutdown_requested and, if the main
\* thread is in wait_for, wakes it.
quit_callback(r) ==
  [r EXCEPT !.shutdown_requested = TRUE, !.main = IF @ = "wait" THEN "loop" ELSE @]

\* The window's procedure, for WM_CLOSE and for the two items of the menu.
tray_window_proc_close(p) ==
  /\ app[p].tray = "loop" /\ app[p].closing
  /\ Becomes(p, release_resources(app[p]))
  /\ UNCHANGED named

tray_window_proc_command(p) ==
  LET r == app[p]
  IN  /\ r.tray = "loop" /\ "tray" \in r.held
      /\ \E s \in {quit_callback(r)} \cup set_console_enabled(r, ~r.console_enabled) : Becomes(p, s)
      /\ UNCHANGED named

event_loop(p) ==
  /\ app[p].tray = "loop" /\ ~app[p].window
  /\ Becomes(p, [app[p] EXCEPT !.tray = "done"])
  /\ UNCHANGED named

-----------------------------------------------------------------------------
(* Ctrl+C in the console, on a thread of its own.                          *)

\* The handler loads inst, and then calls through it: inst may be null, or
\* point to what has been destroyed in between, and still work or not.
console_handler(p) ==
  LET r == app[p]
  IN  /\ r.consoles = 1
      /\ \/ r.handler = "none" /\ r.inst /\ Becomes(p, [r EXCEPT !.handler = "loaded"]) /\ UNCHANGED named
         \/ r.handler = "loaded" /\ Becomes(p, [quit_callback(r) EXCEPT !.handler = "none"]) /\ UNCHANGED named
         \/ ~r.inst /\ Gone(p, "crashed")

-----------------------------------------------------------------------------
MainStep(p) ==
  \/ prompt_if_already_running(p) \/ initialise(p) \/ initialise_wait(p) \/ scan_for_devices(p)
  \/ update(p) \/ wait_for(p) \/ leave(p) \/ TrayMenuManager_destructor(p)
  \/ TrayMenuManager_joined(p)
WindowStep(p) ==
  \/ initialise_internal(p) \/ window_thread_entry_point(p) \/ event_loop(p)
  \/ tray_window_proc_close(p)
UserStep(p) ==
  MessageBox(p) \/ Start(p) \/ tray_window_proc_command(p) \/ console_handler(p)

Next == \E p \in Processes : MainStep(p) \/ Exit(p) \/ WindowStep(p) \/ UserStep(p)

\* Both threads of a process run.  The user need not do anything: not close a
\* message box, not quit.
Spec ==
  /\ Init /\ [][Next]_vars
  /\ \A p \in Processes :
       /\ WF_vars(MainStep(p)) /\ WF_vars(WindowStep(p))
       /\ WF_vars(app[p].main = "return" /\ Exit(p))

-----------------------------------------------------------------------------
(* Properties.                                                             *)

\* However the starts and the ends of processes interleave, one process at
\* most gets past prompt_if_already_running: "Only one instance is allowed
\* at any one time."
OneInstance ==
  \A p, q \in Processes :
    ( /\ app[p].main \notin {"start", "refused", "exited", "crashed"}
      /\ app[q].main \notin {"start", "refused", "exited", "crashed"} ) => p = q

\* Wherever initialise_internal fails, and whenever the program quits, the
\* window's thread has given back the icon in the tray, the window, its icon
\* and its class, when ~TrayMenuManager is over; and it does so once only, as
\* release_resources leaves the flags and the handles it has used in place.
\* (The menu is not given back: nothing calls DestroyMenu.)
ResourcesReleased ==
  \A p \in Processes :
    /\ app[p].releases <= 1
    /\ app[p].main = "return" => app[p].held \subseteq {"menu"}

\* Ctrl+C goes through TrayMenuManager::inst without a test.  The process can
\* only die of it when ~TrayMenuManager is over, with the drives unmounted,
\* Dokan shut down and the icon gone, and never while there is work to undo.
CtrlCHarmless ==
  [][\A p \in Processes :
       app[p].main # "crashed" /\ app'[p].main = "crashed" => app[p].main = "return"]_vars

\* initialise returns, whichever of its steps fails on the other thread.
InitialiseReturns == \A p \in Processes : []<>(app[p].main # "initialise")

\* Quit in the menu, and Ctrl+C, end the program (or it reports an exception
\* and waits for the user), also when they come during a scan, where nobody
\* waits for the notification.  Fairness: see Spec.
QuitEndsProgram ==
  \A p \in Processes : []<>(~app[p].shutdown_requested \/ app[p].main = "message")
=============================================================================
