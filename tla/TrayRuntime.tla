---------------------------- MODULE TrayRuntime ----------------------------
(***************************************************************************)
(* The tray: Win32TrayBackend (win32_tray.py) on its own thread, the       *)
(* TrayRuntimeExperience and RuntimeStatus between it and the controller   *)
(* (runtime_ui.py), and the part of SentinelLockApplication.run that       *)
(* starts and stops it (app.py).                                           *)
(*                                                                         *)
(* Of the controller (module IdleLock) only what the tray sees is kept:    *)
(* resumes, evaluations with their outcome, the request and stop events.   *)
(* Windows and the user are external: the hidden window, its messages, the *)
(* menu and the notification icon.                                         *)
(***************************************************************************)
EXTENDS Naturals

CONSTANTS
  MaxFaults,    \* bound on failures: refused windows or icons, a dead loop, expired waits
  MaxEvents,    \* bound on inputs, resumes and locks
  MaxChoices    \* bound on menu commands

ASSUME TrayAssumption ==
  MaxFaults \in Nat /\ MaxEvents \in Nat /\ MaxChoices \in Nat

VARIABLES
  tray,         \* Win32TrayBackend: its thread, _hwnd and _start_error set or not, _ready
  win,          \* Windows: the window, the icon, WM_CLOSE queued, what the tip tells,
                \* and history: the last update of the tip was lost
  ui,           \* TrayRuntimeExperience: _backend set or not, notifications enabled
  status,       \* the snapshot of RuntimeStatus
  main,         \* the main thread: place, the IdleEvaluation observed, controller state
  forceLock, stopEvent,
  abandoned,    \* waits given up, or cut short, while the tray thread was not over
  seen,         \* history: Exit chosen, locks and resumes, balloons asked for
  used          \* events, menu choices and faults so far

vars == <<tray, win, ui, status, main, forceLock, stopEvent, abandoned, seen, used>>

State == {"active", "locked"}

\* RuntimeSnapshot and IdleEvaluation, without idle_seconds, which only the
\* wording of the tip and the menu uses.
Status     == [state : State, resumes : Nat]
Evaluation == [state : State, requested : BOOLEAN]

TrayPlace == {"none", "born", "shown", "pump", "menu", "ended", "removing", "dead"}
Turning   == {"loop", "noteResume", "resumeTip", "evaluate", "observe", "tip", "notify",
              "wait"}
MainPlace == {"start", "await", "verdict", "stop", "join", "exited"} \cup Turning

\* Of a "withdrawn" icon the removal was asked for; that Windows did it is not
\* known to the code (win32_tray.py:252) and not assumed.
IconState == {"none", "shown", "withdrawn"}
WinState  == [window : BOOLEAN, icon : IconState, closing : BOOLEAN,
              tip : State \cup {"name"}, stale : BOOLEAN]

TypeOK ==
  /\ tray \in [at : TrayPlace, hwnd : BOOLEAN, ready : BOOLEAN, error : BOOLEAN]
  /\ win \in WinState
  /\ ui \in [backend : BOOLEAN, notifications : BOOLEAN]
  /\ status \in Status
  /\ main \in [pc : MainPlace, outcome : Evaluation, state : State]
  /\ forceLock \in BOOLEAN /\ stopEvent \in BOOLEAN
  /\ abandoned \subseteq {"start", "join", "interrupt"}
  /\ seen \in [exit : BOOLEAN, locks : Nat, resumes : Nat, lockBalloons : Nat,
               resumeBalloons : Nat]
  /\ used \in [events : 0 .. MaxEvents, choices : 0 .. MaxChoices, faults : 0 .. MaxFaults]

Fault == used.faults < MaxFaults /\ used' = [used EXCEPT !.faults = @ + 1]

-----------------------------------------------------------------------------
(* Win32TrayBackend._run; stopEvent and forceLock are what the menu may change *)

TrayOnly == UNCHANGED <<ui, status, main, abandoned>>
Quiet    == TrayOnly /\ UNCHANGED <<forceLock, stopEvent, seen, used>>

\* RegisterClassW and CreateWindowExW
ShowWindow ==
  /\ tray.at = "born"
  /\ tray' = [tray EXCEPT !.at = "shown", !.hwnd = TRUE]
  /\ win' = [win EXCEPT !.window = TRUE]
  /\ Quiet

\* NIM_ADD, then _ready
AddIcon ==
  /\ tray.at = "shown"
  /\ tray' = [tray EXCEPT !.at = "pump", !.ready = TRUE]
  /\ win' = [win EXCEPT !.icon = "shown", !.tip = "name"]
  /\ Quiet

\* A call of _run fails, before or after _ready is set, and the error is kept,
\* but for a GetMessageW that returns -1: it only ends the loop.
TrayFails ==
  /\ tray.at \in {"born", "shown", "pump"}
  /\ Fault
  /\ \E raised \in BOOLEAN :
       /\ tray.at # "pump" => raised
       /\ tray' = [tray EXCEPT !.at = "ended", !.error = raised]
  /\ TrayOnly /\ UNCHANGED <<win, forceLock, stopEvent, seen>>

\* A right click: _show_menu, until the user makes a choice.
OpenMenu ==
  /\ tray.at = "pump" /\ win.window /\ used.choices < MaxChoices
  /\ tray' = [tray EXCEPT !.at = "menu"]
  /\ used' = [used EXCEPT !.choices = @ + 1]
  /\ TrayOnly /\ UNCHANGED <<win, forceLock, stopEvent, seen>>

LeaveMenu == tray.at = "menu" /\ tray' = [tray EXCEPT !.at = "pump"]

ChooseNothing == LeaveMenu /\ UNCHANGED win /\ Quiet

ChooseLockNow ==
  /\ LeaveMenu
  /\ forceLock' = TRUE
  /\ TrayOnly /\ UNCHANGED <<win, stopEvent, seen, used>>

ExitAppForgotten == UNCHANGED stopEvent     \* mutant: Exit only closes the tray
ExitApp          == stopEvent' = TRUE

\* Exit: exit_app, then DestroyWindow, whose WM_DESTROY posts WM_QUIT.
ChooseExit ==
  /\ LeaveMenu
  /\ ExitApp
  /\ win' = [win EXCEPT !.window = FALSE]
  /\ seen' = [seen EXCEPT !.exit = TRUE]
  /\ TrayOnly /\ UNCHANGED <<forceLock, used>>

\* WM_CLOSE reaches the default window procedure, also while the menu is open;
\* it destroys the window.
CloseWindow ==
  /\ tray.at \in {"pump", "menu"} /\ win.closing /\ win.window
  /\ win' = [win EXCEPT !.window = FALSE]
  /\ UNCHANGED tray /\ Quiet

\* GetMessageW returns 0 once the window is destroyed.
ReceiveQuit ==
  /\ tray.at = "pump" /\ ~win.window
  /\ tray' = [tray EXCEPT !.at = "ended"]
  /\ UNCHANGED win /\ Quiet

\* The finally block: _hwnd, NIM_DELETE, _ready.  A window that is left dies
\* with its thread.
ForgetWindow ==
  /\ tray.at = "ended"
  /\ tray' = [tray EXCEPT !.at = "removing", !.hwnd = FALSE]
  /\ UNCHANGED win /\ Quiet

\* NIM_DELETE.  Its result is ignored and an exception is only logged; after an
\* orderly stop the window it names is destroyed already.
IconUnlessForgotten ==     \* mutant: _hwnd is read again after it was cleared
  IF win.icon = "shown" /\ tray.hwnd THEN "withdrawn" ELSE win.icon
IconAfterDelete ==
  IF win.icon = "shown" THEN "withdrawn" ELSE win.icon

ReadyUnset == tray.ready     \* mutant: a tray that failed leaves _ready unset
ReadyAtEnd == TRUE

RemoveIcon ==
  /\ tray.at = "removing"
  /\ tray' = [tray EXCEPT !.at = "dead", !.ready = ReadyAtEnd]
  /\ win' = [win EXCEPT !.window = FALSE, !.icon = IconAfterDelete]
  /\ Quiet

-----------------------------------------------------------------------------
(* The main thread: TrayRuntimeExperience.start *)

Goto(pc) == main' = [main EXCEPT !.pc = pc]

MainOnly == UNCHANGED <<tray, win, forceLock, stopEvent>>
Step(from, to) ==
  /\ main.pc = from /\ Goto(to)
  /\ MainOnly /\ UNCHANGED <<ui, status, abandoned, seen, used>>

GiveUp(wait) ==
  abandoned' = IF tray.at = "dead" THEN abandoned ELSE abandoned \cup {wait}

\* Win32TrayBackend.start: the thread is created, then _ready awaited.
StartTray ==
  /\ main.pc = "start" /\ Goto("await")
  /\ tray' = [tray EXCEPT !.at = "born"]
  /\ UNCHANGED <<win, ui, status, forceLock, stopEvent, abandoned, seen, used>>

Ready == tray.ready /\ Step("await", "verdict")

\* Five seconds are over: start fails, the application runs without a tray, and
\* nobody will stop the thread.
ReadyExpires ==
  /\ main.pc = "await" /\ ~tray.ready /\ Goto("loop")
  /\ Fault
  /\ abandoned' = abandoned \cup {"start"}
  /\ MainOnly /\ UNCHANGED <<ui, status, seen>>

\* _start_error is raised, or _backend is set.
Started ==
  /\ main.pc = "verdict" /\ Goto("loop")
  /\ ui' = [ui EXCEPT !.backend = ~tray.error]
  /\ IF tray.error THEN GiveUp("start") ELSE UNCHANGED abandoned
  /\ MainOnly /\ UNCHANGED <<status, seen, used>>

-----------------------------------------------------------------------------
(* The main thread: IdleLockController.run, with its two observers *)

Event_ == used.events < MaxEvents /\ used' = [used EXCEPT !.events = @ + 1]

\* A turn without a resume, or the stop event.
Turn == \/ ~stopEvent /\ Step("loop", "evaluate")
        \/ stopEvent /\ Step("loop", "stop")

\* A turn that detects a resume: handle_resume.
Resume ==
  /\ main.pc = "loop" /\ ~stopEvent
  /\ Event_
  /\ main' = [main EXCEPT !.pc = "noteResume", !.state = "active"]
  /\ forceLock' = FALSE
  /\ seen' = [seen EXCEPT !.resumes = @ + 1]
  /\ UNCHANGED <<tray, win, ui, status, stopEvent, abandoned>>

Shown    == ui.backend /\ tray.hwnd           \* update_tip and notify reach the icon
Balloons == IF Shown /\ ui.notifications THEN 1 ELSE 0

\* update_tip does nothing once the tray has died.  NIM_MODIFY may be refused,
\* without a fault when its window is destroyed; its result is ignored.
SetTip(text) ==
  \/ ~Shown /\ UNCHANGED <<win, used>>
  \/ /\ Shown /\ UNCHANGED used
     /\ win' = [win EXCEPT !.tip = text, !.stale = FALSE]
  \/ /\ Shown /\ (IF win.window THEN Fault ELSE UNCHANGED used)
     /\ win' = [win EXCEPT !.stale = TRUE]

\* RuntimeStatus.note_resume, and the early return of note_resume.
NoteResume ==
  /\ main.pc = "noteResume"
  /\ Goto(IF ui.backend THEN "resumeTip" ELSE "evaluate")
  /\ status' = [state |-> "active", resumes |-> status.resumes + 1]
  /\ MainOnly /\ UNCHANGED <<ui, abandoned, seen, used>>

\* Tip and balloon of a resume
TellResume ==
  /\ main.pc = "resumeTip" /\ Goto("evaluate")
  /\ SetTip("active")
  /\ seen' = [seen EXCEPT !.resumeBalloons = @ + Balloons]
  /\ UNCHANGED <<tray, ui, status, forceLock, stopEvent, abandoned>>

\* evaluate_once.  A fresh input leads to the active state; a request or the
\* timeout asks for a lock of an armed controller, which the adapter may refuse.
Evaluate ==
  /\ main.pc = "evaluate"
  /\ \E fresh, due, refused \in BOOLEAN :
       LET before == IF fresh THEN "active" ELSE main.state
           lock   == before = "active" /\ (forceLock \/ due) /\ ~refused
           after  == IF lock THEN "locked" ELSE before
       IN
       /\ IF fresh \/ lock THEN Event_ ELSE UNCHANGED used
       /\ main' = [pc |-> "observe", state |-> after,
                   outcome |-> [state |-> after, requested |-> lock]]
       /\ seen' = [seen EXCEPT !.locks = IF lock THEN @ + 1 ELSE @]
  /\ forceLock' = FALSE
  /\ UNCHANGED <<tray, win, ui, status, stopEvent, abandoned>>

LockTold  == ui.backend /\ main.outcome.requested     \* mutant: only locks are told
StateTold == ui.backend

\* RuntimeStatus.observe, and observe up to its early return
Observe ==
  /\ main.pc = "observe"
  /\ Goto(IF StateTold THEN "tip" ELSE "wait")
  /\ status' = [state |-> main.outcome.state, resumes |-> status.resumes]
  /\ MainOnly /\ UNCHANGED <<ui, abandoned, seen, used>>

UpdateTip ==
  /\ main.pc = "tip" /\ Goto("notify")
  /\ SetTip(status.state)
  /\ UNCHANGED <<tray, ui, status, forceLock, stopEvent, abandoned, seen>>

\* update_tip raises: observe gives up, without a balloon.
TipFails ==
  /\ main.pc \in {"resumeTip", "tip"} /\ Shown /\ Fault
  /\ Goto(IF main.pc = "tip" THEN "wait" ELSE "evaluate")
  /\ win' = [win EXCEPT !.stale = TRUE]
  /\ UNCHANGED <<tray, ui, status, forceLock, stopEvent, abandoned, seen>>

LockShown     == main.outcome.state = "locked"     \* mutant: one balloon a locked turn
LockRequested == main.outcome.requested

Notify ==
  /\ main.pc = "notify" /\ Goto("wait")
  /\ seen' = [seen EXCEPT !.lockBalloons = IF LockRequested THEN @ + Balloons ELSE @]
  /\ MainOnly /\ UNCHANGED <<ui, status, abandoned, used>>

\* stop_event.wait returns, on the event or after the poll interval.
Wake == Step("wait", "loop")

-----------------------------------------------------------------------------
(* The main thread: the finally block of run, TrayRuntimeExperience.stop *)

ClosedUnposted == win.closing     \* mutant: the backend is dropped and not told
Closed         == win.closing \/ Shown

\* WM_CLOSE is posted unless the tray has forgotten its window.
Stop ==
  /\ main.pc = "stop" /\ Goto(IF ui.backend THEN "join" ELSE "exited")
  /\ win' = [win EXCEPT !.closing = Closed]
  /\ ui' = [ui EXCEPT !.backend = FALSE]
  /\ UNCHANGED <<tray, status, forceLock, stopEvent, abandoned, seen, used>>

Join == tray.at = "dead" /\ Step("join", "exited")

\* Two seconds are over.
JoinExpires ==
  /\ main.pc = "join" /\ Goto("exited")
  /\ GiveUp("join") /\ tray.at # "dead"
  /\ MainOnly /\ UNCHANGED <<ui, status, seen, used>>

\* Ctrl+C.  No handler catches a KeyboardInterrupt during start, so the tray of
\* that moment is not stopped: runtime_started is still False.  Nothing resumes
\* an interrupted cleanup.
Interrupt ==
  /\ IF main.pc \in Turning
     THEN Goto("stop") /\ UNCHANGED abandoned
     ELSE main.pc # "exited" /\ Goto("exited") /\ GiveUp("interrupt")
  /\ MainOnly /\ UNCHANGED <<ui, status, seen, used>>

-----------------------------------------------------------------------------
Init ==
  /\ tray = [at |-> "none", hwnd |-> FALSE, ready |-> FALSE, error |-> FALSE]
  /\ win = [window |-> FALSE, icon |-> "none", closing |-> FALSE, tip |-> "name",
            stale |-> FALSE]
  /\ ui \in [backend : {FALSE}, notifications : BOOLEAN]
  /\ status = [state |-> "active", resumes |-> 0]
  /\ main = [pc |-> "start", state |-> "active",
             outcome |-> [state |-> "active", requested |-> FALSE]]
  /\ forceLock = FALSE /\ stopEvent = FALSE /\ abandoned = {}
  /\ seen = [exit |-> FALSE, locks |-> 0, resumes |-> 0, lockBalloons |-> 0,
             resumeBalloons |-> 0]
  /\ used = [events |-> 0, choices |-> 0, faults |-> 0]

MainStep ==
  \/ StartTray \/ Ready \/ Started
  \/ Turn \/ NoteResume \/ TellResume \/ Evaluate \/ Observe \/ UpdateTip \/ Notify \/ Wake
  \/ Stop \/ Join

TrayStep ==
  \/ ShowWindow \/ AddIcon
  \/ CloseWindow \/ ReceiveQuit
  \/ ForgetWindow \/ RemoveIcon

Menu == OpenMenu \/ ChooseNothing \/ ChooseLockNow \/ ChooseExit

Next ==
  \/ MainStep
  \/ TrayStep
  \/ Menu
  \/ TrayFails \/ ReadyExpires \/ TipFails \/ JoinExpires
  \/ Resume
  \/ Interrupt

Spec == Init /\ [][Next]_vars

\* Both threads are scheduled, and Windows closes the menu of a window that was
\* destroyed.  The user, failures and expired waits are not forced.
Fairness ==
  /\ WF_vars(MainStep)
  /\ WF_vars(TrayStep)
  /\ WF_vars(~win.window /\ ChooseNothing)

FairSpec == Spec /\ Fairness

-----------------------------------------------------------------------------
(* Safety *)

\* Between two turns the status the menu shows tells the state the controller
\* is in and every resume it went through, with a tray or without one.  The tip
\* of a living icon agrees with it before the next turn, also after earlier
\* failures, unless the very update of this turn was refused or raised.
StatusHonest ==
  main.pc \in {"loop", "wait"} =>
    /\ status.state = main.state
    /\ status.resumes = seen.resumes
    /\ main.pc = "wait" /\ Shown /\ ~win.stale => win.tip = status.state

\* The user is told of a lock or a resume at most once, of none that did not
\* happen, and of nothing when notifications are disabled.
NoFalseBalloon ==
  /\ seen.lockBalloons <= seen.locks /\ seen.resumeBalloons <= seen.resumes
  /\ ~ui.notifications => seen.lockBalloons + seen.resumeBalloons = 0

\* No tray forgets its icon: a thread that is over has asked Windows to remove
\* it, whether it ended by Exit, stop or a failure and also when its start had
\* been given up (win32_tray.py:245-252); and a shutdown that gave up no wait
\* leaves no thread behind that still has to ask.
IconNeverForgotten ==
  /\ tray.at = "dead" => win.icon # "shown"
  /\ main.pc = "exited" /\ abandoned = {} => tray.at \in {"none", "dead"}

-----------------------------------------------------------------------------
(* Liveness, under FairSpec *)

\* The start of a tray that fails ends without its timeout: the thread sets
\* _ready on every path (win32_tray.py:236,256).
StartSettles == main.pc = "await" ~> main.pc # "await"

\* Exit in the menu ends the application (RUNTIME_EXPERIENCE.md, "requests
\* graceful application shutdown"), also from a tray whose start was given up.
ExitEndsRuntime == seen.exit ~> main.pc = "exited"

\* A stopped tray thread ends, also when its menu is open.
StopEndsTray == main.pc = "join" ~> tray.at = "dead" \/ "interrupt" \in abandoned
=============================================================================
