------------------------- MODULE TrayRuntime_proofs -------------------------
(***************************************************************************)
(* Proofs about TrayRuntime for any number of failures, events and menu    *)
(* choices: the status is honest, no balloon is false, and no tray thread  *)
(* ends without asking for the removal of its icon.                        *)
(***************************************************************************)
EXTENDS TrayRuntime, TLAPS

TrayState == [at : TrayPlace, hwnd : BOOLEAN, ready : BOOLEAN, error : BOOLEAN]

\* What the place of the tray thread tells of its fields and of the icon
TrayShape ==
  /\ tray.hwnd => tray.at \in {"shown", "pump", "menu", "ended"}
  /\ tray.ready => tray.at \in {"pump", "menu", "ended", "removing", "dead"}
  /\ win.icon = "shown" => tray.at \notin {"none", "born", "shown", "dead"}

\* The tray is used once its start has succeeded, and not before.
Usage ==
  /\ ui.backend => tray.ready
  /\ main.pc = "start" => tray.at = "none"
  /\ main.pc \in {"start", "await", "verdict"} => ~ui.backend
  /\ main.pc = "verdict" => tray.ready

\* A tray that nobody will stop is dead, or its wait was given up.
Accounted ==
  abandoned = {} =>
    /\ main.pc \in Turning \cup {"stop"} /\ ~ui.backend => tray.at = "dead"
    /\ main.pc = "exited" => tray.at = "dead"

\* Where the status has caught up with the controller
Settled == MainPlace \ {"noteResume", "observe", "stop", "join", "exited"}

Caught ==
  /\ main.pc \in Settled => status.state = main.state /\ status.resumes = seen.resumes
  /\ main.pc = "noteResume" => main.state = "active" /\ status.resumes + 1 = seen.resumes
  /\ main.pc = "observe" => /\ main.outcome.state = main.state
                            /\ status.resumes = seen.resumes
  /\ main.pc \in {"notify", "wait"} /\ Shown /\ ~win.stale => win.tip = status.state

\* A balloon that is still to come is not counted yet.
Told ==
  /\ NoFalseBalloon
  /\ main.pc \in {"observe", "tip", "notify"} /\ main.outcome.requested
       => seen.lockBalloons < seen.locks
  /\ main.pc \in {"noteResume", "resumeTip"} => seen.resumeBalloons < seen.resumes

Inv == TypeOK /\ TrayShape /\ Usage /\ Accounted /\ Caught /\ Told

USE TrayAssumption

LEMMA InvInit == Init => Inv
<1> SUFFICES ASSUME Init PROVE Inv
  OBVIOUS
<1> USE DEF Init
<1>1. TypeOK
  <2>1. tray \in TrayState /\ abandoned = {} /\ forceLock \in BOOLEAN /\ stopEvent \in BOOLEAN
    BY DEF TrayState, TrayPlace
  <2>2. win \in WinState
    BY DEF WinState, IconState
  <2>3. main \in [pc : MainPlace, outcome : Evaluation, state : State] /\ status \in Status
    BY DEF MainPlace, Turning, State, Status, Evaluation
  <2>4. seen \in [exit : BOOLEAN, locks : Nat, resumes : Nat, lockBalloons : Nat,
                  resumeBalloons : Nat]
    OBVIOUS
  <2>5. used \in [events : 0 .. MaxEvents, choices : 0 .. MaxChoices, faults : 0 .. MaxFaults]
    OBVIOUS
  <2>6. ui \in [backend : BOOLEAN, notifications : BOOLEAN]
    OBVIOUS
  <2>7. QED
    BY <2>1, <2>2, <2>3, <2>4, <2>5, <2>6 DEF TypeOK, TrayState
<1>2. TrayShape /\ Usage
  BY DEF TrayShape, Usage
<1>3. Accounted /\ Caught
  BY DEF Accounted, Caught, Turning, Shown
<1>4. Told
  BY DEF Told, NoFalseBalloon
<1>5. QED
  BY <1>1, <1>2, <1>3, <1>4 DEF Inv

-----------------------------------------------------------------------------
(* Types *)

LEMMA FaultTyped ==
  ASSUME TypeOK, Fault
  PROVE  used' \in [events : 0 .. MaxEvents, choices : 0 .. MaxChoices,
                    faults : 0 .. MaxFaults]
<1> DEFINE f == used.faults + 1
<1>1. f \in 0 .. MaxFaults
  BY DEF TypeOK, Fault
<1>2. used' = [used EXCEPT !.faults = f]
  BY DEF Fault
<1>3. QED
  BY <1>1, <1>2 DEF TypeOK

LEMMA EventTyped ==
  ASSUME TypeOK, Event_
  PROVE  used' \in [events : 0 .. MaxEvents, choices : 0 .. MaxChoices,
                    faults : 0 .. MaxFaults]
<1> DEFINE e == used.events + 1
<1>1. e \in 0 .. MaxEvents
  BY DEF TypeOK, Event_
<1>2. used' = [used EXCEPT !.events = e]
  BY DEF Event_
<1>3. QED
  BY <1>1, <1>2 DEF TypeOK

LEMMA TypeTray == TypeOK /\ (TrayStep \/ Menu \/ TrayFails) => TypeOK'
<1> SUFFICES ASSUME TypeOK, TrayStep \/ Menu \/ TrayFails PROVE TypeOK'
  OBVIOUS
<1> USE DEF TypeOK, WinState, IconState, TrayPlace, State, TrayOnly, Quiet
<1>1. CASE ShowWindow
  BY <1>1 DEF ShowWindow
<1>2. CASE AddIcon
  BY <1>2 DEF AddIcon
<1>3. CASE CloseWindow
  <2>1. win' \in WinState
    BY <1>3 DEF CloseWindow
  <2>2. QED
    BY <1>3, <2>1 DEF CloseWindow
<1>4. CASE ReceiveQuit
  <2>1. tray' \in TrayState
    BY <1>4 DEF ReceiveQuit, TrayState
  <2>2. QED
    BY <1>4, <2>1 DEF ReceiveQuit, TrayState
<1>5. CASE ForgetWindow
  <2>1. tray' \in TrayState
    BY <1>5 DEF ForgetWindow, TrayState
  <2>2. QED
    BY <1>5, <2>1 DEF ForgetWindow, TrayState
<1>6. CASE RemoveIcon
  BY <1>6 DEF RemoveIcon, ReadyAtEnd, IconAfterDelete
<1>7. CASE OpenMenu
  BY <1>7 DEF OpenMenu
<1>8. CASE ChooseNothing
  BY <1>8 DEF ChooseNothing, LeaveMenu
<1>9. CASE ChooseLockNow
  BY <1>9 DEF ChooseLockNow, LeaveMenu
<1>10. CASE ChooseExit
  BY <1>10 DEF ChooseExit, LeaveMenu, ExitApp
<1>11. CASE TrayFails
  <2>0. PICK raised \in BOOLEAN : tray' = [tray EXCEPT !.at = "ended", !.error = raised]
    BY <1>11 DEF TrayFails
  <2>1. tray' \in TrayState
    BY <2>0 DEF TrayState
  <2>2. /\ Fault
        /\ UNCHANGED <<win, ui, status, main, abandoned, forceLock, stopEvent, seen>>
    BY <1>11 DEF TrayFails
  <2>3. used' \in [events : 0 .. MaxEvents, choices : 0 .. MaxChoices,
                   faults : 0 .. MaxFaults]
    BY <2>2, FaultTyped
  <2> HIDE DEF WinState, IconState, State, TrayPlace
  <2>4. QED
    BY <2>1, <2>2, <2>3 DEF TrayState
<1>12. QED
  BY <1>1, <1>2, <1>3, <1>4, <1>5, <1>6, <1>7, <1>8, <1>9, <1>10, <1>11 DEF TrayStep, Menu

\* What an update of the tip does, whether Windows takes it or not
LEMMA TipEffect ==
  ASSUME NEW text \in State, TypeOK, SetTip(text)
  PROVE  /\ win' \in WinState
         /\ win'.window = win.window /\ win'.icon = win.icon /\ win'.closing = win.closing
         /\ Shown /\ ~win'.stale => win'.tip = text
         /\ used' \in [events : 0 .. MaxEvents, choices : 0 .. MaxChoices,
                       faults : 0 .. MaxFaults]
<1>1. used' \in [events : 0 .. MaxEvents, choices : 0 .. MaxChoices, faults : 0 .. MaxFaults]
  BY FaultTyped DEF SetTip, TypeOK
<1>2. \/ ~Shown /\ win' = win
      \/ win' = [win EXCEPT !.tip = text, !.stale = FALSE]
      \/ win' = [win EXCEPT !.stale = TRUE]
  BY DEF SetTip
<1>3. CASE ~Shown /\ win' = win
  BY <1>1, <1>3 DEF TypeOK
<1>4. CASE win' = [win EXCEPT !.tip = text, !.stale = FALSE]
  <2>1. win \in WinState /\ text \in State
    BY DEF TypeOK
  <2>2. /\ win' \in WinState /\ win'.tip = text
        /\ win'.window = win.window /\ win'.icon = win.icon /\ win'.closing = win.closing
    BY <1>4, <2>1 DEF WinState
  <2>3. QED
    BY <1>1, <2>2
<1>5. CASE win' = [win EXCEPT !.stale = TRUE]
  <2>1. win \in WinState
    BY DEF TypeOK
  <2>2. /\ win' \in WinState /\ win'.stale
        /\ win'.window = win.window /\ win'.icon = win.icon /\ win'.closing = win.closing
    BY <1>5, <2>1 DEF WinState
  <2>3. QED
    BY <1>1, <2>2
<1>6. QED
  BY <1>2, <1>3, <1>4, <1>5

LEMMA TipOnly ==
  ASSUME TypeOK, TellResume \/ UpdateTip
  PROVE  win'.window = win.window /\ win'.icon = win.icon /\ win'.closing = win.closing
<1>1. CASE TellResume
  <2>1. SetTip("active") /\ "active" \in State
    BY <1>1 DEF TellResume, State
  <2>2. QED
    BY <2>1, TipEffect
<1>2. CASE UpdateTip
  <2>1. SetTip(status.state) /\ status.state \in State
    BY <1>2 DEF UpdateTip, TypeOK, Status
  <2>2. QED
    BY <2>1, TipEffect
<1>3. QED
  BY <1>1, <1>2

\* What an evaluation does, whatever it decides
LEMMA EvaluateEffect ==
  ASSUME TypeOK, Evaluate
  PROVE  /\ main.pc = "evaluate" /\ main'.pc = "observe"
         /\ main' \in [pc : MainPlace, outcome : Evaluation, state : State]
         /\ main'.outcome.state = main'.state
         /\ seen' \in [exit : BOOLEAN, locks : Nat, resumes : Nat, lockBalloons : Nat,
                       resumeBalloons : Nat]
         /\ seen'.locks = IF main'.outcome.requested THEN seen.locks + 1 ELSE seen.locks
         /\ seen'.resumes = seen.resumes /\ seen'.lockBalloons = seen.lockBalloons
         /\ seen'.resumeBalloons = seen.resumeBalloons
         /\ used' \in [events : 0 .. MaxEvents, choices : 0 .. MaxChoices,
                       faults : 0 .. MaxFaults]
         /\ forceLock' = FALSE
         /\ UNCHANGED <<tray, win, ui, status, stopEvent, abandoned>>
<1>1. PICK fresh, due, refused \in BOOLEAN :
        LET before == IF fresh THEN "active" ELSE main.state
            lock   == before = "active" /\ (forceLock \/ due) /\ ~refused
            after  == IF lock THEN "locked" ELSE before
        IN
        /\ IF fresh \/ lock THEN Event_ ELSE UNCHANGED used
        /\ main' = [pc |-> "observe", state |-> after,
                    outcome |-> [state |-> after, requested |-> lock]]
        /\ seen' = [seen EXCEPT !.locks = IF lock THEN @ + 1 ELSE @]
  BY DEF Evaluate
<1>2. PICK after \in State, lock \in BOOLEAN :
        /\ main' = [pc |-> "observe", state |-> after,
                    outcome |-> [state |-> after, requested |-> lock]]
        /\ seen' = [seen EXCEPT !.locks = IF lock THEN @ + 1 ELSE @]
  BY <1>1 DEF TypeOK, State
<1>3. used' \in [events : 0 .. MaxEvents, choices : 0 .. MaxChoices,
                 faults : 0 .. MaxFaults]
  <2>1. Event_ \/ UNCHANGED used
    BY <1>1
  <2>2. QED
    BY <2>1, EventTyped DEF TypeOK
<1>4. main' \in [pc : MainPlace, outcome : Evaluation, state : State]
  BY <1>2 DEF MainPlace, Turning, Evaluation
<1>5. CASE lock
  BY <1>2, <1>3, <1>4, <1>5 DEF Evaluate, TypeOK
<1>6. CASE ~lock
  BY <1>2, <1>3, <1>4, <1>6 DEF Evaluate, TypeOK
<1>7. QED
  BY <1>5, <1>6

LEMMA ResumeEffect ==
  ASSUME TypeOK, Resume
  PROVE  /\ main.pc = "loop" /\ main'.pc = "noteResume" /\ main'.state = "active"
         /\ main' \in [pc : MainPlace, outcome : Evaluation, state : State]
         /\ seen' \in [exit : BOOLEAN, locks : Nat, resumes : Nat, lockBalloons : Nat,
                       resumeBalloons : Nat]
         /\ seen'.resumes = seen.resumes + 1 /\ seen'.locks = seen.locks
         /\ seen'.lockBalloons = seen.lockBalloons
         /\ seen'.resumeBalloons = seen.resumeBalloons
         /\ forceLock' = FALSE
         /\ UNCHANGED <<tray, win, ui, status, stopEvent, abandoned>>
<1>1. /\ main.pc = "loop" /\ main' = [main EXCEPT !.pc = "noteResume", !.state = "active"]
      /\ seen' = [seen EXCEPT !.resumes = @ + 1] /\ forceLock' = FALSE
      /\ UNCHANGED <<tray, win, ui, status, stopEvent, abandoned>>
  BY DEF Resume
<1>2. /\ main'.pc = "noteResume" /\ main'.state = "active"
      /\ main' \in [pc : MainPlace, outcome : Evaluation, state : State]
  BY <1>1 DEF TypeOK, State, MainPlace, Turning
<1>3. /\ seen' \in [exit : BOOLEAN, locks : Nat, resumes : Nat, lockBalloons : Nat,
                    resumeBalloons : Nat]
      /\ seen'.resumes = seen.resumes + 1 /\ seen'.locks = seen.locks
      /\ seen'.lockBalloons = seen.lockBalloons
      /\ seen'.resumeBalloons = seen.resumeBalloons
  BY <1>1 DEF TypeOK
<1>4. QED
  BY <1>1, <1>2, <1>3

LEMMA TypeMain == TypeOK /\ (MainStep \/ Resume \/ Interrupt) => TypeOK'
<1> SUFFICES ASSUME TypeOK, MainStep \/ Resume \/ Interrupt PROVE TypeOK'
  OBVIOUS
<1> USE DEF TypeOK, TrayPlace, MainPlace, Turning, State, Status, Goto, MainOnly, Step
<1>1. CASE StartTray
  BY <1>1 DEF StartTray
<1>2. CASE Ready
  BY <1>2 DEF Ready
<1>3. CASE Started
  <2>1. \E b \in BOOLEAN : ui' = [ui EXCEPT !.backend = b]
    BY <1>3 DEF Started
  <2>2. ui' \in [backend : BOOLEAN, notifications : BOOLEAN]
    BY <2>1
  <2>3. abandoned' \subseteq {"start", "join", "interrupt"}
    BY <1>3 DEF Started, GiveUp
  <2>4. QED
    BY <1>3, <2>2, <2>3 DEF Started
<1>4. CASE Turn
  BY <1>4 DEF Turn
<1>5. CASE NoteResume
  <2>1. status' \in Status
    BY <1>5 DEF NoteResume
  <2>2. QED
    BY <1>5, <2>1 DEF NoteResume
<1>6. CASE TellResume
  <2>1. SetTip("active")
    BY <1>6 DEF TellResume
  <2>2. /\ win' \in WinState
        /\ used' \in [events : 0 .. MaxEvents, choices : 0 .. MaxChoices,
                      faults : 0 .. MaxFaults]
    BY <2>1, TipEffect
  <2>3. QED
    BY <1>6, <2>2 DEF TellResume, Balloons
<1>7. CASE Evaluate
  <2>1. /\ main' \in [pc : MainPlace, outcome : Evaluation, state : State]
        /\ seen' \in [exit : BOOLEAN, locks : Nat, resumes : Nat, lockBalloons : Nat,
                      resumeBalloons : Nat]
        /\ used' \in [events : 0 .. MaxEvents, choices : 0 .. MaxChoices,
                      faults : 0 .. MaxFaults]
        /\ forceLock' = FALSE
        /\ UNCHANGED <<tray, win, ui, status, stopEvent, abandoned>>
    BY <1>7, EvaluateEffect
  <2> HIDE DEF TrayPlace, MainPlace, Turning, State, Status
  <2>2. QED
    BY <2>1
<1>8. CASE Observe
  BY <1>8 DEF Observe, Evaluation
<1>9. CASE UpdateTip
  <2>1. SetTip(status.state) /\ status.state \in State
    BY <1>9 DEF UpdateTip
  <2>2. /\ win' \in WinState
        /\ used' \in [events : 0 .. MaxEvents, choices : 0 .. MaxChoices,
                      faults : 0 .. MaxFaults]
    BY <2>1, TipEffect
  <2>3. QED
    BY <1>9, <2>2 DEF UpdateTip
<1>10. CASE Notify
  BY <1>10 DEF Notify, Balloons
<1>11. CASE Wake
  BY <1>11 DEF Wake
<1>12. CASE Stop
  <2>1. Closed \in BOOLEAN
    BY DEF Closed, Shown
  <2>2. win' = [win EXCEPT !.closing = Closed]
    BY <1>12 DEF Stop
  <2>3. win' \in WinState
    BY <2>1, <2>2 DEF WinState
  <2>4. main' \in [pc : MainPlace, outcome : Evaluation, state : State]
    BY <1>12 DEF Stop
  <2>5. ui' \in [backend : BOOLEAN, notifications : BOOLEAN]
    BY <1>12 DEF Stop
  <2>6. QED
    BY <1>12, <2>3, <2>4, <2>5 DEF Stop
<1>13. CASE Join
  BY <1>13 DEF Join
<1>14. CASE Resume
  <2>1. used' \in [events : 0 .. MaxEvents, choices : 0 .. MaxChoices,
                    faults : 0 .. MaxFaults]
    BY <1>14, EventTyped DEF Resume
  <2>2. /\ main' \in [pc : MainPlace, outcome : Evaluation, state : State]
        /\ seen' \in [exit : BOOLEAN, locks : Nat, resumes : Nat, lockBalloons : Nat,
                      resumeBalloons : Nat]
        /\ forceLock' = FALSE
        /\ UNCHANGED <<tray, win, ui, status, stopEvent, abandoned>>
    BY <1>14, ResumeEffect
  <2> HIDE DEF TrayPlace, MainPlace, Turning, State, Status
  <2>3. QED
    BY <2>1, <2>2
<1>15. CASE Interrupt
  BY <1>15 DEF Interrupt, GiveUp
<1>16. QED
  BY <1>1, <1>2, <1>3, <1>4, <1>5, <1>6, <1>7, <1>8, <1>9, <1>10, <1>11, <1>12, <1>13,
     <1>14, <1>15 DEF MainStep

LEMMA TypeFaults == TypeOK /\ (ReadyExpires \/ TipFails \/ JoinExpires) => TypeOK'
<1> SUFFICES ASSUME TypeOK, ReadyExpires \/ TipFails \/ JoinExpires PROVE TypeOK'
  OBVIOUS
<1> USE DEF TypeOK, MainPlace, Turning, Goto, MainOnly
<1>1. CASE ReadyExpires
  BY <1>1, FaultTyped DEF ReadyExpires
<1>2. CASE TipFails
  <2>1. win' \in WinState
    BY <1>2 DEF TipFails, WinState
  <2>2. QED
    BY <1>2, <2>1, FaultTyped DEF TipFails
<1>3. CASE JoinExpires
  BY <1>3 DEF JoinExpires, GiveUp
<1>4. QED
  BY <1>1, <1>2, <1>3

-----------------------------------------------------------------------------
(* The tray thread and the menu *)

TrayMoves == TrayStep \/ Menu \/ TrayFails

\* They leave the main thread and the status alone, and the tip of a tray that
\* is in use.
LEMMA TrayLeaves ==
  ASSUME TypeOK, TrayMoves
  PROVE  /\ UNCHANGED <<ui, status, main, abandoned>>
         /\ seen'.locks = seen.locks /\ seen'.resumes = seen.resumes
         /\ seen'.lockBalloons = seen.lockBalloons
         /\ seen'.resumeBalloons = seen.resumeBalloons
<1> USE DEF TrayOnly, Quiet
<1>1. CASE TrayFails
  BY <1>1, FaultTyped DEF TrayFails
<1>2. CASE OpenMenu
  BY <1>2 DEF OpenMenu, TypeOK
<1>3. CASE ChooseExit
  BY <1>3 DEF ChooseExit, TypeOK
<1>4. CASE TrayStep \/ ChooseNothing \/ ChooseLockNow
  BY <1>4 DEF TrayStep, ShowWindow, AddIcon, CloseWindow, ReceiveQuit, ForgetWindow,
         RemoveIcon, ChooseNothing, ChooseLockNow
<1>5. QED
  BY <1>1, <1>2, <1>3, <1>4 DEF TrayMoves, Menu

LEMMA TrayThreadSteps ==
  ASSUME TypeOK, TrayShape, TrayMoves
  PROVE  /\ TrayShape'
         /\ tray.ready => tray'.ready
         /\ tray.at = "dead" => tray'.at = "dead"
         /\ tray.at = "none" => tray'.at = "none"
         /\ tray.ready => (tray'.hwnd => tray.hwnd) /\ win'.tip = win.tip /\ win'.stale = win.stale
<1> USE DEF TrayShape, TypeOK, TrayPlace, TrayOnly, Quiet
<1>1. CASE ShowWindow
  BY <1>1 DEF ShowWindow
<1>2. CASE AddIcon
  BY <1>2 DEF AddIcon
<1>3. CASE CloseWindow
  BY <1>3 DEF CloseWindow
<1>4. CASE ReceiveQuit
  BY <1>4 DEF ReceiveQuit
<1>5. CASE ForgetWindow
  BY <1>5 DEF ForgetWindow
<1>6. CASE RemoveIcon
  BY <1>6 DEF RemoveIcon, ReadyAtEnd, IconAfterDelete
<1>7. CASE OpenMenu
  BY <1>7 DEF OpenMenu
<1>8. CASE ChooseNothing
  BY <1>8 DEF ChooseNothing, LeaveMenu
<1>9. CASE ChooseLockNow
  BY <1>9 DEF ChooseLockNow, LeaveMenu
<1>10. CASE ChooseExit
  BY <1>10 DEF ChooseExit, LeaveMenu
<1>11. CASE TrayFails
  BY <1>11 DEF TrayFails
<1>12. QED
  BY <1>1, <1>2, <1>3, <1>4, <1>5, <1>6, <1>7, <1>8, <1>9, <1>10, <1>11
     DEF TrayMoves, TrayStep, Menu

LEMMA TrayKeeps == Inv /\ TrayMoves => Inv'
<1> SUFFICES ASSUME Inv, TrayMoves PROVE Inv'
  OBVIOUS
<1>1. TypeOK'
  BY TypeTray DEF Inv, TrayMoves
<1>2. /\ TrayShape'
      /\ tray.ready => tray'.ready
      /\ tray.at = "dead" => tray'.at = "dead"
      /\ tray.at = "none" => tray'.at = "none"
      /\ tray.ready => (tray'.hwnd => tray.hwnd) /\ win'.tip = win.tip /\ win'.stale = win.stale
  BY TrayThreadSteps DEF Inv
<1>3. /\ UNCHANGED <<ui, status, main, abandoned>>
      /\ seen'.locks = seen.locks /\ seen'.resumes = seen.resumes
      /\ seen'.lockBalloons = seen.lockBalloons
      /\ seen'.resumeBalloons = seen.resumeBalloons
  BY TrayLeaves DEF Inv
<1>4. Usage'
  BY <1>2, <1>3 DEF Inv, Usage
<1>5. Accounted'
  BY <1>2, <1>3 DEF Inv, Accounted
<1>6. Caught'
  BY <1>2, <1>3 DEF Inv, Usage, Caught, Shown
<1>7. Told'
  BY <1>3 DEF Inv, Told, NoFalseBalloon
<1>8. QED
  BY <1>1, <1>2, <1>4, <1>5, <1>6, <1>7 DEF Inv

-----------------------------------------------------------------------------
(* The main thread *)

MainMoves == MainStep \/ Resume \/ Interrupt \/ ReadyExpires \/ TipFails \/ JoinExpires

LEMMA MainShape == TypeOK /\ TrayShape /\ Usage /\ MainMoves => TrayShape' /\ Usage'
<1> SUFFICES ASSUME TypeOK, TrayShape, Usage, MainMoves PROVE TrayShape' /\ Usage'
  OBVIOUS
<1> USE DEF TypeOK, TrayShape, Usage, Turning, Goto, MainOnly, Step
<1>1. CASE StartTray
  BY <1>1 DEF StartTray
<1>2. CASE Ready \/ Started
  BY <1>2 DEF Ready, Started
<1>3. CASE Turn \/ Wake \/ NoteResume \/ Observe \/ Notify
  BY <1>3 DEF Turn, Wake, NoteResume, Observe, Notify
<1>4. CASE TellResume \/ UpdateTip
  <2>1. win'.icon = win.icon
    BY <1>4, TipOnly
  <2>2. QED
    BY <1>4, <2>1 DEF TellResume, UpdateTip
<1>5. CASE Evaluate \/ Resume
  BY <1>5, EvaluateEffect, ResumeEffect
<1>6. CASE Stop \/ Join
  <2>1. win'.icon = win.icon
    BY <1>6 DEF Stop, Join, WinState
  <2>2. QED
    BY <1>6, <2>1 DEF Stop, Join
<1>7. CASE ReadyExpires \/ TipFails \/ JoinExpires
  <2>1. win'.icon = win.icon
    BY <1>7 DEF ReadyExpires, TipFails, JoinExpires, WinState
  <2>2. QED
    BY <1>7, <2>1 DEF ReadyExpires, TipFails, JoinExpires
<1>8. CASE Interrupt
  BY <1>8 DEF Interrupt
<1>9. QED
  BY <1>1, <1>2, <1>3, <1>4, <1>5, <1>6, <1>7, <1>8 DEF MainMoves, MainStep

LEMMA MainAccounts == TypeOK /\ Usage /\ Accounted /\ MainMoves => Accounted'
<1> SUFFICES ASSUME TypeOK, Usage, Accounted, MainMoves PROVE Accounted'
  OBVIOUS
<1> USE DEF TypeOK, Usage, Accounted, Turning, Goto, MainOnly, Step, GiveUp
<1>1. CASE StartTray \/ Ready
  BY <1>1 DEF StartTray, Ready
<1>2. CASE Started
  BY <1>2 DEF Started
<1>3. CASE Turn \/ Wake \/ NoteResume \/ Observe \/ Notify
  BY <1>3 DEF Turn, Wake, NoteResume, Observe, Notify
<1>4. CASE TellResume \/ UpdateTip
  BY <1>4 DEF TellResume, UpdateTip
<1>5. CASE Evaluate \/ Resume
  BY <1>5, EvaluateEffect, ResumeEffect
<1>6. CASE Stop \/ Join
  BY <1>6 DEF Stop, Join
<1>7. CASE ReadyExpires \/ TipFails \/ JoinExpires
  BY <1>7 DEF ReadyExpires, TipFails, JoinExpires
<1>8. CASE Interrupt
  BY <1>8 DEF Interrupt
<1>9. QED
  BY <1>1, <1>2, <1>3, <1>4, <1>5, <1>6, <1>7, <1>8 DEF MainMoves, MainStep

LEMMA MainCatches == TypeOK /\ Usage /\ Caught /\ MainMoves => Caught'
<1> SUFFICES ASSUME TypeOK, Usage, Caught, MainMoves PROVE Caught'
  OBVIOUS
<1> USE DEF TypeOK, Usage, Caught, Settled, MainPlace, Turning, Goto, MainOnly, Step, Shown
<1>1. CASE StartTray \/ Ready \/ Started
  BY <1>1 DEF StartTray, Ready, Started
<1>2. CASE Turn \/ Wake
  BY <1>2 DEF Turn, Wake
<1>3. CASE NoteResume
  BY <1>3 DEF NoteResume
<1>4. CASE TellResume
  BY <1>4 DEF TellResume
<1>5. CASE Evaluate
  BY <1>5, EvaluateEffect
<1>6. CASE Observe
  BY <1>6 DEF Observe, StateTold
<1>7. CASE UpdateTip
  <2>1. SetTip(status.state) /\ status.state \in State
    BY <1>7 DEF UpdateTip
  <2>2. Shown /\ ~win'.stale => win'.tip = status.state
    BY <2>1, TipEffect
  <2>3. QED
    BY <1>7, <2>2 DEF UpdateTip
<1>8. CASE Notify
  BY <1>8 DEF Notify
<1>9. CASE Resume
  <2>1. /\ main.pc = "loop" /\ main'.pc = "noteResume" /\ main'.state = "active"
        /\ seen'.resumes = seen.resumes + 1 /\ status' = status
    BY <1>9, ResumeEffect
  <2>2. QED
    BY <2>1
<1>10. CASE Stop \/ Join \/ JoinExpires
  BY <1>10 DEF Stop, Join, JoinExpires
<1>11. CASE ReadyExpires \/ TipFails
  BY <1>11 DEF ReadyExpires, TipFails, WinState
<1>12. CASE Interrupt
  BY <1>12 DEF Interrupt
<1>13. QED
  BY <1>1, <1>2, <1>3, <1>4, <1>5, <1>6, <1>7, <1>8, <1>9, <1>10, <1>11, <1>12
     DEF MainMoves, MainStep

LEMMA MainTells == TypeOK /\ Usage /\ Told /\ MainMoves => Told'
<1> SUFFICES ASSUME TypeOK, Usage, Told, MainMoves PROVE Told'
  OBVIOUS
<1> USE DEF TypeOK, Told, NoFalseBalloon, Goto, MainOnly, Step
<1>1. CASE StartTray \/ Ready \/ Started
  BY <1>1 DEF StartTray, Ready, Started
<1>2. CASE Turn \/ Wake \/ NoteResume \/ Observe \/ UpdateTip
  BY <1>2 DEF Turn, Wake, NoteResume, Observe, UpdateTip
<1>3. CASE TellResume
  BY <1>3 DEF TellResume, Balloons
<1>4. CASE Evaluate
  <2>1. /\ main'.pc = "observe" /\ ui' = ui
        /\ seen'.locks = IF main'.outcome.requested THEN seen.locks + 1 ELSE seen.locks
        /\ seen'.resumes = seen.resumes /\ seen'.lockBalloons = seen.lockBalloons
        /\ seen'.resumeBalloons = seen.resumeBalloons
    BY <1>4, EvaluateEffect
  <2>2. seen.locks \in Nat /\ seen.lockBalloons \in Nat
    OBVIOUS
  <2>3. QED
    BY <2>1, <2>2
<1>5. CASE Notify
  BY <1>5 DEF Notify, Balloons, LockRequested
<1>6. CASE Resume
  <2>1. /\ main'.pc = "noteResume" /\ ui' = ui
        /\ seen'.resumes = seen.resumes + 1 /\ seen'.locks = seen.locks
        /\ seen'.lockBalloons = seen.lockBalloons
        /\ seen'.resumeBalloons = seen.resumeBalloons
    BY <1>6, ResumeEffect
  <2>2. seen.resumes \in Nat /\ seen.resumeBalloons \in Nat
    OBVIOUS
  <2>3. QED
    BY <2>1, <2>2
<1>7. CASE Stop \/ Join \/ JoinExpires \/ ReadyExpires \/ TipFails
  BY <1>7 DEF Stop, Join, JoinExpires, ReadyExpires, TipFails
<1>8. CASE Interrupt
  BY <1>8 DEF Interrupt
<1>9. QED
  BY <1>1, <1>2, <1>3, <1>4, <1>5, <1>6, <1>7, <1>8 DEF MainMoves, MainStep

LEMMA InvStep == Inv /\ [Next]_vars => Inv'
<1> SUFFICES ASSUME Inv, [Next]_vars PROVE Inv'
  OBVIOUS
<1>1. CASE UNCHANGED vars
  BY <1>1 DEF vars, Inv, TypeOK, TrayShape, Usage, Accounted, Caught, Told, NoFalseBalloon,
         Shown
<1>2. CASE TrayMoves
  BY <1>2, TrayKeeps
<1>3. CASE MainMoves
  <2>1. TypeOK'
    BY <1>3, TypeMain, TypeFaults DEF MainMoves, Inv
  <2>2. QED
    BY <1>3, <2>1, MainShape, MainAccounts, MainCatches, MainTells DEF Inv
<1>4. QED
  BY <1>1, <1>2, <1>3 DEF Next, TrayMoves, MainMoves

THEOREM InvHolds == Spec => []Inv
<1>1. QED
  BY InvInit, InvStep, PTL DEF Spec

-----------------------------------------------------------------------------
(* What follows from the invariant *)

\* Every variable keeps its type.
THEOREM TypeCorrect == Spec => []TypeOK
<1>1. Inv => TypeOK
  BY DEF Inv
<1>2. QED
  BY <1>1, InvHolds, PTL

\* The menu tells the state of the controller and counts its resumes, with a tray,
\* without one and with one that dies in use; so does the tip, unless the update
\* of this very turn was lost.
THEOREM StatusHonestHolds == Spec => []StatusHonest
<1>1. Inv => StatusHonest
  BY DEF Inv, Caught, Settled, MainPlace, Turning, StatusHonest
<1>2. QED
  BY <1>1, InvHolds, PTL

\* One balloon at most for a lock or a resume, none for what did not happen.
THEOREM NoFalseBalloonHolds == Spec => []NoFalseBalloon
<1>1. Inv => NoFalseBalloon
  BY DEF Inv, Told
<1>2. QED
  BY <1>1, InvHolds, PTL

\* Every tray thread that is over has asked for the removal of its icon, and a
\* shutdown that gave up no wait leaves no thread that still has to.
THEOREM IconNeverForgottenHolds == Spec => []IconNeverForgotten
<1>1. Inv => IconNeverForgotten
  BY DEF Inv, TypeOK, Accounted, TrayShape, IconNeverForgotten
<1>2. QED
  BY <1>1, InvHolds, PTL
-----------------------------------------------------------------------------
(* What the liveness of the tray rests on: nothing waits in vain, and both   *)
(* threads count down                                                        *)

\* The tray thread has its window until it forgets it, sets _ready before it
\* serves it and at its end, and exists once it was started; only a tray that
\* was ready is joined.
TrayServes ==
  /\ tray.at \in {"shown", "pump", "menu"} => tray.hwnd
  /\ tray.at \in {"pump", "menu", "dead"} \/ main.pc = "join" => tray.ready
  /\ main.pc # "start" => tray.at # "none" \/ main.pc = "exited"

\* While the main thread waits, the tray thread is on its way to the answer:
\* to _ready from each place where it is not set (win32_tray.py:236,256), and to
\* its end from each place where its window could keep it (win32_tray.py:134-139).
\* An Exit that was chosen has reached the controller (runtime_ui.py:141-146).
WaitsAnswered ==
  /\ main.pc = "await" /\ ~tray.ready => tray.at \in {"born", "shown", "ended", "removing"}
  /\ main.pc = "join" /\ tray.at \in {"pump", "menu"} => win.closing
  /\ seen.exit => stopEvent

\* So many steps are left of the tray thread's life, but for its menus.
ToDeath ==
  IF tray.at = "none" THEN 8
  ELSE IF tray.at = "born" THEN 7
  ELSE IF tray.at = "shown" THEN 6
  ELSE IF tray.at \in {"pump", "menu"} THEN
         IF win.window THEN 5 ELSE IF tray.at = "menu" THEN 4 ELSE 3
  ELSE IF tray.at = "ended" THEN 2
  ELSE IF tray.at = "removing" THEN 1 ELSE 0

\* Every step of the tray thread brings its end nearer, the closing of a menu
\* without a window too; no other step moves it away.
TrayCountsDown ==
  [][/\ ToDeath' <= ToDeath
     /\ TrayStep \/ (~win.window /\ ChooseNothing) => ToDeath' < ToDeath]_vars

\* So many steps of the main thread are left once the stop event is set.
ToExit ==
  IF main.pc = "start" THEN 13
  ELSE IF main.pc = "await" THEN 12
  ELSE IF main.pc = "verdict" THEN 11
  ELSE IF main.pc = "noteResume" THEN 10
  ELSE IF main.pc = "resumeTip" THEN 9
  ELSE IF main.pc = "evaluate" THEN 8
  ELSE IF main.pc = "observe" THEN 7
  ELSE IF main.pc = "tip" THEN 6
  ELSE IF main.pc = "notify" THEN 5
  ELSE IF main.pc = "wait" THEN 4
  ELSE IF main.pc = "loop" THEN 3
  ELSE IF main.pc = "stop" THEN 2
  ELSE IF main.pc = "join" THEN 1 ELSE 0

\* A stop event stays set; every step of the main thread after it brings the
\* exit nearer, and no failure, expired wait, interrupt or menu moves it away.
ExitCountsDown ==
  [][stopEvent =>
       /\ stopEvent'
       /\ ToExit' <= ToExit /\ (MainStep => ToExit' < ToExit)]_vars

LEMMA ServesInit == Init => TrayServes /\ WaitsAnswered
BY DEF Init, TrayServes, WaitsAnswered

LEMMA ServesTray ==
  ASSUME TypeOK, TrayShape, TrayServes, WaitsAnswered, TrayMoves
  PROVE  TrayServes' /\ WaitsAnswered'
<1> USE DEF TrayServes, WaitsAnswered, TrayShape, TypeOK, TrayPlace, TrayOnly, Quiet
<1>1. CASE ShowWindow
  BY <1>1 DEF ShowWindow
<1>2. CASE AddIcon
  <2>1. /\ tray.at = "shown" /\ tray'.at = "pump" /\ tray'.ready /\ tray'.hwnd = tray.hwnd
        /\ UNCHANGED <<main, seen, stopEvent>>
    BY <1>2 DEF AddIcon
  <2>2. win'.closing = win.closing
    BY <1>2 DEF AddIcon
  <2>3. QED
    BY <2>1, <2>2
<1>3. CASE CloseWindow
  BY <1>3 DEF CloseWindow
<1>4. CASE ReceiveQuit
  BY <1>4 DEF ReceiveQuit
<1>5. CASE ForgetWindow
  BY <1>5 DEF ForgetWindow
<1>6. CASE RemoveIcon
  BY <1>6 DEF RemoveIcon, ReadyAtEnd
<1>7. CASE OpenMenu
  BY <1>7 DEF OpenMenu
<1>8. CASE ChooseNothing
  BY <1>8 DEF ChooseNothing, LeaveMenu
<1>9. CASE ChooseLockNow
  BY <1>9 DEF ChooseLockNow, LeaveMenu
<1>10. CASE ChooseExit
  BY <1>10 DEF ChooseExit, LeaveMenu, ExitApp
<1>11. CASE TrayFails
  BY <1>11 DEF TrayFails
<1>12. QED
  BY <1>1, <1>2, <1>3, <1>4, <1>5, <1>6, <1>7, <1>8, <1>9, <1>10, <1>11
     DEF TrayMoves, TrayStep, Menu

\* How far each step of the main thread takes it.
LEMMA MainCountsDown ==
  ASSUME TypeOK, MainMoves
  PROVE  /\ stopEvent' = stopEvent
         /\ stopEvent => ToExit' < ToExit
<1> USE DEF ToExit, TypeOK, Goto, MainOnly, Step
<1>1. CASE StartTray
  BY <1>1 DEF StartTray
<1>2. CASE Ready \/ Started
  BY <1>2 DEF Ready, Started
<1>3. CASE Turn \/ Wake
  BY <1>3 DEF Turn, Wake
<1>4. CASE NoteResume \/ Observe \/ Notify
  BY <1>4 DEF NoteResume, Observe, Notify
<1>5. CASE TellResume \/ UpdateTip
  BY <1>5 DEF TellResume, UpdateTip
<1>6. CASE Evaluate
  <2>1. main.pc = "evaluate" /\ main'.pc = "observe" /\ stopEvent' = stopEvent
    BY <1>6, EvaluateEffect
  <2>2. QED
    BY <2>1
<1>7. CASE Resume
  BY <1>7 DEF Resume
<1>8. CASE Stop \/ Join
  BY <1>8 DEF Stop, Join
<1>9. CASE ReadyExpires \/ TipFails \/ JoinExpires
  BY <1>9 DEF ReadyExpires, TipFails, JoinExpires
<1>10. CASE Interrupt
  BY <1>10 DEF Interrupt, MainPlace, Turning
<1>11. QED
  BY <1>1, <1>2, <1>3, <1>4, <1>5, <1>6, <1>7, <1>8, <1>9, <1>10 DEF MainMoves, MainStep

LEMMA ServesMain ==
  ASSUME TypeOK, Usage, TrayServes, WaitsAnswered, MainMoves
  PROVE  TrayServes' /\ WaitsAnswered'
<1> USE DEF TrayServes, WaitsAnswered, Usage, TypeOK, Turning, Goto, MainOnly, Step
<1>1. CASE StartTray
  BY <1>1 DEF StartTray
<1>2. CASE Ready \/ Started
  BY <1>2 DEF Ready, Started
<1>3. CASE Turn \/ Wake \/ NoteResume \/ Observe \/ Notify
  BY <1>3 DEF Turn, Wake, NoteResume, Observe, Notify
<1>4. CASE TellResume \/ UpdateTip
  <2>1. win'.closing = win.closing
    BY <1>4, TipOnly
  <2>2. QED
    BY <1>4, <2>1 DEF TellResume, UpdateTip
<1>5. CASE Evaluate
  <2>1. /\ main.pc = "evaluate" /\ main'.pc = "observe"
        /\ seen' = [seen EXCEPT !.locks = seen'.locks]
        /\ UNCHANGED <<tray, win, stopEvent>>
    BY <1>5, EvaluateEffect DEF Evaluate
  <2>2. seen'.exit = seen.exit
    BY <2>1
  <2>3. QED
    BY <2>1, <2>2
<1>6. CASE Resume
  <2>1. /\ main.pc = "loop" /\ main'.pc = "noteResume"
        /\ seen' = [seen EXCEPT !.resumes = @ + 1]
        /\ UNCHANGED <<tray, win, stopEvent>>
    BY <1>6, ResumeEffect DEF Resume
  <2>2. seen'.exit = seen.exit
    BY <2>1
  <2>3. QED
    BY <2>1, <2>2
<1>7. CASE Stop
  <2>1. win'.closing = Closed /\ tray' = tray /\ seen' = seen /\ stopEvent' = stopEvent
        /\ main'.pc = IF ui.backend THEN "join" ELSE "exited"
    BY <1>7 DEF Stop
  <2>2. QED
    BY <1>7, <2>1 DEF Closed, Shown, Stop
<1>8. CASE Join
  BY <1>8 DEF Join
<1>9. CASE ReadyExpires \/ TipFails \/ JoinExpires
  BY <1>9 DEF ReadyExpires, TipFails, JoinExpires
<1>10. CASE Interrupt
  BY <1>10 DEF Interrupt
<1>11. QED
  BY <1>1, <1>2, <1>3, <1>4, <1>5, <1>6, <1>7, <1>8, <1>9, <1>10 DEF MainMoves, MainStep

LEMMA ServesStep == Inv /\ TrayServes /\ WaitsAnswered /\ [Next]_vars
                      => TrayServes' /\ WaitsAnswered'
<1> SUFFICES ASSUME Inv, TrayServes, WaitsAnswered, [Next]_vars
             PROVE  TrayServes' /\ WaitsAnswered'
  OBVIOUS
<1>1. CASE UNCHANGED vars
  BY <1>1 DEF vars, TrayServes, WaitsAnswered
<1>2. CASE TrayMoves
  BY <1>2, ServesTray DEF Inv
<1>3. CASE MainMoves
  BY <1>3, ServesMain DEF Inv
<1>4. QED
  BY <1>1, <1>2, <1>3 DEF Next, TrayMoves, MainMoves

\* No wait of the main thread is for an answer the tray thread no longer gives:
\* what the five and the two seconds guard against is a slow tray, not a lost
\* signal (win32_tray.py:129-144).
THEOREM WaitsAnsweredHolds == Spec => []WaitsAnswered
<1>1. Spec => [](TrayServes /\ WaitsAnswered)
  BY ServesInit, ServesStep, InvHolds, PTL DEF Spec
<1>2. QED
  BY <1>1, PTL

LEMMA TrayNearsDeath ==
  ASSUME TypeOK, TrayMoves
  PROVE  /\ ToDeath' <= ToDeath
         /\ TrayStep \/ (~win.window /\ ChooseNothing) => ToDeath' < ToDeath
         /\ stopEvent => stopEvent'
<1> USE DEF ToDeath, TypeOK, TrayPlace, TrayOnly, Quiet
<1>1. CASE ShowWindow
  BY <1>1 DEF ShowWindow
<1>2. CASE AddIcon
  <2>1. tray.at = "shown" /\ tray'.at = "pump" /\ stopEvent' = stopEvent
    BY <1>2 DEF AddIcon
  <2>2. QED
    BY <2>1
<1>3. CASE CloseWindow
  BY <1>3 DEF CloseWindow
<1>4. CASE ReceiveQuit
  BY <1>4 DEF ReceiveQuit
<1>5. CASE ForgetWindow
  BY <1>5 DEF ForgetWindow
<1>6. CASE RemoveIcon
  BY <1>6 DEF RemoveIcon
<1>7. CASE OpenMenu
  BY <1>7 DEF OpenMenu, TrayStep, ShowWindow, AddIcon, CloseWindow, ReceiveQuit,
         ForgetWindow, RemoveIcon, ChooseNothing, LeaveMenu
<1>8. CASE ChooseNothing
  BY <1>8 DEF ChooseNothing, LeaveMenu, TrayStep, ShowWindow, AddIcon, CloseWindow,
         ReceiveQuit, ForgetWindow, RemoveIcon
<1>9. CASE ChooseLockNow
  <2>1. /\ tray.at = "menu" /\ tray'.at = "pump"
        /\ win' = win /\ stopEvent' = stopEvent
    BY <1>9 DEF ChooseLockNow, LeaveMenu
  <2>2. ~TrayStep
    BY <2>1 DEF TrayStep, ShowWindow, AddIcon, CloseWindow, ReceiveQuit, ForgetWindow,
           RemoveIcon
  <2>3. QED
    BY <2>1, <2>2
<1>10. CASE ChooseExit
  BY <1>10 DEF ChooseExit, LeaveMenu, ExitApp
<1>11. CASE TrayFails
  BY <1>11 DEF TrayFails
<1>12. QED
  BY <1>1, <1>2, <1>3, <1>4, <1>5, <1>6, <1>7, <1>8, <1>9, <1>10, <1>11
     DEF TrayMoves, TrayStep, Menu

\* The main thread moves the tray nearer its end by starting it, or not at all.
LEMMA MainLeavesTray ==
  ASSUME TypeOK, TrayShape, Usage, MainMoves
  PROVE  ToDeath' <= ToDeath
<1>1. tray'.at = tray.at \/ (tray.at = "none" /\ tray'.at = "born")
  <2> USE DEF TypeOK, MainOnly, Step
  <2>1. CASE StartTray
    BY <2>1 DEF StartTray, Usage
  <2>2. CASE Evaluate \/ Resume
    BY <2>2, EvaluateEffect, ResumeEffect
  <2>3. CASE MainMoves /\ ~(StartTray \/ Evaluate \/ Resume)
    BY <2>3 DEF MainMoves, MainStep, Ready, Started, Turn, NoteResume, TellResume, Observe,
           UpdateTip, Notify, Wake, Stop, Join, Interrupt, ReadyExpires, TipFails, JoinExpires
  <2>4. QED
    BY <2>1, <2>2, <2>3
<1>2. win'.window = win.window
  <2> USE DEF TypeOK, MainOnly, Step
  <2>1. CASE Evaluate \/ Resume
    BY <2>1, EvaluateEffect, ResumeEffect
  <2>2. CASE TellResume \/ UpdateTip
    BY <2>2, TipOnly
  <2>3. CASE Stop
    BY <2>3 DEF Stop
  <2>4. CASE TipFails
    BY <2>4 DEF TipFails
  <2>5. CASE MainMoves /\ ~(Evaluate \/ Resume \/ TellResume \/ UpdateTip \/ Stop \/ TipFails)
    BY <2>5 DEF MainMoves, MainStep, StartTray, Ready, Started, Turn, NoteResume, Observe,
           Notify, Wake, Join, Interrupt, ReadyExpires, JoinExpires
  <2>6. QED
    BY <2>1, <2>2, <2>3, <2>4, <2>5
<1>3. QED
  BY <1>1, <1>2 DEF ToDeath

LEMMA TrayDownStep ==
  ASSUME Inv, [Next]_vars
  PROVE  /\ ToDeath' <= ToDeath
         /\ TrayStep \/ (~win.window /\ ChooseNothing) => ToDeath' < ToDeath
<1>1. CASE TrayMoves
  BY <1>1, TrayNearsDeath DEF Inv
<1>2. CASE ~TrayMoves
  <2>1. ~(TrayStep \/ ChooseNothing)
    BY <1>2 DEF TrayMoves, Menu
  <2>2. CASE MainMoves
    BY <2>1, <2>2, MainLeavesTray DEF Inv
  <2>3. CASE UNCHANGED vars
    BY <2>1, <2>3 DEF vars, ToDeath
  <2>4. QED
    BY <1>2, <2>2, <2>3 DEF Next, TrayMoves, MainMoves
<1>3. QED
  BY <1>1, <1>2

\* The tray thread lives for seven steps of its own besides its menus: no failure
\* and no command of the main thread sets it back, so a thread that is scheduled
\* and not kept in a menu for ever ends once its window is closed.
THEOREM TrayCountsDownHolds == Spec => TrayCountsDown
<1>1. Inv /\ [Next]_vars =>
        [/\ ToDeath' <= ToDeath
         /\ TrayStep \/ (~win.window /\ ChooseNothing) => ToDeath' < ToDeath]_vars
  BY TrayDownStep
<1>2. QED
  BY <1>1, InvHolds, PTL DEF Spec, TrayCountsDown

LEMMA ExitDownStep ==
  ASSUME Inv, [Next]_vars, stopEvent
  PROVE  /\ stopEvent'
         /\ ToExit' <= ToExit /\ (MainStep => ToExit' < ToExit)
<1>t. ToExit \in Nat
  BY DEF ToExit
<1>1. CASE MainMoves
  <2>1. stopEvent' /\ ToExit' < ToExit
    BY <1>1, MainCountsDown DEF Inv
  <2>2. ToExit' \in Nat
    BY DEF ToExit
  <2>3. QED
    BY <1>t, <2>1, <2>2
<1>2. CASE ~MainMoves
  <2>1. ~MainStep
    BY <1>2 DEF MainMoves
  <2>2. main' = main /\ (stopEvent => stopEvent')
    <3>1. CASE TrayMoves
      BY <3>1, TrayLeaves, TrayNearsDeath DEF Inv
    <3>2. CASE UNCHANGED vars
      BY <3>2 DEF vars
    <3>3. QED
      BY <1>2, <3>1, <3>2 DEF Next, TrayMoves, MainMoves
  <2>3. ToExit' = ToExit
    BY <2>2 DEF ToExit
  <2>4. QED
    BY <1>t, <2>1, <2>2, <2>3
<1>3. QED
  BY <1>1, <1>2

\* After Exit at most thirteen steps of the main thread are left, through a start,
\* a resume or a lock in progress, with a tray or without one (idle.py:146-164,
\* app.py:98-104).
THEOREM ExitCountsDownHolds == Spec => ExitCountsDown
<1>1. Inv /\ [Next]_vars =>
        [stopEvent =>
           /\ stopEvent'
           /\ ToExit' <= ToExit /\ (MainStep => ToExit' < ToExit)]_vars
  BY ExitDownStep
<1>2. QED
  BY <1>1, InvHolds, PTL DEF Spec, ExitCountsDown
=============================================================================
