---------------------------- MODULE AppLifecycle ----------------------------
(***************************************************************************)
(* SentinelLockApplication.run (app.py) over several monitors and the      *)
(* tray, and the pass of MonitorSupervisor.poll (reliability.py) over the  *)
(* monitors in every turn of the controller.                               *)
(*                                                                         *)
(* A monitor is what module HookMonitor makes of it: without a listener,   *)
(* with one that is alive, with a dead one, or told to stop.  Any monitor  *)
(* may die at any time, a start or a restart may fail or be given up while *)
(* its thread is still coming up, a hung thread may never end, and Ctrl+C  *)
(* may strike twice, anywhere.                                             *)
(***************************************************************************)
EXTENDS Naturals, FiniteSets

CONSTANTS
  N,               \* the number of monitors; they are numbered in their order
  Recoverable,     \* the monitors with is_alive and restart
  Reliable,        \* those whose restart does not fail for ever
  MaxInterrupts    \* bound on Ctrl+C

ASSUME LifecycleAssumption ==
  /\ N \in Nat \ {0} /\ MaxInterrupts \in Nat
  /\ Recoverable \subseteq 1 .. N /\ Reliable \subseteq Recoverable

Monitors == 1 .. N

VARIABLES
  mon,          \* what each monitor knows of its listener
  orphans,      \* the monitors of which a listener runs that nobody knows
  started,      \* the length of the list of started monitors, a prefix of Monitors
  main,         \* the main thread: place, and the monitor it is at
  report,       \* RecoveryReport of the current pass
  tray,         \* the thread of the tray, and whether runtime_started knows it
  stopEvent,
  interrupts,
  cut           \* history: an interrupt fell between a start and the list, or into the cleanup

vars == <<mon, orphans, started, main, report, tray, stopEvent, interrupts, cut>>

Health   == {"none", "alive", "dead", "stopping"}
\* "orphan": it runs, or is coming up, though its start was given up.
TrayKind == {"none", "running", "stopping", "orphan"}
Starting == {"start", "started", "tray"}
Looping  == {"turn", "poll", "restart", "evaluate", "wait"}
Leaving  == {"stopTray", "stop", "join", "exited"}

TypeOK ==
  /\ mon \in [Monitors -> Health] /\ orphans \subseteq Monitors
  /\ started \in 0 .. N
  /\ main \in [pc : Starting \cup Looping \cup Leaving, at : 0 .. N + 1]
  /\ main.pc \in {"started", "poll", "restart"} => main.at \in Monitors
  /\ report \in [checked : 0 .. N, restarted : 0 .. N, failures : 0 .. N]
  /\ tray \in TrayKind /\ stopEvent \in BOOLEAN /\ cut \in BOOLEAN
  /\ interrupts \in 0 .. MaxInterrupts

Goto(pc, at) == main' = [pc |-> pc, at |-> at]

Quiet == UNCHANGED <<stopEvent, interrupts, cut>>
-----------------------------------------------------------------------------
(* run: start the monitors in their order, then the tray *)

StartMonitor ==
  /\ main.pc = "start" /\ main.at \in Monitors
  /\ mon' = [mon EXCEPT ![main.at] = "alive"]
  /\ Goto("started", main.at)
  /\ UNCHANGED <<orphans, started, report, tray>> /\ Quiet

\* A start that times out raises like any other that fails, and leaves its
\* thread to itself (win32_input.py:69-70).
MayOrphan(m) == orphans' \in {orphans, orphans \cup {m}}

\* MonitorStartError, which the finally block lets through
StartFails ==
  /\ main.pc = "start" /\ main.at \in Monitors
  /\ MayOrphan(main.at)
  /\ Goto("stopTray", 0)
  /\ UNCHANGED <<mon, started, report, tray>> /\ Quiet

AppendNothing == started     \* mutant: a monitor is not put on the list
AppendMonitor == main.at

Append ==
  /\ main.pc = "started"
  /\ started' = AppendMonitor
  /\ IF main.at = N THEN Goto("tray", 0) ELSE Goto("start", main.at + 1)
  /\ UNCHANGED <<mon, orphans, report, tray>> /\ Quiet

\* There may be no tray, or its start fails, or times out and leaves its thread
\* to itself (win32_tray.py:129-130); run goes on without it.
StartTray ==
  /\ main.pc = "tray"
  /\ tray' \in {"none", "running", "orphan"}
  /\ Goto("turn", 0)
  /\ UNCHANGED <<mon, orphans, started, report>> /\ Quiet

-----------------------------------------------------------------------------
(* A turn of the controller, with the pass of the supervisor *)

Turn ==
  /\ main.pc = "turn"
  /\ IF stopEvent
     THEN Goto("stopTray", 0) /\ UNCHANGED report
     ELSE Goto("poll", 1) /\ report' = [checked |-> 0, restarted |-> 0, failures |-> 0]
  /\ UNCHANGED <<mon, orphans, started, tray>> /\ Quiet

SkipTurn(at) ==     \* mutant: a pass with failures costs the turn its evaluation
  IF at = N THEN Goto(IF report.failures = 0 THEN "evaluate" ELSE "wait", 0)
  ELSE Goto("poll", at + 1)

Next_(at) == IF at = N THEN Goto("evaluate", 0) ELSE Goto("poll", at + 1)

\* A monitor without is_alive and restart is left alone; a probe that raises
\* counts as dead.
Probe ==
  /\ main.pc = "poll"
  /\ IF main.at \in Recoverable
     THEN /\ report' = [report EXCEPT !.checked = @ + 1]
          /\ IF mon[main.at] = "alive" THEN Next_(main.at) ELSE Goto("restart", main.at)
     ELSE Next_(main.at) /\ UNCHANGED report
  /\ UNCHANGED <<mon, orphans, started, tray>> /\ Quiet

RestartSucceeds(m) ==
  /\ main.pc = "restart" /\ main.at = m
  /\ mon' = [mon EXCEPT ![m] = "alive"]
  /\ report' = [report EXCEPT !.restarted = @ + 1]
  /\ Next_(m)
  /\ UNCHANGED <<orphans, started, tray>> /\ Quiet

AbandonPass(m) == Goto("evaluate", 0)     \* mutant: the exception of a restart ends the pass
AfterFailure(m) == Next_(m)

CountNothing == report     \* mutant: a failed restart is only logged
CountFailure == [report EXCEPT !.failures = @ + 1]

\* restart has dropped the old listener before its start fails or times out.
RestartFails(m) ==
  /\ main.pc = "restart" /\ main.at = m
  /\ mon' = [mon EXCEPT ![m] = "none"]
  /\ MayOrphan(m)
  /\ report' = CountFailure
  /\ AfterFailure(m)
  /\ UNCHANGED <<started, tray>> /\ Quiet

\* Resume detection, evaluate_once and the observer (module IdleLock)
Evaluate ==
  /\ main.pc = "evaluate" /\ Goto("wait", 0)
  /\ UNCHANGED <<mon, orphans, started, report, tray>> /\ Quiet

Wake ==
  /\ main.pc = "wait" /\ Goto("turn", 0)
  /\ UNCHANGED <<mon, orphans, started, report, tray>> /\ Quiet

-----------------------------------------------------------------------------
(* The finally block: tray, then every stop, then every join, in reverse order *)

\* Only a tray that runtime_started knows is stopped.  Its thread ends, or the
\* two seconds of its join are over (runtime_ui.py:126-130).
StopTray ==
  /\ main.pc = "stopTray"
  /\ tray' \in IF tray = "running" THEN {"none", "stopping"} ELSE {tray}
  /\ Goto("stop", started)
  /\ UNCHANGED <<mon, orphans, started, report>> /\ Quiet

StopMonitor ==
  /\ main.pc = "stop"
  /\ IF main.at = 0
     THEN Goto("join", started) /\ UNCHANGED mon
     ELSE /\ mon' = [mon EXCEPT ![main.at] = IF @ = "alive" THEN "stopping" ELSE @]
          /\ Goto("stop", main.at - 1)
  /\ UNCHANGED <<orphans, started, report, tray>> /\ Quiet

JoinUnbounded(m) == mon[m] # "stopping"     \* mutant: join without a timeout

\* The thread ends, or two seconds are over.
JoinReturns(m) == TRUE

JoinMonitor ==
  /\ main.pc = "join"
  /\ IF main.at = 0
     THEN Goto("exited", 0)
     ELSE JoinReturns(main.at) /\ Goto("join", main.at - 1)
  /\ UNCHANGED <<mon, orphans, started, report, tray>> /\ Quiet

-----------------------------------------------------------------------------
(* The other threads, and the user *)

\* A listener dies, or ends after it was stopped.
Dies(m) ==
  /\ mon[m] \in {"alive", "stopping"}
  /\ mon' = [mon EXCEPT ![m] = "dead"]
  /\ UNCHANGED <<orphans, started, main, report, tray, stopEvent, interrupts, cut>>

\* What nobody knows any more may fail to come up, or die.
OrphanEnds(m) ==
  /\ m \in orphans
  /\ orphans' = orphans \ {m}
  /\ UNCHANGED <<mon, started, main, report, tray, stopEvent, interrupts, cut>>

\* The thread of the tray fails, or ends after Exit or WM_CLOSE.
TrayEnds ==
  /\ tray # "none"
  /\ tray' = "none"
  /\ UNCHANGED <<mon, orphans, started, main, report, stopEvent, interrupts, cut>>

\* Exit in the tray's menu, or the caller of run
Exit ==
  /\ ~stopEvent
  /\ stopEvent' = TRUE
  /\ UNCHANGED <<mon, orphans, started, main, report, tray, interrupts, cut>>

\* KeyboardInterrupt.  In a start or a restart it may leave a listener behind
\* that the monitor does not know, in the start of the tray its thread; after a
\* start, a monitor that is not on the list; in the cleanup, the rest of it
\* undone.  A restart may not have dropped the old listener yet.
Interrupt ==
  /\ main.pc # "exited" /\ interrupts < MaxInterrupts
  /\ interrupts' = interrupts + 1
  /\ cut' = (cut \/ main.pc \in Leaving \cup {"started"})
  /\ IF main.pc \in Leaving THEN Goto("exited", 0) ELSE Goto("stopTray", 0)
  /\ IF main.pc \in {"start", "restart"} /\ main.at \in Monitors
     THEN /\ mon' \in {mon, [mon EXCEPT ![main.at] = "none"]}
          /\ MayOrphan(main.at)
     ELSE UNCHANGED <<mon, orphans>>
  /\ tray' \in IF main.pc = "tray" THEN {"none", "orphan"} ELSE {tray}
  /\ UNCHANGED <<started, report, stopEvent>>

-----------------------------------------------------------------------------
Init ==
  /\ mon = [m \in Monitors |-> "none"] /\ orphans = {}
  /\ started = 0
  /\ main = [pc |-> "start", at |-> 1]
  /\ report = [checked |-> 0, restarted |-> 0, failures |-> 0]
  /\ tray = "none" /\ stopEvent = FALSE /\ interrupts = 0 /\ cut = FALSE

Restart == \E m \in Recoverable : RestartSucceeds(m) \/ RestartFails(m)

MainStep ==
  \/ StartMonitor \/ Append \/ StartTray
  \/ Turn \/ Probe \/ Restart \/ Evaluate \/ Wake
  \/ StopTray \/ StopMonitor \/ JoinMonitor

Next ==
  \/ MainStep
  \/ StartFails
  \/ \E m \in Monitors : Dies(m) \/ OrphanEnds(m)
  \/ TrayEnds
  \/ Exit
  \/ Interrupt

Spec == Init /\ [][Next]_vars

\* The main thread is scheduled, and a reliable monitor that is restarted again
\* and again comes up in the end.  No thread has to end when it is stopped.
FairSpec ==
  /\ Spec
  /\ WF_vars(MainStep)
  /\ \A m \in Reliable : SF_vars(RestartSucceeds(m))

-----------------------------------------------------------------------------
(* Safety *)

\* Whatever ended the runtime (Exit, Ctrl+C, or a monitor that failed to start
\* after others had), what was started is told to stop before the waiting for
\* the threads begins: every listener that its monitor knows, also one that a
\* pass replaced, and the tray (app.py:98-104).  Only an interrupt after a start
\* that is not on the list yet, or in the cleanup, prevents that.  What goes on
\* listening is an orphan, or hangs.
StartedIsStopped ==
  main.pc \in {"join", "exited"} /\ ~cut =>
    tray # "running" /\ \A m \in Monitors : mon[m] # "alive"

\* A pass checks every recoverable monitor, and those it leaves without a
\* listener are exactly its failures, so that the next pass has to find them.
ReportAddsUp ==
  main.pc = "evaluate" =>
    /\ report.checked = Cardinality(Recoverable)
    /\ report.failures = Cardinality({m \in Recoverable : mon[m] = "none"})

-----------------------------------------------------------------------------
(* Liveness, under FairSpec *)

\* A monitor that recovers does so although another one never does: the
\* exceptions of one monitor are kept from the others (reliability.py:54-60).
OthersRecover ==
  \A m \in Reliable :
    main.pc \in Looping /\ mon[m] # "alive" ~> mon[m] = "alive" \/ main.pc \in Leaving

\* M6_RELIABILITY.md:68: "runtime maintenance failures are isolated from idle
\* evaluation": every turn gets to its evaluation, also while restarts fail.
EvaluationReached == main.pc = "poll" ~> main.pc = "evaluate" \/ main.pc \in Leaving

\* SECURITY.md:46: "listener and tray shutdown waits are bounded": the runtime
\* ends although a stopped thread hangs.
ShutdownEnds == stopEvent \/ main.pc \in Leaving ~> main.pc = "exited"
-----------------------------------------------------------------------------
(* The contract of each monitor *)

Contract(m) == INSTANCE MonitorContract WITH health <- mon[m], leaving <- main.pc \in Leaving

\* The supervisor and the shutdown use every monitor as its contract allows.
KeepsContract ==
  /\ \A m \in Monitors : Contract(m)!ContractInit
  /\ [][\A m \in Monitors : [Contract(m)!ContractNext]_(Contract(m)!contractVars)]_vars
=============================================================================
