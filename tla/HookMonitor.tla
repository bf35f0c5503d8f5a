---------------------------- MODULE HookMonitor ----------------------------
(***************************************************************************)
(* One input monitor and its recovery: KeyboardMonitor or MouseMonitor     *)
(* (monitors/), the Win32 hook listeners it creates one after the other    *)
(* (win32_input.py), the supervisor that restarts it (reliability.py) and  *)
(* the start and shutdown of the runtime (app.py).                         *)
(*                                                                         *)
(* Two kinds of thread: the main thread, which starts, probes, restarts    *)
(* and stops the monitor and may be interrupted anywhere, and one hook     *)
(* thread for each listener.  Windows is external: it installs and removes *)
(* hooks, sometimes without being asked, delivers key presses to every     *)
(* installed hook, and carries the WM_QUIT message.                        *)
(***************************************************************************)
EXTENDS Naturals, FiniteSets

CONSTANTS
  MaxFaults,    \* bound on failures: refused or lost hooks, dead loops, expired waits
  MaxPresses,   \* bound on key presses
  None

ASSUME HookAssumption ==
  /\ MaxFaults \in Nat /\ MaxPresses \in Nat
  /\ None \notin Nat

\* The listeners, in the order of their creation.  Only a fault makes the
\* monitor create another one, so this many are enough.
Listener == 1 .. MaxFaults + 1

VARIABLES
  lsn,       \* the listeners, their threads and their hooks in Windows
  monitor,   \* _listener of the monitor
  main,      \* the main thread: place, listener it works on, still starting?
  tally,     \* key presses that reached one of our hooks, and records of them
  upset,     \* what went wrong for good: "start", "join", "interrupt"
  faults

vars == <<lsn, monitor, main, tally, upset, faults>>

Place == {"none", "born", "named", "hooked", "checking", "pumping", "ending",
          "unhooking", "closing", "dead"}

\* _Win32HookListener: its thread, _thread_id and _hook (set or not), _ready,
\* _stopping, _start_error (set or not); and, in Windows, the installed hook,
\* whether there ever was one and whether Windows took it away, and WM_QUIT in
\* the queue of the thread.
ListenerState ==
  [at : Place, id : BOOLEAN, hook : BOOLEAN, ready : BOOLEAN, stopping : BOOLEAN,
   failed : BOOLEAN, installed : BOOLEAN, hooked : BOOLEAN, lost : BOOLEAN,
   quit : BOOLEAN]

Cleanup   == {"stopFlag", "stopPost", "join"}
MainPlace == {"create", "await", "verdict", "maintain", "detach", "restartFlag",
              "restartPost", "restartJoin", "exited"} \cup Cleanup

TypeOK ==
  /\ lsn \in [Listener -> ListenerState]
  /\ monitor \in Listener \cup {None}
  /\ main \in [pc : MainPlace, target : Listener \cup {None}, booting : BOOLEAN]
  /\ main.target = None => main.pc \in {"create", "maintain", "detach", "exited"}
  /\ tally \in [presses : 0 .. MaxPresses, records : Nat]
  /\ upset \subseteq {"start", "join", "interrupt"}
  /\ faults \in 0 .. MaxFaults

Fault == faults < MaxFaults /\ faults' = faults + 1

-----------------------------------------------------------------------------
(* _Win32HookListener._run, on the hook thread of l *)

HookStep(l, from, next) ==
  /\ lsn[l].at = from
  /\ lsn' = [lsn EXCEPT ![l] = next]
  /\ UNCHANGED <<monitor, main, tally, upset>>

PublishThreadId(l) ==
  HookStep(l, "born", [lsn[l] EXCEPT !.at = "named", !.id = TRUE])

InstallHook(l) ==
  HookStep(l, "named", [lsn[l] EXCEPT !.at = "hooked", !.installed = TRUE,
                                      !.hooked = TRUE])

RefuseHookSilently(l) ==     \* mutant: the error is logged, not kept
  HookStep(l, "named", [lsn[l] EXCEPT !.at = "ending"])

\* SetWindowsHookExW fails; _ready is not set yet, so the error is kept.
RefuseHook(l) ==
  HookStep(l, "named", [lsn[l] EXCEPT !.at = "ending", !.failed = TRUE])

PublishHook(l) ==
  HookStep(l, "hooked", [lsn[l] EXCEPT !.at = "checking", !.hook = TRUE,
                                       !.ready = TRUE])

CheckStopping(l) ==
  HookStep(l, "checking",
    [lsn[l] EXCEPT !.at = IF lsn[l].stopping THEN "ending" ELSE "pumping"])

\* GetMessageW returns 0.
ReceiveQuit(l) ==
  lsn[l].quit /\ HookStep(l, "pumping", [lsn[l] EXCEPT !.at = "ending"])

\* GetMessageW returns -1; the error is logged and the thread ends.
PumpFails(l) == HookStep(l, "pumping", [lsn[l] EXCEPT !.at = "ending"])

\* Windows drops a hook that answers too slowly and tells nobody.
LoseHook(l) ==
  /\ lsn[l].installed
  /\ HookStep(l, "pumping", [lsn[l] EXCEPT !.installed = FALSE, !.lost = TRUE])

ForgetHookLate(l) ==     \* mutant: _hook is cleared after the hook is removed
  HookStep(l, "ending", [lsn[l] EXCEPT !.at = "unhooking"])

\* The finally block: _hook, then the hook itself, then _thread_id and _ready.
ForgetHook(l) ==
  HookStep(l, "ending", [lsn[l] EXCEPT !.at = "unhooking", !.hook = FALSE])

RemoveHook(l) ==
  HookStep(l, "unhooking", [lsn[l] EXCEPT !.at = "closing", !.installed = FALSE])

EndThread(l) ==
  HookStep(l, "closing", [lsn[l] EXCEPT !.at = "dead", !.id = FALSE,
                                        !.ready = TRUE])

HookThread(l) ==
  /\ \/ PublishThreadId(l)
     \/ InstallHook(l)
     \/ PublishHook(l)
     \/ CheckStopping(l)
     \/ ReceiveQuit(l)
     \/ ForgetHook(l)
     \/ RemoveHook(l)
     \/ EndThread(l)
  /\ UNCHANGED faults

HookFails(l) == Fault /\ (RefuseHook(l) \/ PumpFails(l) \/ LoseHook(l))

Installed == {l \in Listener : lsn[l].installed}

\* A key press: Windows calls each of our hooks in turn (CallNextHookEx), and
\* every call records activity.
Press ==
  LET called == {l \in Installed : lsn[l].at = "pumping"} IN
  /\ tally.presses < MaxPresses /\ called # {}
  /\ tally' = [presses |-> tally.presses + 1,
               records |-> tally.records + Cardinality(called)]
  /\ UNCHANGED <<lsn, monitor, main, upset, faults>>

-----------------------------------------------------------------------------
(* The main thread: start *)

\* Thread.is_alive()
Running(l) == lsn[l].at \notin {"none", "dead"}

\* is_alive of the monitor
Alive(l) == l # None /\ Running(l) /\ lsn[l].hook

\* The thread has a message queue: user32 makes one with the hook.
HasQueue(l) == Running(l) /\ lsn[l].at \notin {"born", "named"}

Goto(pc) == main' = [main EXCEPT !.pc = pc]

Unborn == {l \in Listener : lsn[l].at = "none"}

\* Monitor.start makes a listener, unless it has one, and starts its thread.
Create ==
  /\ main.pc = "create"
  /\ IF monitor # None
     THEN Goto("maintain") /\ UNCHANGED lsn
     ELSE \E l \in Unborn :
            /\ \A k \in Unborn : l <= k
            /\ lsn' = [lsn EXCEPT ![l].at = "born"]
            /\ main' = [main EXCEPT !.pc = "await", !.target = l]
  /\ UNCHANGED <<monitor, tally, upset, faults>>

\* start raises: run gives up before the monitor counts as started, the
\* supervisor logs it and goes on.
StartRaises == Goto(IF main.booting THEN "exited" ELSE "maintain")

Await ==
  /\ main.pc = "await" /\ lsn[main.target].ready
  /\ Goto("verdict")
  /\ UNCHANGED <<lsn, monitor, tally, upset, faults>>

\* _ready.wait(5.0) expires.  The thread goes on; nobody refers to it.
AwaitExpires ==
  /\ main.pc = "await" /\ ~lsn[main.target].ready
  /\ Fault
  /\ upset' = upset \cup {"start"}
  /\ StartRaises
  /\ UNCHANGED <<lsn, monitor, tally>>

KeptElsewhere == None     \* mutant: the started listener is not kept
Kept          == main.target

\* Only a listener that started without an error is stored.
Verdict ==
  /\ main.pc = "verdict"
  /\ IF lsn[main.target].failed
     THEN StartRaises /\ UNCHANGED monitor
     ELSE /\ main' = [main EXCEPT !.pc = "maintain", !.booting = FALSE]
          /\ monitor' = Kept
  /\ UNCHANGED <<lsn, tally, upset, faults>>

-----------------------------------------------------------------------------
(* The main thread: recovery and shutdown *)

\* MonitorSupervisor.poll finds the monitor dead and calls restart.
Probe ==
  /\ main.pc = "maintain" /\ ~Alive(monitor)
  /\ Goto("detach")
  /\ UNCHANGED <<lsn, monitor, tally, upset, faults>>

DetachedOnStop == monitor     \* mutant: restart does not clear _listener
Detached       == None

Detach ==
  /\ main.pc = "detach"
  /\ main' = [main EXCEPT !.target = monitor,
                          !.pc = IF monitor = None THEN "create" ELSE "restartFlag"]
  /\ monitor' = Detached
  /\ UNCHANGED <<lsn, tally, upset, faults>>

\* listener.stop, in a restart and at shutdown: _stopping is set, then WM_QUIT
\* is posted if the thread has published its id.
SetStopping ==
  /\ main.pc \in {"restartFlag", "stopFlag"}
  /\ lsn' = [lsn EXCEPT ![main.target].stopping = TRUE]
  /\ Goto(IF main.pc = "restartFlag" THEN "restartPost" ELSE "stopPost")
  /\ UNCHANGED <<monitor, tally, upset, faults>>

Unposted(l) == FALSE     \* mutant: only the flag is set
Posted(l)  == lsn[l].id /\ HasQueue(l)

PostQuit ==
  /\ main.pc \in {"restartPost", "stopPost"}
  /\ lsn' = [lsn EXCEPT ![main.target].quit = @ \/ Posted(main.target)]
  /\ Goto(IF main.pc = "restartPost" THEN "restartJoin" ELSE "join")
  /\ UNCHANGED <<monitor, tally, upset, faults>>

Unjoined(l) == TRUE     \* mutant: nobody waits for the thread
Joined(l)   == ~Running(l)

AfterJoin == Goto(IF main.pc = "restartJoin" THEN "create" ELSE "exited")

Join ==
  /\ main.pc \in {"restartJoin", "join"} /\ Joined(main.target)
  /\ AfterJoin
  /\ UNCHANGED <<lsn, monitor, tally, upset, faults>>

\* join(1.0) of restart, join(2.0) of shutdown
JoinExpires ==
  /\ main.pc \in {"restartJoin", "join"} /\ Running(main.target)
  /\ Fault
  /\ upset' = upset \cup {"join"}
  /\ AfterJoin
  /\ UNCHANGED <<lsn, monitor, tally>>

NothingToStop == monitor = None

\* The finally block of run stops the monitor.
Finally ==
  main' = [main EXCEPT !.target = monitor,
                       !.pc = IF NothingToStop THEN "exited" ELSE "stopFlag"]

\* The controller returns, or is interrupted between two passes.
Shutdown ==
  /\ main.pc = "maintain"
  /\ Finally
  /\ UNCHANGED <<lsn, monitor, tally, upset, faults>>

\* KeyboardInterrupt in the middle of a start, a restart or the cleanup: the
\* monitor counts as started only after its first start returned, and nothing
\* resumes the cleanup.
Interrupt ==
  /\ main.pc \notin {"maintain", "exited"}
  /\ IF main.booting \/ main.pc \in Cleanup THEN Goto("exited") ELSE Finally
  /\ upset' = upset \cup {"interrupt"}
  /\ UNCHANGED <<lsn, monitor, tally, faults>>

-----------------------------------------------------------------------------
NewListener ==
  [at |-> "none", id |-> FALSE, hook |-> FALSE, ready |-> FALSE,
   stopping |-> FALSE, failed |-> FALSE, installed |-> FALSE, hooked |-> FALSE,
   lost |-> FALSE, quit |-> FALSE]

Init ==
  /\ lsn = [l \in Listener |-> NewListener]
  /\ monitor = None
  /\ main = [pc |-> "create", target |-> None, booting |-> TRUE]
  /\ tally = [presses |-> 0, records |-> 0]
  /\ upset = {} /\ faults = 0

MainStep ==
  \/ Create
  \/ Await
  \/ Verdict
  \/ Probe
  \/ Detach
  \/ SetStopping
  \/ PostQuit
  \/ Join

Next ==
  \/ MainStep
  \/ AwaitExpires
  \/ JoinExpires
  \/ Shutdown
  \/ Interrupt
  \/ Press
  \/ \E l \in Listener : HookThread(l) \/ HookFails(l)

Spec == Init /\ [][Next]_vars

\* Both kinds of thread are scheduled; no failure and no shutdown is forced.
Fairness ==
  /\ WF_vars(MainStep)
  /\ \A l \in Listener : WF_vars(HookThread(l))

FairSpec == Spec /\ Fairness

-----------------------------------------------------------------------------
(* Safety *)

\* Health is never reported for a listener that has removed its own hook: the
\* finally block clears _hook before it removes the hook
\* (win32_input.py:92-94,151-156).
AliveMeansInstalled ==
  Alive(monitor) => lsn[monitor].installed \/ lsn[monitor].lost

\* start succeeds only for a listener that got its hook, also when its thread
\* ends before start has read the outcome (win32_input.py:69-72,145-147,160).
StartedMeansHooked == monitor # None => lsn[monitor].hooked

\* A key press is recorded once (ACTIVITY_MANAGER.md, "each accepted event
\* increments sequence exactly once"), through every restart, even one whose
\* join expires: a listener that is found dead never pumps messages again.
NoDuplicateRecords == "start" \notin upset => tally.records = tally.presses

\* RELEASE_VALIDATION.md:47: restarting a hook recovers without duplicate
\* activity.  A start that times out leaves a thread nobody can stop, which
\* may install its hook after the supervisor has started another.
EachPressRecordedOnce == tally.records = tally.presses

\* The runtime leaves no hook behind, unless a bounded wait expired or an
\* interrupt cut a start, a restart or the cleanup itself short.
ShutdownUnhooks == main.pc = "exited" /\ upset = {} => Installed = {}

-----------------------------------------------------------------------------
(* Liveness, under FairSpec *)

\* A stopped hook thread ends, whether the stop finds it before its loop tests
\* _stopping, about to block in GetMessageW or blocked there, unless an
\* interrupt of the stop keeps WM_QUIT from being posted.
StopEndsThread ==
  \A l \in Listener :
    lsn[l].stopping ~> lsn[l].at = "dead" \/ "interrupt" \in upset

Leaving == main.pc \in Cleanup \cup {"exited"}

\* A dead monitor is replaced, and failing restarts are tried again.
HookRecovers ==
  main.pc = "maintain" /\ ~Alive(monitor) ~> Alive(monitor) \/ Leaving

\* ARCHITECTURE.md:82-83: "A stopped hook is restarted".  A hook that Windows
\* has taken away looks healthy to is_alive, and is never replaced.
LostHookReplaced ==
  monitor # None /\ lsn[monitor].lost
    ~> (monitor # None /\ Alive(monitor) /\ lsn[monitor].installed) \/ Leaving
-----------------------------------------------------------------------------
(* The contract of a monitor *)

Health ==
  IF Alive(monitor) THEN IF lsn[monitor].stopping THEN "stopping" ELSE "alive"
                    ELSE IF monitor = None THEN "none" ELSE "dead"

Contract == INSTANCE MonitorContract WITH health <- Health, leaving <- Leaving

\* With all its threads, its failures and its interrupts, the monitor keeps the
\* contract of InputMonitor (monitors/base.py:12-28): no listener is replaced while
\* it is healthy, and none is made once the cleanup has begun.
KeepsContract == Contract!ContractSpec
=============================================================================
