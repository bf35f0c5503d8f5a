------------------------- MODULE HookMonitor_proofs -------------------------
(***************************************************************************)
(* Proofs about HookMonitor for any number of failures, hence of listeners *)
(* and restarts, and any number of key presses: health is honest, a press  *)
(* is recorded once, and the shutdown leaves no hook behind.               *)
(***************************************************************************)
EXTENDS HookMonitor, FiniteSetTheorems, TLAPS

\* The thread may pump messages, now or later.
Coming == {"born", "named", "hooked", "checking", "pumping"}

\* What the place of a hook thread tells of its listener
Shape(s) ==
  /\ s.hook => s.at \in {"checking", "pumping", "ending"} /\ (s.installed \/ s.lost)
  /\ s.at \in {"checking", "pumping"} => s.hook
  /\ s.at \in {"hooked", "checking"} => s.installed
  /\ s.installed => s.hooked /\ s.at \in {"hooked", "checking", "pumping", "ending",
                                          "unhooking"}
  /\ s.hooked \/ s.failed <=> s.at \notin {"none", "born", "named"}
  /\ s.ready => s.at \notin {"none", "born", "named", "hooked"}
  /\ s.failed => ~s.hooked /\ s.at \in {"ending", "unhooking", "closing", "dead"}

Restarting == {"restartFlag", "restartPost", "restartJoin"}

\* What the place of the main thread tells of the monitor and its target
Held ==
  /\ monitor # None => lsn[monitor].ready /\ ~lsn[monitor].failed
  /\ main.pc \in {"create", "await", "verdict"} \cup Restarting => monitor = None
  /\ main.pc = "verdict" => lsn[main.target].ready

\* Unless a start was given up, one thread at most may pump messages, and none
\* when the next listener is created.
Alone ==
  "start" \notin upset =>
    /\ \A k, l \in Listener : lsn[k].at \in Coming /\ lsn[l].at \in Coming => k = l
    /\ main.pc \in {"create", "detach"} \cup Restarting
         => \A l \in Listener : lsn[l].at \notin Coming
    /\ main.pc \in {"await", "verdict"}
         => \A l \in Listener : lsn[l].at \in Coming => l = main.target
    /\ main.pc = "maintain" => \A l \in Listener : lsn[l].at \in Coming => l = monitor

\* The listener has a hook, or may still get one.
Holding(s) == s.installed \/ s.at \in {"born", "named"}

\* Unless something went wrong for good, the main thread knows the only listener
\* that has a hook or may get one.
Accounted ==
  upset = {} =>
    /\ main.pc \in {"create", "exited"} => \A l \in Listener : ~Holding(lsn[l])
    /\ main.pc \in {"maintain", "detach"}
         => \A l \in Listener : Holding(lsn[l]) => l = monitor
    /\ main.pc \in {"await", "verdict"} \cup Restarting \cup Cleanup
         => \A l \in Listener : Holding(lsn[l]) => l = main.target

Inv ==
  /\ TypeOK
  /\ \A l \in Listener : Shape(lsn[l])
  /\ Held /\ Alone /\ Accounted /\ NoDuplicateRecords

LEMMA Listeners == None \notin Listener /\ IsFiniteSet(Listener) /\ Listener \subseteq Nat
  BY HookAssumption, FS_Interval DEF Listener

LEMMA TargetTyped ==
  ASSUME TypeOK, main.pc \notin {"create", "maintain", "detach", "exited"}
  PROVE  main.target \in Listener
  BY DEF TypeOK

LEMMA InvInit == Init => Inv
<1> SUFFICES ASSUME Init PROVE Inv
  OBVIOUS
<1>1. NewListener \in ListenerState /\ Shape(NewListener) /\ ~Holding(NewListener)
      /\ NewListener.at \notin Coming
  BY DEF NewListener, ListenerState, Place, Shape, Holding, Coming
<1>2. \A l \in Listener : lsn[l] = NewListener
  BY DEF Init
<1>3. TypeOK
  <2>1. lsn \in [Listener -> ListenerState]
    BY <1>1 DEF Init
  <2>2. main \in [pc : MainPlace, target : Listener \cup {None}, booting : BOOLEAN]
    BY DEF Init, MainPlace
  <2>3. tally \in [presses : 0 .. MaxPresses, records : Nat] /\ faults \in 0 .. MaxFaults
    BY HookAssumption DEF Init
  <2>4. QED
    BY <2>1, <2>2, <2>3 DEF Init, TypeOK
<1>4. Held /\ Alone /\ Accounted /\ NoDuplicateRecords
  BY <1>1, <1>2, Listeners DEF Init, Held, Alone, Accounted, NoDuplicateRecords, Restarting,
     Cleanup
<1>5. QED
  BY <1>1, <1>2, <1>3, <1>4 DEF Inv

-----------------------------------------------------------------------------
(* Hook threads *)

\* What one step of a hook thread may make of its listener
Advances(s, next) ==
  /\ next \in ListenerState /\ Shape(next)
  /\ next.at \in Coming => s.at \in Coming
  /\ Holding(next) => Holding(s)
  /\ s.ready => next.ready /\ next.failed = s.failed

LEMMA HookStepKeeps ==
  ASSUME Inv, NEW l \in Listener, NEW from, NEW next, HookStep(l, from, next),
         Advances(lsn[l], next), faults' \in 0 .. MaxFaults
  PROVE  Inv'
<1>1. /\ lsn \in [Listener -> ListenerState] /\ lsn' = [lsn EXCEPT ![l] = next]
      /\ UNCHANGED <<monitor, main, tally, upset>>
  BY DEF HookStep, Inv, TypeOK
<1>2. lsn'[l] = next /\ \A k \in Listener \ {l} : lsn'[k] = lsn[k]
  BY <1>1
<1>3. TypeOK'
  <2>1. lsn' \in [Listener -> ListenerState]
    BY <1>1 DEF Advances
  <2>2. QED
    BY <1>1, <2>1 DEF Inv, TypeOK
<1>4. \A k \in Listener : Shape(lsn'[k])
  BY <1>2 DEF Inv, Advances
<1>5. \A k \in Listener : /\ lsn'[k].at \in Coming => lsn[k].at \in Coming
                          /\ Holding(lsn'[k]) => Holding(lsn[k])
                          /\ lsn[k].ready => lsn'[k].ready /\ lsn'[k].failed = lsn[k].failed
  BY <1>2 DEF Advances
<1>6. Held'
  <2>1. monitor # None => monitor \in Listener
    BY DEF Inv, TypeOK
  <2>2. main.pc = "verdict" => main.target \in Listener
    BY TargetTyped DEF Inv
  <2>3. QED
    BY <1>1, <1>5, <2>1, <2>2 DEF Inv, Held
<1>7. Alone'
  BY <1>1, <1>5 DEF Inv, Alone
<1>8. Accounted'
  BY <1>1, <1>5 DEF Inv, Accounted
<1>9. NoDuplicateRecords'
  BY <1>1 DEF Inv, NoDuplicateRecords
<1>10. QED
  BY <1>3, <1>4, <1>6, <1>7, <1>8, <1>9 DEF Inv

LEMMA HookThreadStep == ASSUME Inv, NEW l \in Listener, HookThread(l) PROVE Inv'
<1>0. lsn[l] \in ListenerState /\ Shape(lsn[l]) /\ faults' \in 0 .. MaxFaults
  BY DEF Inv, TypeOK, HookThread
<1> DEFINE s == lsn[l]
<1>1. CASE PublishThreadId(l)
  <2>1. Advances(s, [s EXCEPT !.at = "named", !.id = TRUE])
    BY <1>0, <1>1 DEF PublishThreadId, HookStep, Advances, ListenerState, Place, Shape,
       Holding, Coming
  <2>2. QED
    BY <1>0, <1>1, <2>1, HookStepKeeps DEF PublishThreadId
<1>2. CASE InstallHook(l)
  <2>1. Advances(s, [s EXCEPT !.at = "hooked", !.installed = TRUE, !.hooked = TRUE])
    BY <1>0, <1>2 DEF InstallHook, HookStep, Advances, ListenerState, Place, Shape,
       Holding, Coming
  <2>2. QED
    BY <1>0, <1>2, <2>1, HookStepKeeps DEF InstallHook
<1>3. CASE PublishHook(l)
  <2>1. Advances(s, [s EXCEPT !.at = "checking", !.hook = TRUE, !.ready = TRUE])
    BY <1>0, <1>3 DEF PublishHook, HookStep, Advances, ListenerState, Place, Shape,
       Holding, Coming
  <2>2. QED
    BY <1>0, <1>3, <2>1, HookStepKeeps DEF PublishHook
<1>4. CASE CheckStopping(l)
  <2>1. \A p \in {"ending", "pumping"} : Advances(s, [s EXCEPT !.at = p])
    BY <1>0, <1>4 DEF CheckStopping, HookStep, Advances, ListenerState, Place, Shape,
       Holding, Coming
  <2>2. QED
    BY <1>0, <1>4, <2>1, HookStepKeeps DEF CheckStopping
<1>5. CASE ReceiveQuit(l)
  <2>1. Advances(s, [s EXCEPT !.at = "ending"])
    BY <1>0, <1>5 DEF ReceiveQuit, HookStep, Advances, ListenerState, Place, Shape,
       Holding, Coming
  <2>2. QED
    BY <1>0, <1>5, <2>1, HookStepKeeps DEF ReceiveQuit
<1>6. CASE ForgetHook(l)
  <2>1. Advances(s, [s EXCEPT !.at = "unhooking", !.hook = FALSE])
    BY <1>0, <1>6 DEF ForgetHook, HookStep, Advances, ListenerState, Place, Shape,
       Holding, Coming
  <2>2. QED
    BY <1>0, <1>6, <2>1, HookStepKeeps DEF ForgetHook
<1>7. CASE RemoveHook(l)
  <2>1. Advances(s, [s EXCEPT !.at = "closing", !.installed = FALSE])
    BY <1>0, <1>7 DEF RemoveHook, HookStep, Advances, ListenerState, Place, Shape,
       Holding, Coming
  <2>2. QED
    BY <1>0, <1>7, <2>1, HookStepKeeps DEF RemoveHook
<1>8. CASE EndThread(l)
  <2>1. Advances(s, [s EXCEPT !.at = "dead", !.id = FALSE, !.ready = TRUE])
    BY <1>0, <1>8 DEF EndThread, HookStep, Advances, ListenerState, Place, Shape,
       Holding, Coming
  <2>2. QED
    BY <1>0, <1>8, <2>1, HookStepKeeps DEF EndThread
<1>9. QED
  BY <1>1, <1>2, <1>3, <1>4, <1>5, <1>6, <1>7, <1>8 DEF HookThread

LEMMA FaultTyped == ASSUME TypeOK, Fault PROVE faults' \in 0 .. MaxFaults
  BY HookAssumption DEF TypeOK, Fault

LEMMA HookFailsStep == ASSUME Inv, NEW l \in Listener, HookFails(l) PROVE Inv'
<1>0. lsn[l] \in ListenerState /\ Shape(lsn[l]) /\ faults' \in 0 .. MaxFaults
  BY FaultTyped DEF Inv, TypeOK, HookFails
<1> DEFINE s == lsn[l]
<1>1. CASE RefuseHook(l)
  <2>1. Advances(s, [s EXCEPT !.at = "ending", !.failed = TRUE])
    BY <1>0, <1>1 DEF RefuseHook, HookStep, Advances, ListenerState, Place, Shape,
       Holding, Coming
  <2>2. QED
    BY <1>0, <1>1, <2>1, HookStepKeeps DEF RefuseHook
<1>2. CASE PumpFails(l)
  <2>1. Advances(s, [s EXCEPT !.at = "ending"])
    BY <1>0, <1>2 DEF PumpFails, HookStep, Advances, ListenerState, Place, Shape,
       Holding, Coming
  <2>2. QED
    BY <1>0, <1>2, <2>1, HookStepKeeps DEF PumpFails
<1>3. CASE LoseHook(l)
  <2>1. Advances(s, [s EXCEPT !.installed = FALSE, !.lost = TRUE])
    BY <1>0, <1>3 DEF LoseHook, HookStep, Advances, ListenerState, Place, Shape,
       Holding, Coming
  <2>2. QED
    BY <1>0, <1>3, <2>1, HookStepKeeps DEF LoseHook
<1>4. QED
  BY <1>1, <1>2, <1>3 DEF HookFails

\* A press reaches one listener, unless a start was given up.
LEMMA PressStep == ASSUME Inv, Press PROVE Inv'
<1> DEFINE called == {l \in Installed : lsn[l].at = "pumping"}
<1>1. /\ tally.presses < MaxPresses /\ called # {}
      /\ tally' = [presses |-> tally.presses + 1,
                   records |-> tally.records + Cardinality(called)]
      /\ UNCHANGED <<lsn, monitor, main, upset, faults>>
  BY DEF Press
<1>2. IsFiniteSet(called) /\ called \subseteq Listener
  BY Listeners, FS_Subset DEF Installed
<1>3. Cardinality(called) \in Nat
  BY <1>2, FS_CardinalityType
<1>4. "start" \notin upset => Cardinality(called) = 1
  <2> SUFFICES ASSUME "start" \notin upset PROVE Cardinality(called) = 1
    OBVIOUS
  <2>1. PICK l \in called : TRUE
    BY <1>1
  <2>2. \A k \in called : k = l
    BY <1>2, <2>1 DEF Inv, Alone, Coming
  <2>3. called = {l}
    BY <2>1, <2>2
  <2>4. QED
    BY <2>3, FS_Singleton
<1>5. tally.presses \in 0 .. MaxPresses /\ tally.records \in Nat
  BY DEF Inv, TypeOK
<1>6. tally'.presses = tally.presses + 1 /\ tally'.records = tally.records + Cardinality(called)
  BY <1>1
<1>7. tally' \in [presses : 0 .. MaxPresses, records : Nat]
  BY <1>1, <1>3, <1>5, HookAssumption
<1>8. TypeOK'
  BY <1>1, <1>7 DEF Inv, TypeOK
<1>9. NoDuplicateRecords'
  BY <1>1, <1>4, <1>5, <1>6 DEF Inv, NoDuplicateRecords
<1>10. QED
  BY <1>1, <1>8, <1>9 DEF Inv, Held, Alone, Accounted

-----------------------------------------------------------------------------
(* The main thread *)

\* Shapes, places and hooks of the listeners after a step that leaves them alone
Same == UNCHANGED <<lsn, tally>> /\ upset \subseteq upset'

LEMMA SameKeeps ==
  ASSUME Inv, Same, faults' \in 0 .. MaxFaults,
         main' \in [pc : MainPlace, target : Listener \cup {None}, booting : BOOLEAN],
         main'.target = None => main'.pc \in {"create", "maintain", "detach", "exited"},
         monitor' \in Listener \cup {None},
         upset' \subseteq {"start", "join", "interrupt"},
         Held', Alone', Accounted'
  PROVE  Inv'
<1>1. TypeOK'
  BY DEF Same, Inv, TypeOK
<1>2. NoDuplicateRecords'
  BY DEF Same, Inv, NoDuplicateRecords
<1>3. QED
  BY <1>1, <1>2 DEF Same, Inv

LEMMA GotoTyped ==
  ASSUME TypeOK, NEW pc \in MainPlace, Goto(pc)
  PROVE  /\ main' \in [pc : MainPlace, target : Listener \cup {None}, booting : BOOLEAN]
         /\ main'.pc = pc /\ main'.target = main.target /\ main'.booting = main.booting
  BY DEF TypeOK, Goto

\* The new listener is the only one whose thread may come to pump messages.
LEMMA CreateStep == ASSUME Inv, Create PROVE Inv'
<1>1. main.pc = "create" /\ monitor = None
  BY DEF Create, Inv, Held
<1>2. PICK l \in Unborn : /\ lsn' = [lsn EXCEPT ![l].at = "born"]
                          /\ main' = [main EXCEPT !.pc = "await", !.target = l]
  BY <1>1 DEF Create
<1>3. l \in Listener /\ lsn[l].at = "none" /\ lsn \in [Listener -> ListenerState]
  BY DEF Unborn, Inv, TypeOK
<1>4. /\ lsn'[l] = [lsn[l] EXCEPT !.at = "born"]
      /\ \A k \in Listener \ {l} : lsn'[k] = lsn[k]
  BY <1>2, <1>3
<1>5. [lsn[l] EXCEPT !.at = "born"] \in ListenerState /\ Shape([lsn[l] EXCEPT !.at = "born"])
  BY <1>3 DEF Inv, Shape, ListenerState, Place
<1>6. /\ main' \in [pc : MainPlace, target : Listener \cup {None}, booting : BOOLEAN]
      /\ main'.pc = "await" /\ main'.target = l
  BY <1>2, <1>3 DEF Inv, TypeOK, MainPlace
<1>7. UNCHANGED <<monitor, tally, upset, faults>>
  BY DEF Create
<1>8. TypeOK'
  <2>1. lsn' \in [Listener -> ListenerState]
    BY <1>2, <1>3, <1>5
  <2>2. QED
    BY <1>3, <1>6, <1>7, <2>1, Listeners DEF Inv, TypeOK
<1>9. \A k \in Listener : Shape(lsn'[k])
  BY <1>4, <1>5 DEF Inv
<1>10. Held'
  BY <1>1, <1>6, <1>7 DEF Held, Restarting
<1>11. Alone'
  <2>1. "start" \notin upset => \A k \in Listener : lsn'[k].at \in Coming => k = l
    BY <1>1, <1>4 DEF Inv, Alone
  <2>2. QED
    BY <1>6, <1>7, <2>1 DEF Alone, Restarting
<1>12. Accounted'
  <2>1. upset = {} => \A k \in Listener : Holding(lsn'[k]) => k = l
    BY <1>1, <1>4 DEF Inv, Accounted
  <2>2. QED
    BY <1>6, <1>7, <2>1 DEF Accounted, Restarting, Cleanup
<1>13. QED
  BY <1>7, <1>8, <1>9, <1>10, <1>11, <1>12 DEF Inv, NoDuplicateRecords

LEMMA AwaitStep == ASSUME Inv, Await PROVE Inv'
<1>1. main.pc = "await" /\ lsn[main.target].ready
      /\ UNCHANGED <<lsn, monitor, tally, upset, faults>>
  BY DEF Await
<1>2. /\ main' \in [pc : MainPlace, target : Listener \cup {None}, booting : BOOLEAN]
      /\ main'.pc = "verdict" /\ main'.target = main.target
  BY GotoTyped DEF Await, Inv, MainPlace
<1>3. main.target \in Listener
  BY <1>1, TargetTyped DEF Inv
<1>4. Held' /\ Alone' /\ Accounted'
  BY <1>1, <1>2 DEF Inv, Held, Alone, Accounted, Restarting, Cleanup
<1>5. QED
  BY <1>1, <1>2, <1>3, <1>4, Listeners, SameKeeps DEF Same, Inv, TypeOK

LEMMA AwaitExpiresStep == ASSUME Inv, AwaitExpires PROVE Inv'
<1>1. /\ main.pc = "await" /\ upset' = upset \cup {"start"}
      /\ UNCHANGED <<lsn, monitor, tally>>
  BY DEF AwaitExpires
<1>2. /\ main' \in [pc : MainPlace, target : Listener \cup {None}, booting : BOOLEAN]
      /\ main'.pc \in {"exited", "maintain"}
  BY GotoTyped DEF AwaitExpires, StartRaises, Inv, MainPlace
<1>3. Held' /\ Alone' /\ Accounted'
  BY <1>1, <1>2 DEF Inv, Held, Alone, Accounted, Restarting
<1>4. faults' \in 0 .. MaxFaults
  BY FaultTyped DEF AwaitExpires, Inv
<1>5. QED
  BY <1>1, <1>2, <1>3, <1>4, SameKeeps DEF Same, Inv, TypeOK

\* A start that failed has a thread that will never pump and a hook that never was.
LEMMA VerdictStep == ASSUME Inv, Verdict PROVE Inv'
<1>1. /\ main.pc = "verdict" /\ monitor = None
      /\ UNCHANGED <<lsn, tally, upset, faults>>
  BY DEF Verdict, Inv, Held
<1>2. main.target \in Listener /\ lsn[main.target].ready /\ Shape(lsn[main.target])
  BY <1>1, TargetTyped DEF Inv, Held
<1>3. CASE lsn[main.target].failed
  <2>1. monitor' = None
    BY <1>1, <1>3 DEF Verdict
  <2>2. /\ main' \in [pc : MainPlace, target : Listener \cup {None}, booting : BOOLEAN]
        /\ main'.pc \in {"exited", "maintain"} /\ main'.target = main.target
    BY <1>3, GotoTyped DEF Verdict, StartRaises, Inv, MainPlace
  <2>3. lsn[main.target].at \notin Coming /\ ~Holding(lsn[main.target])
    BY <1>2, <1>3 DEF Shape, Coming, Holding
  <2>4. Held' /\ Alone' /\ Accounted'
    BY <1>1, <2>1, <2>2, <2>3 DEF Inv, Held, Alone, Accounted, Restarting, Cleanup
  <2>5. QED
    BY <1>1, <2>1, <2>2, <2>4, SameKeeps DEF Same, Inv, TypeOK
<1>4. CASE ~lsn[main.target].failed
  <2>1. monitor' = main.target
    BY <1>4 DEF Verdict, Kept
  <2>2. /\ main' \in [pc : MainPlace, target : Listener \cup {None}, booting : BOOLEAN]
        /\ main'.pc = "maintain" /\ main'.target = main.target
    BY <1>4 DEF Verdict, Inv, TypeOK, MainPlace
  <2>3. Held' /\ Alone' /\ Accounted'
    BY <1>1, <1>2, <1>4, <2>1, <2>2 DEF Inv, Held, Alone, Accounted, Restarting, Cleanup
  <2>4. QED
    BY <1>1, <1>2, <2>1, <2>2, <2>3, SameKeeps DEF Same, Inv, TypeOK
<1>5. QED
  BY <1>3, <1>4

\* A listener found dead never pumps again: its thread has ended or has cleared
\* _hook, and it was ready when it was stored.
LEMMA ProbeStep == ASSUME Inv, Probe PROVE Inv'
<1>1. /\ main.pc = "maintain" /\ ~Alive(monitor)
      /\ UNCHANGED <<lsn, monitor, tally, upset, faults>>
  BY DEF Probe
<1>2. /\ main' \in [pc : MainPlace, target : Listener \cup {None}, booting : BOOLEAN]
      /\ main'.pc = "detach" /\ main'.target = main.target
  BY GotoTyped DEF Probe, Inv, MainPlace
<1>3. monitor # None => lsn[monitor].at \notin Coming
  <2> SUFFICES ASSUME monitor # None PROVE lsn[monitor].at \notin Coming
    OBVIOUS
  <2>1. lsn[monitor].ready /\ Shape(lsn[monitor])
    BY DEF Inv, TypeOK, Held
  <2>2. lsn[monitor].at = "dead" \/ lsn[monitor].at = "none" \/ ~lsn[monitor].hook
    BY <1>1 DEF Alive, Running
  <2>3. QED
    BY <2>1, <2>2 DEF Shape, Coming
<1>4. Held' /\ Alone' /\ Accounted'
  BY <1>1, <1>2, <1>3, Listeners DEF Inv, Held, Alone, Accounted, Restarting, Cleanup
<1>5. QED
  BY <1>1, <1>2, <1>4, SameKeeps DEF Same, Inv, TypeOK

LEMMA DetachStep == ASSUME Inv, Detach PROVE Inv'
<1>1. /\ main.pc = "detach" /\ monitor' = None
      /\ UNCHANGED <<lsn, tally, upset, faults>>
  BY DEF Detach, Detached
<1>2. monitor \in Listener \cup {None}
  BY DEF Inv, TypeOK
<1>3. /\ main' \in [pc : MainPlace, target : Listener \cup {None}, booting : BOOLEAN]
      /\ main'.pc = IF monitor = None THEN "create" ELSE "restartFlag"
      /\ main'.target = monitor
  BY <1>2 DEF Detach, Inv, TypeOK, MainPlace
<1>4. Held' /\ Alone'
  BY <1>1, <1>3 DEF Inv, Held, Alone, Restarting
<1>5. Accounted'
  BY <1>1, <1>2, <1>3, Listeners DEF Inv, Accounted, Restarting, Cleanup
<1>6. QED
  BY <1>1, <1>2, <1>3, <1>4, <1>5, SameKeeps DEF Same, Inv, TypeOK

\* stop and post change a flag of the target, which nothing else depends on.
LEMMA FlagKeeps ==
  ASSUME Inv, main.target \in Listener, NEW next \in ListenerState,
         next.at = lsn[main.target].at, next.hook = lsn[main.target].hook,
         next.installed = lsn[main.target].installed,
         next.hooked = lsn[main.target].hooked, next.lost = lsn[main.target].lost,
         next.ready = lsn[main.target].ready, next.failed = lsn[main.target].failed,
         lsn' = [lsn EXCEPT ![main.target] = next],
         main' \in [pc : MainPlace, target : Listener \cup {None}, booting : BOOLEAN],
         main'.target = main.target,
         \/ main.pc \in Restarting /\ main'.pc \in Restarting
         \/ main.pc \in Cleanup /\ main'.pc \in Cleanup,
         UNCHANGED <<monitor, tally, upset, faults>>
  PROVE  Inv'
<1>1. lsn \in [Listener -> ListenerState]
  BY DEF Inv, TypeOK
<1>2. lsn'[main.target] = next /\ \A k \in Listener \ {main.target} : lsn'[k] = lsn[k]
  BY <1>1
<1>3. \A k \in Listener : /\ lsn'[k].at = lsn[k].at /\ lsn'[k].ready = lsn[k].ready
                          /\ lsn'[k].failed = lsn[k].failed
                          /\ Holding(lsn'[k]) = Holding(lsn[k]) /\ Shape(lsn'[k])
  BY <1>2 DEF Inv, Shape, Holding
<1>4. TypeOK'
  <2>1. lsn' \in [Listener -> ListenerState]
    BY <1>1
  <2>2. QED
    BY <2>1, Listeners DEF Inv, TypeOK
<1>5. Held'
  BY <1>3 DEF Inv, TypeOK, Held, Restarting, Cleanup
<1>6. Alone' /\ Accounted'
  BY <1>3 DEF Inv, Alone, Accounted, Restarting, Cleanup
<1>7. QED
  BY <1>3, <1>4, <1>5, <1>6 DEF Inv, NoDuplicateRecords

LEMMA StopStep == ASSUME Inv, SetStopping \/ PostQuit PROVE Inv'
<1>1. main.target \in Listener /\ lsn[main.target] \in ListenerState
  BY TargetTyped DEF SetStopping, PostQuit, Inv, TypeOK
<1> DEFINE s == lsn[main.target]
<1>2. CASE SetStopping
  <2>1. [s EXCEPT !.stopping = TRUE] \in ListenerState
    BY <1>1 DEF ListenerState
  <2>2. lsn' = [lsn EXCEPT ![main.target] = [s EXCEPT !.stopping = TRUE]]
    BY <1>2 DEF SetStopping
  <2>3. /\ main' \in [pc : MainPlace, target : Listener \cup {None}, booting : BOOLEAN]
        /\ main'.target = main.target
        /\ \/ main.pc \in Restarting /\ main'.pc \in Restarting
           \/ main.pc \in Cleanup /\ main'.pc \in Cleanup
    BY <1>2, GotoTyped DEF SetStopping, Inv, MainPlace, Restarting, Cleanup
  <2> DEFINE next == [s EXCEPT !.stopping = TRUE]
  <2>4. /\ next.at = s.at /\ next.hook = s.hook /\ next.installed = s.installed
        /\ next.hooked = s.hooked /\ next.lost = s.lost /\ next.ready = s.ready
        /\ next.failed = s.failed
    BY <1>1 DEF ListenerState
  <2>5. UNCHANGED <<monitor, tally, upset, faults>>
    BY <1>2 DEF SetStopping
  <2> HIDE DEF next
  <2>6. QED
    BY <1>1, <2>1, <2>2, <2>3, <2>4, <2>5, FlagKeeps DEF next
<1>3. CASE PostQuit
  <2> DEFINE q == s.quit \/ Posted(main.target)
  <2>1. [s EXCEPT !.quit = q] \in ListenerState
    BY <1>1 DEF ListenerState
  <2>2. lsn' = [lsn EXCEPT ![main.target] = [s EXCEPT !.quit = q]]
    BY <1>3 DEF PostQuit
  <2>3. /\ main' \in [pc : MainPlace, target : Listener \cup {None}, booting : BOOLEAN]
        /\ main'.target = main.target
        /\ \/ main.pc \in Restarting /\ main'.pc \in Restarting
           \/ main.pc \in Cleanup /\ main'.pc \in Cleanup
    BY <1>3, GotoTyped DEF PostQuit, Inv, MainPlace, Restarting, Cleanup
  <2> DEFINE next == [s EXCEPT !.quit = q]
  <2>4. /\ next.at = s.at /\ next.hook = s.hook /\ next.installed = s.installed
        /\ next.hooked = s.hooked /\ next.lost = s.lost /\ next.ready = s.ready
        /\ next.failed = s.failed
    BY <1>1 DEF ListenerState
  <2>5. UNCHANGED <<monitor, tally, upset, faults>>
    BY <1>3 DEF PostQuit
  <2> HIDE DEF q, next
  <2>6. QED
    BY <1>1, <2>1, <2>2, <2>3, <2>4, <2>5, FlagKeeps DEF next
<1>4. QED
  BY <1>2, <1>3

LEMMA AfterJoinTyped ==
  ASSUME TypeOK, AfterJoin, main.pc \in {"restartJoin", "join"}
  PROVE  /\ main' \in [pc : MainPlace, target : Listener \cup {None}, booting : BOOLEAN]
         /\ main'.target = main.target
         /\ main'.pc = IF main.pc = "restartJoin" THEN "create" ELSE "exited"
  BY GotoTyped DEF AfterJoin, MainPlace

\* The thread of the target, the only one that held a hook, has ended.
LEMMA JoinStep == ASSUME Inv, Join PROVE Inv'
<1>1. /\ main.pc \in {"restartJoin", "join"} /\ UNCHANGED <<lsn, monitor, tally, upset, faults>>
      /\ lsn[main.target].at \in {"none", "dead"}
  BY DEF Join, Joined, Running
<1>2. /\ main' \in [pc : MainPlace, target : Listener \cup {None}, booting : BOOLEAN]
      /\ main'.target = main.target
      /\ main'.pc = IF main.pc = "restartJoin" THEN "create" ELSE "exited"
  BY <1>1, AfterJoinTyped DEF Join, Inv
<1>3. ~Holding(lsn[main.target])
  BY <1>1, TargetTyped DEF Inv, Shape, Holding
<1>4. Held' /\ Alone' /\ Accounted'
  BY <1>1, <1>2, <1>3 DEF Inv, Held, Alone, Accounted, Restarting, Cleanup
<1>5. QED
  BY <1>1, <1>2, <1>4, SameKeeps DEF Same, Inv, TypeOK

LEMMA JoinExpiresStep == ASSUME Inv, JoinExpires PROVE Inv'
<1>1. /\ main.pc \in {"restartJoin", "join"} /\ UNCHANGED <<lsn, monitor, tally>>
      /\ upset' = upset \cup {"join"} /\ faults' \in 0 .. MaxFaults
  BY FaultTyped DEF JoinExpires, Inv
<1>2. /\ main' \in [pc : MainPlace, target : Listener \cup {None}, booting : BOOLEAN]
      /\ main'.target = main.target
      /\ main'.pc = IF main.pc = "restartJoin" THEN "create" ELSE "exited"
  BY <1>1, AfterJoinTyped DEF JoinExpires, Inv
<1>3. Held' /\ Alone' /\ Accounted'
  BY <1>1, <1>2 DEF Inv, Held, Alone, Accounted, Restarting, Cleanup
<1>4. QED
  BY <1>1, <1>2, <1>3, SameKeeps DEF Same, Inv, TypeOK

LEMMA FinallyTyped ==
  ASSUME TypeOK, Finally
  PROVE  /\ main' \in [pc : MainPlace, target : Listener \cup {None}, booting : BOOLEAN]
         /\ main'.target = monitor
         /\ main'.pc = IF monitor = None THEN "exited" ELSE "stopFlag"
  BY DEF TypeOK, Finally, NothingToStop, MainPlace, Cleanup

LEMMA ShutdownStep == ASSUME Inv, Shutdown PROVE Inv'
<1>1. main.pc = "maintain" /\ UNCHANGED <<lsn, monitor, tally, upset, faults>>
  BY DEF Shutdown
<1>2. /\ main' \in [pc : MainPlace, target : Listener \cup {None}, booting : BOOLEAN]
      /\ main'.target = monitor
      /\ main'.pc = IF monitor = None THEN "exited" ELSE "stopFlag"
  BY FinallyTyped DEF Shutdown, Inv
<1>3. Held' /\ Alone' /\ Accounted'
  BY <1>1, <1>2, Listeners DEF Inv, Held, Alone, Accounted, Restarting, Cleanup
<1>4. QED
  BY <1>1, <1>2, <1>3, SameKeeps DEF Same, Inv, TypeOK

LEMMA InterruptStep == ASSUME Inv, Interrupt PROVE Inv'
<1>1. /\ UNCHANGED <<lsn, monitor, tally, faults>> /\ upset' = upset \cup {"interrupt"}
  BY DEF Interrupt
<1>2. /\ main' \in [pc : MainPlace, target : Listener \cup {None}, booting : BOOLEAN]
      /\ main'.pc \in {"exited", "stopFlag"}
      /\ main'.target = None => main'.pc = "exited"
  <2>1. Goto("exited") \/ Finally
    BY DEF Interrupt
  <2>2. QED
    BY <2>1, GotoTyped, FinallyTyped DEF Inv, MainPlace
<1>3. Held' /\ Alone' /\ Accounted'
  BY <1>1, <1>2 DEF Inv, Held, Alone, Accounted, Restarting
<1>4. QED
  BY <1>1, <1>2, <1>3, SameKeeps DEF Same, Inv, TypeOK

LEMMA InvStep == Inv /\ [Next]_vars => Inv'
<1> SUFFICES ASSUME Inv, [Next]_vars PROVE Inv'
  OBVIOUS
<1>1. CASE UNCHANGED vars
  BY <1>1 DEF vars, Inv, TypeOK, Held, Alone, Accounted, NoDuplicateRecords
<1>2. CASE MainStep
  BY <1>2, CreateStep, AwaitStep, VerdictStep, ProbeStep, DetachStep, StopStep, JoinStep
     DEF MainStep
<1>3. CASE AwaitExpires \/ JoinExpires
  BY <1>3, AwaitExpiresStep, JoinExpiresStep
<1>4. CASE Shutdown \/ Interrupt
  BY <1>4, ShutdownStep, InterruptStep
<1>5. CASE Press
  BY <1>5, PressStep
<1>6. CASE \E l \in Listener : HookThread(l) \/ HookFails(l)
  BY <1>6, HookThreadStep, HookFailsStep
<1>7. QED
  BY <1>1, <1>2, <1>3, <1>4, <1>5, <1>6 DEF Next

THEOREM InvHolds == Spec => []Inv
<1>1. QED
  BY InvInit, InvStep, PTL DEF Spec

-----------------------------------------------------------------------------
(* What follows from the invariant *)

\* Every variable keeps its type; no action works on a listener that is not there.
THEOREM TypeCorrect == Spec => []TypeOK
<1>1. Inv => TypeOK
  BY DEF Inv
<1>2. QED
  BY <1>1, InvHolds, PTL

\* Health is honest at every moment of the hook thread's cleanup.
THEOREM AliveMeansInstalledHolds == Spec => []AliveMeansInstalled
<1>1. Inv => AliveMeansInstalled
  BY DEF Inv, TypeOK, Shape, Alive, AliveMeansInstalled
<1>2. QED
  BY <1>1, InvHolds, PTL

\* A stored listener got its hook, also if its thread ended before start looked.
THEOREM StartedMeansHookedHolds == Spec => []StartedMeansHooked
<1>1. Inv => StartedMeansHooked
  <2> SUFFICES ASSUME Inv, monitor # None PROVE lsn[monitor].hooked
    BY DEF StartedMeansHooked
  <2>1. lsn[monitor].ready /\ ~lsn[monitor].failed /\ Shape(lsn[monitor])
    BY DEF Inv, TypeOK, Held
  <2>2. QED
    BY <2>1 DEF Shape
<1>2. QED
  BY <1>1, InvHolds, PTL

\* A press is recorded once through any number of restarts, dead loops and joins
\* that expire, as long as no start was given up.
THEOREM NoDuplicateRecordsHolds == Spec => []NoDuplicateRecords
<1>1. Inv => NoDuplicateRecords
  BY DEF Inv
<1>2. QED
  BY <1>1, InvHolds, PTL

\* The runtime leaves no hook behind, however many listeners it went through.
THEOREM ShutdownUnhooksHolds == Spec => []ShutdownUnhooks
<1>1. Inv => ShutdownUnhooks
  BY DEF Inv, Accounted, Holding, Installed, ShutdownUnhooks
<1>2. QED
  BY <1>1, InvHolds, PTL
-----------------------------------------------------------------------------
(* What the liveness of a stop rests on: no stop is lost *)

\* What a listener tells of a stop: its thread can be addressed from the moment
\* it has published its id, WM_QUIT follows the flag, and both come after start.
Addressed(s) ==
  /\ s.at \in {"named", "hooked", "checking", "pumping", "ending", "unhooking", "closing"}
       => s.id
  /\ s.quit => s.stopping
  /\ s.stopping => s.ready

\* The main thread stops only what it started, and sets the flag first.
Aimed ==
  /\ main.pc \in Restarting \cup Cleanup => lsn[main.target].ready
  /\ main.pc \in {"restartPost", "restartJoin", "stopPost", "join"}
       => lsn[main.target].stopping

Posting(l) == main.pc \in {"restartPost", "stopPost"} /\ main.target = l

\* A thread that waits for messages although it was told to stop has WM_QUIT in
\* its queue, or the stop is about to post it; only an interrupt of the stop
\* itself leaves it without.
StopNotLost ==
  \A l \in Listener :
    lsn[l].stopping /\ lsn[l].at = "pumping" =>
      lsn[l].quit \/ Posting(l) \/ "interrupt" \in upset

StopInv == (\A l \in Listener : Addressed(lsn[l])) /\ Aimed /\ StopNotLost

LEMMA StopInit == Init => StopInv
<1> SUFFICES ASSUME Init PROVE StopInv
  OBVIOUS
<1>1. \A l \in Listener : lsn[l] = NewListener
  BY DEF Init
<1>2. QED
  BY <1>1 DEF Init, NewListener, StopInv, Addressed, Aimed, StopNotLost, Restarting, Cleanup

\* A hook thread publishes its id before it can be stopped, keeps what it was
\* told, and waits for messages only if it found _stopping unset.
Heeds(s, next) ==
  /\ next.at \in {"named", "hooked", "checking", "pumping", "ending", "unhooking", "closing"}
       => next.id
  /\ next.quit = s.quit /\ next.stopping = s.stopping
  /\ s.ready => next.ready
  /\ next.at = "pumping" => s.at = "pumping" \/ ~s.stopping

LEMMA HookStepHeeds ==
  ASSUME Inv, StopInv, NEW l \in Listener, NEW from, NEW next, HookStep(l, from, next),
         Heeds(lsn[l], next)
  PROVE  StopInv'
<1>1. /\ lsn \in [Listener -> ListenerState] /\ lsn' = [lsn EXCEPT ![l] = next]
      /\ UNCHANGED <<main, upset>>
  BY DEF HookStep, Inv, TypeOK
<1>2. lsn'[l] = next /\ \A k \in Listener \ {l} : lsn'[k] = lsn[k]
  BY <1>1
<1>3. \A k \in Listener :
        /\ Addressed(lsn'[k])
        /\ lsn'[k].quit = lsn[k].quit /\ lsn'[k].stopping = lsn[k].stopping
        /\ lsn[k].ready => lsn'[k].ready
        /\ lsn'[k].at = "pumping" => lsn[k].at = "pumping" \/ ~lsn[k].stopping
  BY <1>2 DEF StopInv, Addressed, Heeds
<1>4. Aimed'
  <2>1. main.pc \in Restarting \cup Cleanup => main.target \in Listener
    BY TargetTyped DEF Inv, Restarting, Cleanup
  <2>2. QED
    BY <1>1, <1>3, <2>1 DEF StopInv, Aimed, Restarting, Cleanup
<1>5. StopNotLost'
  BY <1>1, <1>3 DEF StopInv, StopNotLost, Posting
<1>6. QED
  BY <1>3, <1>4, <1>5 DEF StopInv

LEMMA HookThreadHeeds ==
  ASSUME Inv, StopInv, NEW l \in Listener, HookThread(l) \/ HookFails(l)
  PROVE  StopInv'
<1>0. lsn[l] \in ListenerState /\ Addressed(lsn[l])
  BY DEF Inv, TypeOK, StopInv
<1> DEFINE s == lsn[l]
<1>1. CASE PublishThreadId(l)
  <2>1. Heeds(s, [s EXCEPT !.at = "named", !.id = TRUE])
    BY <1>0 DEF Heeds, ListenerState
  <2>2. QED
    BY <1>1, <2>1, HookStepHeeds DEF PublishThreadId
<1>2. CASE InstallHook(l)
  <2>1. Heeds(s, [s EXCEPT !.at = "hooked", !.installed = TRUE, !.hooked = TRUE])
    BY <1>0, <1>2 DEF Heeds, ListenerState, Addressed, InstallHook, HookStep
  <2>2. QED
    BY <1>2, <2>1, HookStepHeeds DEF InstallHook
<1>3. CASE PublishHook(l)
  <2>1. Heeds(s, [s EXCEPT !.at = "checking", !.hook = TRUE, !.ready = TRUE])
    BY <1>0, <1>3 DEF Heeds, ListenerState, Addressed, PublishHook, HookStep
  <2>2. QED
    BY <1>3, <2>1, HookStepHeeds DEF PublishHook
<1>4. CASE CheckStopping(l)
  <2> DEFINE p == IF s.stopping THEN "ending" ELSE "pumping"
  <2>1. Heeds(s, [s EXCEPT !.at = p])
    BY <1>0, <1>4 DEF Heeds, ListenerState, Addressed, CheckStopping, HookStep
  <2>2. QED
    BY <1>4, <2>1, HookStepHeeds DEF CheckStopping
<1>5. CASE ReceiveQuit(l) \/ PumpFails(l)
  <2>1. Heeds(s, [s EXCEPT !.at = "ending"])
    BY <1>0, <1>5 DEF Heeds, ListenerState, Addressed, ReceiveQuit, PumpFails, HookStep
  <2>2. QED
    BY <1>5, <2>1, HookStepHeeds DEF ReceiveQuit, PumpFails
<1>6. CASE ForgetHook(l)
  <2>1. Heeds(s, [s EXCEPT !.at = "unhooking", !.hook = FALSE])
    BY <1>0, <1>6 DEF Heeds, ListenerState, Addressed, ForgetHook, HookStep
  <2>2. QED
    BY <1>6, <2>1, HookStepHeeds DEF ForgetHook
<1>7. CASE RemoveHook(l)
  <2>1. Heeds(s, [s EXCEPT !.at = "closing", !.installed = FALSE])
    BY <1>0, <1>7 DEF Heeds, ListenerState, Addressed, RemoveHook, HookStep
  <2>2. QED
    BY <1>7, <2>1, HookStepHeeds DEF RemoveHook
<1>8. CASE EndThread(l)
  <2>1. Heeds(s, [s EXCEPT !.at = "dead", !.id = FALSE, !.ready = TRUE])
    BY <1>0, <1>8 DEF Heeds, ListenerState
  <2>2. QED
    BY <1>8, <2>1, HookStepHeeds DEF EndThread
<1>9. CASE RefuseHook(l)
  <2>1. Heeds(s, [s EXCEPT !.at = "ending", !.failed = TRUE])
    BY <1>0, <1>9 DEF Heeds, ListenerState, Addressed, RefuseHook, HookStep
  <2>2. QED
    BY <1>9, <2>1, HookStepHeeds DEF RefuseHook
<1>10. CASE LoseHook(l)
  <2>1. Heeds(s, [s EXCEPT !.installed = FALSE, !.lost = TRUE])
    BY <1>0, <1>10 DEF Heeds, ListenerState, Addressed, LoseHook, HookStep
  <2>2. QED
    BY <1>10, <2>1, HookStepHeeds DEF LoseHook
<1>11. QED
  BY <1>1, <1>2, <1>3, <1>4, <1>5, <1>6, <1>7, <1>8, <1>9, <1>10 DEF HookThread, HookFails

\* What the main thread does beside a stop leaves every listener alone.
LEMMA SameHeeds ==
  ASSUME Inv, StopInv, UNCHANGED lsn, Aimed', upset \subseteq upset',
         main.pc \in {"restartPost", "stopPost"} => "interrupt" \in upset'
  PROVE  StopInv'
  BY DEF StopInv, StopNotLost, Posting

LEMMA CreateHeeds == ASSUME Inv, StopInv, Create PROVE StopInv'
<1>1. PICK l \in Unborn : /\ lsn' = [lsn EXCEPT ![l].at = "born"]
                          /\ main' = [main EXCEPT !.pc = "await", !.target = l]
  BY DEF Create, Inv, Held
<1>2. /\ lsn \in [Listener -> ListenerState] /\ lsn[l].at = "none" /\ l \in Listener
      /\ main' = [main EXCEPT !.pc = "await", !.target = l] /\ main.pc = "create"
      /\ UNCHANGED upset
  BY <1>1 DEF Unborn, Inv, TypeOK, Create
<1>3. main'.pc = "await"
  BY <1>2 DEF Inv, TypeOK
<1>4. /\ lsn'[l] = [lsn[l] EXCEPT !.at = "born"]
      /\ \A k \in Listener \ {l} : lsn'[k] = lsn[k]
  BY <1>1, <1>2
<1>5. ~lsn[l].stopping /\ Addressed(lsn[l])
  BY <1>2 DEF Inv, StopInv, Shape, Addressed
<1>6. \A k \in Listener : Addressed(lsn'[k])
  BY <1>2, <1>4, <1>5 DEF StopInv, Addressed, ListenerState
<1>7. StopNotLost'
  <2>1. lsn'[l].at = "born"
    BY <1>2, <1>4 DEF ListenerState
  <2>2. QED
    BY <1>2, <1>4, <2>1 DEF StopInv, StopNotLost, Posting
<1>8. QED
  BY <1>3, <1>6, <1>7 DEF StopInv, Aimed, Restarting, Cleanup

\* The flag is set and the post is to come; a running thread has a queue and an
\* id by then, so that the post is not in vain.
LEMMA StopHeeds == ASSUME Inv, StopInv, SetStopping \/ PostQuit PROVE StopInv'
<1>0. /\ main.target \in Listener /\ lsn[main.target] \in ListenerState
      /\ lsn \in [Listener -> ListenerState] /\ UNCHANGED upset
      /\ Addressed(lsn[main.target]) /\ lsn[main.target].ready
  BY TargetTyped DEF SetStopping, PostQuit, Inv, TypeOK, StopInv, Aimed, Restarting, Cleanup
<1> DEFINE t == main.target
           s == lsn[t]
<1>1. CASE SetStopping
  <2> DEFINE next == [s EXCEPT !.stopping = TRUE]
  <2>1. lsn' = [lsn EXCEPT ![t] = next]
    BY <1>1 DEF SetStopping
  <2>2. main'.target = t /\ main'.pc \in {"restartPost", "stopPost"}
    BY <1>1, GotoTyped DEF SetStopping, Inv, MainPlace, Cleanup
  <2>3. next.at = s.at /\ next.id = s.id /\ next.quit = s.quit /\ next.ready = s.ready
        /\ next.stopping
    BY <1>0 DEF ListenerState
  <2> HIDE DEF next
  <2>4. lsn'[t] = next /\ \A k \in Listener \ {t} : lsn'[k] = lsn[k]
    BY <1>0, <2>1
  <2>5. \A k \in Listener : Addressed(lsn'[k])
    BY <1>0, <2>3, <2>4 DEF StopInv, Addressed
  <2>6. Aimed'
    BY <1>0, <2>2, <2>3, <2>4 DEF Aimed
  <2>7. StopNotLost'
    BY <1>0, <1>1, <2>2, <2>4 DEF StopInv, StopNotLost, Posting, SetStopping
  <2>8. QED
    BY <2>5, <2>6, <2>7 DEF StopInv
<1>2. CASE PostQuit
  <2> DEFINE q    == s.quit \/ Posted(t)
             next == [s EXCEPT !.quit = q]
  <2>0. main.pc \in {"restartPost", "stopPost"} /\ s.stopping
    BY <1>2 DEF PostQuit, StopInv, Aimed
  <2>1. lsn' = [lsn EXCEPT ![t] = next]
    BY <1>2 DEF PostQuit
  <2>2. main'.target = t /\ main'.pc \in {"restartJoin", "join"}
    BY <1>2, GotoTyped DEF PostQuit, Inv, MainPlace, Cleanup
  <2>3. s.at = "pumping" => q
    BY <1>0 DEF Posted, HasQueue, Running, Addressed
  <2>4. next.at = s.at /\ next.id = s.id /\ next.quit = q /\ next.ready = s.ready
        /\ next.stopping = s.stopping
    BY <1>0 DEF ListenerState
  <2> HIDE DEF next, q
  <2>5. lsn'[t] = next /\ \A k \in Listener \ {t} : lsn'[k] = lsn[k]
    BY <1>0, <2>1
  <2>6. \A k \in Listener : Addressed(lsn'[k])
    BY <1>0, <2>0, <2>4, <2>5 DEF StopInv, Addressed
  <2>7. Aimed'
    BY <1>0, <2>0, <2>2, <2>4, <2>5 DEF Aimed
  <2>8. StopNotLost'
    BY <1>0, <2>0, <2>3, <2>4, <2>5 DEF StopInv, StopNotLost, Posting
  <2>9. QED
    BY <2>6, <2>7, <2>8 DEF StopInv
<1>3. QED
  BY <1>1, <1>2

LEMMA StopStays == StopInv /\ Inv /\ [Next]_vars => StopInv'
<1> SUFFICES ASSUME StopInv, Inv, [Next]_vars PROVE StopInv'
  OBVIOUS
<1> USE DEF Restarting, Cleanup
<1>1. CASE UNCHANGED vars
  BY <1>1 DEF vars, StopInv, Aimed, StopNotLost, Posting
<1>2. CASE Create
  BY <1>2, CreateHeeds
<1>3. CASE SetStopping \/ PostQuit
  BY <1>3, StopHeeds
<1>4. CASE Await
  <2>1. main'.pc = "verdict"
    BY <1>4, GotoTyped DEF Await, Inv, MainPlace
  <2>2. QED
    BY <1>4, <2>1, SameHeeds DEF Await, Aimed
<1>5. CASE AwaitExpires
  <2>1. main'.pc \in {"exited", "maintain"}
    BY <1>5, GotoTyped DEF AwaitExpires, StartRaises, Inv, MainPlace
  <2>2. QED
    BY <1>5, <2>1, SameHeeds DEF AwaitExpires, Aimed
<1>6. CASE Verdict
  <2>1. main'.pc \in {"exited", "maintain"}
    BY <1>6, GotoTyped DEF Verdict, StartRaises, Inv, TypeOK, MainPlace
  <2>2. QED
    BY <1>6, <2>1, SameHeeds DEF Verdict, Aimed
<1>7. CASE Probe
  <2>1. main'.pc = "detach"
    BY <1>7, GotoTyped DEF Probe, Inv, MainPlace
  <2>2. QED
    BY <1>7, <2>1, SameHeeds DEF Probe, Aimed
<1>8. CASE Detach
  <2>1. /\ main'.pc \in {"create", "restartFlag"} /\ main'.target = monitor
        /\ main'.pc = "restartFlag" => monitor # None
    BY <1>8 DEF Detach, Inv, TypeOK
  <2>2. QED
    BY <1>8, <2>1, SameHeeds DEF Detach, Aimed, Inv, Held
<1>9. CASE Join \/ JoinExpires
  <2>1. main'.pc \in {"create", "exited"}
    BY <1>9, AfterJoinTyped DEF Join, JoinExpires, Inv
  <2>2. QED
    BY <1>9, <2>1, SameHeeds DEF Join, JoinExpires, Aimed
<1>10. CASE Shutdown
  <2>1. main'.target = monitor /\ main'.pc = IF monitor = None THEN "exited" ELSE "stopFlag"
    BY <1>10, FinallyTyped DEF Shutdown, Inv
  <2>2. QED
    BY <1>10, <2>1, SameHeeds DEF Shutdown, Aimed, Inv, Held
<1>11. CASE Interrupt
  <2>1. \/ main'.pc = "exited"
        \/ main'.target = monitor /\ main'.pc = IF monitor = None THEN "exited" ELSE "stopFlag"
    BY <1>11, FinallyTyped, GotoTyped DEF Interrupt, Inv, MainPlace
  <2>2. QED
    BY <1>11, <2>1, SameHeeds DEF Interrupt, Aimed, Inv, Held
<1>12. CASE Press
  BY <1>12 DEF Press, StopInv, Aimed, StopNotLost, Posting
<1>13. CASE \E l \in Listener : HookThread(l) \/ HookFails(l)
  BY <1>13, HookThreadHeeds
<1>14. QED
  BY <1>1, <1>2, <1>3, <1>4, <1>5, <1>6, <1>7, <1>8, <1>9, <1>10, <1>11, <1>12, <1>13
     DEF Next, MainStep

\* No stop is lost, wherever it finds the thread: before the loop tests _stopping,
\* about to block in GetMessageW or blocked there (win32_input.py:74-85, 133-141).
THEOREM StopNotLostHolds == Spec => []StopNotLost
<1>1. StopInv => StopNotLost
  BY DEF StopInv
<1>2. QED
  BY <1>1, StopInit, StopStays, InvHolds, InvInit, InvStep, PTL DEF Spec
-----------------------------------------------------------------------------
(* What the bound on listeners leaves out: nothing *)

Over(s) == s.at \in {"ending", "unhooking", "closing", "dead"}

\* A listener in use was not told to stop, and ends only through a fault that is
\* counted.
Paid(l, born) == ~lsn[l].stopping /\ (Over(lsn[l]) => born <= faults)

\* The listeners that were born are the first ones, at most one more than the
\* faults; as many as the faults wherever the next one may be created.
BornInOrder(born) ==
  /\ \A l \in Listener : lsn[l].at # "none" <=> l <= born
  /\ born <= faults + 1
  /\ main.pc \in {"create", "detach"} \cup Restarting => born <= faults
  /\ main.pc \in {"await", "verdict"} => Paid(main.target, born)
  /\ main.pc = "maintain" => IF monitor = None THEN born <= faults
                                               ELSE Paid(monitor, born)

BirthInv == \E born \in 0 .. MaxFaults + 1 : BornInOrder(born)

\* MaxFaults + 1 listeners are enough for every history with MaxFaults faults:
\* a restart always finds one to create, as the code always does.
AlwaysAnother == main.pc = "create" => Unborn # {}

LEMMA BirthInit == Init => BirthInv
<1> SUFFICES ASSUME Init PROVE BirthInv
  OBVIOUS
<1>1. \A l \in Listener : lsn[l].at = "none" /\ ~(l <= 0)
  BY HookAssumption DEF Init, NewListener, Listener
<1>2. BornInOrder(0)
  BY <1>1 DEF Init, BornInOrder
<1>3. QED
  BY <1>2, HookAssumption DEF BirthInv

LEMMA StillOneMore ==
  ASSUME NEW b \in Nat, NEW f \in Nat, NEW g \in Nat, b <= f + 1
  PROVE  f <= g => b <= g + 1
  OBVIOUS

\* The order of the births stays; only what is paid for has to be seen to.
LEMMA SameBirths ==
  ASSUME NEW born \in 0 .. MaxFaults + 1, BornInOrder(born), TypeOK,
         UNCHANGED lsn, faults' \in 0 .. MaxFaults, faults <= faults',
         (main.pc \in {"create", "detach"} \cup Restarting => born <= faults)',
         (main.pc \in {"await", "verdict"} => Paid(main.target, born))',
         (main.pc = "maintain" => IF monitor = None THEN born <= faults
                                                    ELSE Paid(monitor, born))'
  PROVE  BirthInv'
<1>0. born <= faults + 1 /\ faults \in Nat /\ faults' \in Nat /\ born \in Nat
  BY HookAssumption DEF BornInOrder, TypeOK
<1>1. born <= faults' + 1
  BY <1>0, StillOneMore
<1>2. BornInOrder(born)'
  BY <1>1 DEF BornInOrder
<1>3. QED
  BY <1>2 DEF BirthInv

\* The next listener is born after a fault, or is the first.
LEMMA CreateBirth == ASSUME Inv, StopInv, BirthInv, Create PROVE BirthInv'
<1>1. PICK born \in 0 .. MaxFaults + 1 : BornInOrder(born)
  BY DEF BirthInv
<1>2. PICK l \in Unborn : /\ \A k \in Unborn : l <= k
                          /\ lsn' = [lsn EXCEPT ![l].at = "born"]
                          /\ main' = [main EXCEPT !.pc = "await", !.target = l]
  BY DEF Create, Inv, Held
<1>3. /\ lsn \in [Listener -> ListenerState] /\ l \in Listener /\ lsn[l].at = "none"
      /\ main.pc = "create" /\ UNCHANGED <<faults, monitor>> /\ faults \in 0 .. MaxFaults
  BY <1>2 DEF Unborn, Inv, TypeOK, Create
<1>4. l = born + 1
  <2>1. born <= faults /\ \A k \in Listener : lsn[k].at # "none" <=> k <= born
    BY <1>1, <1>3 DEF BornInOrder
  <2>2. born + 1 \in Listener /\ ~(born + 1 <= born)
    BY <1>3, <2>1, HookAssumption DEF Listener
  <2>3. born + 1 \in Unborn
    BY <2>1, <2>2 DEF Unborn
  <2>4. l <= born + 1 /\ ~(l <= born)
    BY <1>2, <1>3, <2>1, <2>3
  <2>5. QED
    BY <1>3, <2>4, HookAssumption DEF Listener
<1>5. /\ lsn'[l] = [lsn[l] EXCEPT !.at = "born"]
      /\ \A k \in Listener \ {l} : lsn'[k] = lsn[k]
      /\ main'.pc = "await" /\ main'.target = l
  <2>1. main'.pc = "await" /\ main'.target = l
    BY <1>2 DEF Inv, TypeOK
  <2>2. QED
    BY <1>2, <1>3, <2>1
<1>6. ~lsn[l].stopping
  BY <1>3 DEF Inv, StopInv, Shape, Addressed
<1>7. lsn'[l].at = "born" /\ ~lsn'[l].stopping
  BY <1>3, <1>5, <1>6 DEF ListenerState
<1>8. \A k \in Listener : lsn'[k].at # "none" <=> k <= born + 1
  <2>1. \A k \in Listener \ {l} : k <= born + 1 <=> k <= born
    BY <1>4, HookAssumption DEF Listener
  <2>2. \A k \in Listener : lsn[k].at # "none" <=> k <= born
    BY <1>1 DEF BornInOrder
  <2>3. l <= born + 1
    BY <1>4, HookAssumption
  <2>4. QED
    BY <1>5, <1>7, <2>1, <2>2, <2>3
<1>9. born + 1 <= faults' + 1 /\ born + 1 \in 0 .. MaxFaults + 1
  BY <1>1, <1>3, HookAssumption DEF BornInOrder
<1>10. Paid(l, born + 1)'
  BY <1>7 DEF Paid, Over
<1>11. BornInOrder(born + 1)'
  BY <1>5, <1>8, <1>9, <1>10 DEF BornInOrder, Restarting
<1>12. QED
  BY <1>9, <1>11 DEF BirthInv

\* A hook thread ends because it was stopped, or through a fault.
LEMMA HookStepBirth ==
  ASSUME Inv, BirthInv, NEW l \in Listener, NEW from, NEW next, HookStep(l, from, next),
         from # "none", next.at # "none", next.stopping = lsn[l].stopping,
         faults' \in 0 .. MaxFaults,
         \/ faults' = faults /\ (Over(next) => Over(lsn[l]) \/ lsn[l].stopping)
         \/ faults' = faults + 1
  PROVE  BirthInv'
<1>1. PICK born \in 0 .. MaxFaults + 1 : BornInOrder(born)
  BY DEF BirthInv
<1>2. /\ lsn \in [Listener -> ListenerState] /\ lsn' = [lsn EXCEPT ![l] = next]
      /\ UNCHANGED <<main, monitor>> /\ lsn[l].at = from /\ faults \in 0 .. MaxFaults
  BY DEF HookStep, Inv, TypeOK
<1>3. lsn'[l] = next /\ \A k \in Listener \ {l} : lsn'[k] = lsn[k]
  BY <1>2
<1>4. \A k \in Listener : (lsn'[k].at # "none" <=> lsn[k].at # "none")
                          /\ lsn'[k].stopping = lsn[k].stopping
  BY <1>2, <1>3
<1>5. born <= faults + 1 /\ faults <= faults' /\ born <= faults' + 1
  <2>1. born <= faults + 1 /\ faults \in Nat /\ faults' \in Nat /\ born \in Nat
    BY <1>1, <1>2, HookAssumption DEF BornInOrder
  <2>2. faults <= faults'
    BY <2>1
  <2>3. QED
    BY <2>1, <2>2, StillOneMore
<1>6. \A k \in Listener : Paid(k, born) => Paid(k, born)'
  <2> SUFFICES ASSUME NEW k \in Listener, Paid(k, born) PROVE Paid(k, born)'
    OBVIOUS
  <2>1. CASE faults' = faults + 1
    BY <1>4, <1>5, <2>1 DEF Paid
  <2>2. CASE faults' = faults /\ (Over(next) => Over(lsn[l]) \/ lsn[l].stopping)
    BY <1>3, <1>4, <2>2 DEF Paid
  <2>3. QED
    BY <2>1, <2>2
<1>7. main.pc \in {"await", "verdict"} => main.target \in Listener
  BY TargetTyped DEF Inv
<1>8. monitor # None => monitor \in Listener
  BY DEF Inv, TypeOK
<1>9. born <= faults => born <= faults'
  BY <1>2, <1>5, HookAssumption
<1>10. BornInOrder(born)'
  BY <1>1, <1>2, <1>4, <1>5, <1>6, <1>7, <1>8, <1>9 DEF BornInOrder
<1>11. QED
  BY <1>10 DEF BirthInv

LEMMA HookThreadBirth ==
  ASSUME Inv, StopInv, BirthInv, NEW l \in Listener, HookThread(l) \/ HookFails(l)
  PROVE  BirthInv'
<1>0. lsn[l] \in ListenerState /\ Addressed(lsn[l]) /\ faults \in 0 .. MaxFaults
  BY DEF Inv, TypeOK, StopInv
<1> DEFINE s == lsn[l]
<1>1. CASE HookThread(l)
  <2>0. faults' = faults /\ faults' \in 0 .. MaxFaults
    BY <1>0, <1>1 DEF HookThread
  <2>1. CASE PublishThreadId(l)
    BY <1>0, <2>0, <2>1, HookStepBirth DEF PublishThreadId, ListenerState, Over
  <2>2. CASE InstallHook(l)
    BY <1>0, <2>0, <2>2, HookStepBirth DEF InstallHook, ListenerState, Over
  <2>3. CASE PublishHook(l)
    BY <1>0, <2>0, <2>3, HookStepBirth DEF PublishHook, ListenerState, Over
  <2>4. CASE CheckStopping(l)
    BY <1>0, <2>0, <2>4, HookStepBirth DEF CheckStopping, ListenerState, Over
  <2>5. CASE ReceiveQuit(l)
    BY <1>0, <2>0, <2>5, HookStepBirth DEF ReceiveQuit, ListenerState, Over, Addressed
  <2>6. CASE ForgetHook(l)
    <3>1. Over(s)
      BY <2>6 DEF ForgetHook, HookStep, Over
    <3>2. QED
      BY <1>0, <2>0, <2>6, <3>1, HookStepBirth DEF ForgetHook, ListenerState
  <2>7. CASE RemoveHook(l)
    <3>1. Over(s)
      BY <2>7 DEF RemoveHook, HookStep, Over
    <3>2. QED
      BY <1>0, <2>0, <2>7, <3>1, HookStepBirth DEF RemoveHook, ListenerState
  <2>8. CASE EndThread(l)
    <3>1. Over(s)
      BY <2>8 DEF EndThread, HookStep, Over
    <3>2. QED
      BY <1>0, <2>0, <2>8, <3>1, HookStepBirth DEF EndThread, ListenerState
  <2>9. QED
    BY <1>1, <2>1, <2>2, <2>3, <2>4, <2>5, <2>6, <2>7, <2>8 DEF HookThread
<1>2. CASE HookFails(l)
  <2>0. faults' = faults + 1 /\ faults' \in 0 .. MaxFaults
    BY <1>2, FaultTyped DEF HookFails, Fault, Inv
  <2>1. CASE RefuseHook(l)
    BY <1>0, <2>0, <2>1, HookStepBirth DEF RefuseHook, ListenerState
  <2>2. CASE PumpFails(l)
    BY <1>0, <2>0, <2>2, HookStepBirth DEF PumpFails, ListenerState
  <2>3. CASE LoseHook(l)
    <3> DEFINE next == [s EXCEPT !.installed = FALSE, !.lost = TRUE]
    <3>1. HookStep(l, "pumping", next) /\ s.at = "pumping"
      BY <2>3 DEF LoseHook, HookStep
    <3>2. next.at = "pumping" /\ next.stopping = s.stopping
      BY <1>0, <3>1 DEF ListenerState
    <3> HIDE DEF next
    <3>3. QED
      BY <2>0, <3>1, <3>2, HookStepBirth
  <2>4. QED
    BY <1>2, <2>1, <2>2, <2>3 DEF HookFails
<1>3. QED
  BY <1>1, <1>2

LEMMA BirthStays == Inv /\ StopInv /\ BirthInv /\ [Next]_vars => BirthInv'
<1> SUFFICES ASSUME Inv, StopInv, BirthInv, [Next]_vars PROVE BirthInv'
  OBVIOUS
<1>0. PICK born \in 0 .. MaxFaults + 1 : BornInOrder(born)
  BY DEF BirthInv
<1>t. faults \in 0 .. MaxFaults /\ faults <= faults
  BY HookAssumption DEF Inv, TypeOK
<1> USE DEF Restarting, Cleanup
<1>1. CASE UNCHANGED vars
  BY <1>0, <1>1 DEF vars, BornInOrder, BirthInv, Paid
<1>2. CASE Create
  BY <1>2, CreateBirth
<1>3. CASE Await
  <2>1. main'.pc = "verdict" /\ main'.target = main.target
    BY <1>3, GotoTyped DEF Await, Inv, MainPlace
  <2>2. QED
    BY <1>0, <1>3, <1>t, <2>1, SameBirths DEF Await, Inv, BornInOrder, Paid
<1>4. CASE AwaitExpires
  <2>1. main'.pc \in {"exited", "maintain"} /\ monitor' = None /\ lsn' = lsn
    BY <1>4, GotoTyped DEF AwaitExpires, StartRaises, Inv, Held, MainPlace
  <2>2. faults' = faults + 1 /\ faults' \in 0 .. MaxFaults
    BY <1>4, FaultTyped DEF AwaitExpires, Fault, Inv
  <2>3. born <= faults' /\ faults <= faults'
    BY <1>0, <1>t, <2>2, HookAssumption DEF BornInOrder
  <2>4. QED
    BY <1>0, <2>1, <2>2, <2>3, SameBirths DEF Inv
<1>5. CASE Verdict
  <2>0. /\ main.pc = "verdict" /\ monitor = None /\ UNCHANGED <<lsn, faults>>
        /\ main.target \in Listener /\ Paid(main.target, born)
    BY <1>0, <1>5, TargetTyped DEF Verdict, Inv, Held, BornInOrder
  <2>1. CASE lsn[main.target].failed
    <3>1. main'.pc \in {"exited", "maintain"} /\ monitor' = None
      BY <1>5, <2>0, <2>1, GotoTyped DEF Verdict, StartRaises, Inv, MainPlace
    <3>2. Over(lsn[main.target])
      BY <2>0, <2>1 DEF Inv, Shape, Over
    <3>3. QED
      BY <1>0, <1>t, <2>0, <3>1, <3>2, SameBirths DEF Inv, Paid
  <2>2. CASE ~lsn[main.target].failed
    <3>1. main'.pc = "maintain" /\ monitor' = main.target
      BY <1>5, <2>2 DEF Verdict, Kept, Inv, TypeOK
    <3>2. Paid(monitor, born)'
      BY <2>0, <3>1 DEF Paid
    <3>3. QED
      BY <1>0, <1>t, <2>0, <3>1, <3>2, SameBirths, Listeners DEF Inv
  <2>3. QED
    BY <2>1, <2>2
<1>6. CASE Probe
  <2>1. main'.pc = "detach" /\ main.pc = "maintain" /\ UNCHANGED <<lsn, faults>>
    BY <1>6, GotoTyped DEF Probe, Inv, MainPlace
  <2>2. born <= faults
    <3>1. CASE monitor = None
      BY <1>0, <2>1, <3>1 DEF BornInOrder
    <3>2. CASE monitor # None
      <4>1. /\ lsn[monitor].ready /\ Shape(lsn[monitor]) /\ lsn[monitor] \in ListenerState
            /\ Paid(monitor, born)
        BY <1>0, <2>1, <3>2 DEF Inv, TypeOK, Held, BornInOrder
      <4>2. lsn[monitor].at \in {"none", "dead"} \/ ~lsn[monitor].hook
        BY <1>6, <3>2 DEF Probe, Alive, Running
      <4>3. Over(lsn[monitor])
        BY <4>1, <4>2 DEF Shape, Over, ListenerState, Place
      <4>4. QED
        BY <4>1, <4>3 DEF Paid
    <3>3. QED
      BY <3>1, <3>2
  <2>3. QED
    BY <1>0, <1>t, <2>1, <2>2, SameBirths DEF Inv
<1>7. CASE Detach
  <2>1. main'.pc \in {"create", "restartFlag"} /\ main.pc = "detach" /\ UNCHANGED <<lsn, faults>>
    BY <1>7 DEF Detach, Inv, TypeOK
  <2>2. QED
    BY <1>0, <1>t, <2>1, SameBirths DEF Inv, BornInOrder
<1>8. CASE SetStopping \/ PostQuit
  <2>1. /\ main.target \in Listener /\ lsn \in [Listener -> ListenerState]
        /\ UNCHANGED <<faults, monitor>>
        /\ \E next \in ListenerState : /\ lsn' = [lsn EXCEPT ![main.target] = next]
                                       /\ next.at = lsn[main.target].at
    <3>1. main.target \in Listener /\ lsn \in [Listener -> ListenerState]
      BY <1>8, TargetTyped DEF SetStopping, PostQuit, Inv, TypeOK
    <3> DEFINE s == lsn[main.target]
    <3>2. CASE SetStopping
      <4>1. s \in ListenerState
        BY <3>1
      <4>2. [s EXCEPT !.stopping = TRUE] \in ListenerState
            /\ [s EXCEPT !.stopping = TRUE].at = s.at
        BY <4>1 DEF ListenerState
      <4>3. QED
        BY <3>1, <3>2, <4>2 DEF SetStopping
    <3>3. CASE PostQuit
      <4> DEFINE q == s.quit \/ Posted(main.target)
      <4>1. s \in ListenerState /\ q \in BOOLEAN
        BY <3>1 DEF ListenerState
      <4> HIDE DEF q
      <4>2. [s EXCEPT !.quit = q] \in ListenerState /\ [s EXCEPT !.quit = q].at = s.at
        BY <4>1 DEF ListenerState
      <4>3. lsn' = [lsn EXCEPT ![main.target] = [s EXCEPT !.quit = q]]
        BY <3>3 DEF PostQuit, q
      <4>4. QED
        BY <3>1, <3>3, <4>2, <4>3 DEF PostQuit
    <3>4. QED
      BY <1>8, <3>2, <3>3
  <2>2. \/ main.pc \in Restarting /\ main'.pc \in Restarting
        \/ main.pc \in Cleanup /\ main'.pc \in Cleanup
    BY <1>8, GotoTyped DEF SetStopping, PostQuit, Inv, MainPlace
  <2>3. \A k \in Listener : lsn'[k].at = lsn[k].at
    BY <2>1
  <2>4. BornInOrder(born)'
    BY <1>0, <2>1, <2>2, <2>3 DEF BornInOrder
  <2>5. QED
    BY <2>4 DEF BirthInv
<1>9. CASE Join \/ JoinExpires
  <2>1. main'.pc = (IF main.pc = "restartJoin" THEN "create" ELSE "exited") /\ lsn' = lsn
        /\ main.pc \in {"restartJoin", "join"}
    BY <1>9, AfterJoinTyped DEF Join, JoinExpires, Inv
  <2>2. faults' \in 0 .. MaxFaults /\ faults <= faults'
    BY <1>9, <1>t, FaultTyped, HookAssumption DEF Join, JoinExpires, Fault, Inv
  <2>3. main.pc = "restartJoin" => born <= faults'
    BY <1>0, <1>t, <2>2, HookAssumption DEF BornInOrder
  <2>4. QED
    BY <1>0, <2>1, <2>2, <2>3, SameBirths DEF Inv
<1>10. CASE Shutdown \/ Interrupt
  <2>1. main'.pc \in {"exited", "stopFlag"}
    BY <1>10, FinallyTyped, GotoTyped DEF Shutdown, Interrupt, Inv, MainPlace
  <2>2. UNCHANGED <<lsn, faults>>
    BY <1>10 DEF Shutdown, Interrupt
  <2>3. QED
    BY <1>0, <1>t, <2>1, <2>2, SameBirths DEF Inv
<1>11. CASE Press
  BY <1>0, <1>11 DEF Press, BornInOrder, BirthInv, Paid
<1>12. CASE \E l \in Listener : HookThread(l) \/ HookFails(l)
  BY <1>12, HookThreadBirth
<1>13. QED
  BY <1>1, <1>2, <1>3, <1>4, <1>5, <1>6, <1>7, <1>8, <1>9, <1>10, <1>11, <1>12
     DEF Next, MainStep

\* The bound of the model on listeners cuts no behaviour of the code off.
THEOREM AlwaysAnotherHolds == Spec => []AlwaysAnother
<1>1. Inv /\ BirthInv => AlwaysAnother
  <2> SUFFICES ASSUME Inv, BirthInv, main.pc = "create" PROVE Unborn # {}
    BY DEF AlwaysAnother
  <2>1. PICK born \in 0 .. MaxFaults + 1 : BornInOrder(born)
    BY DEF BirthInv
  <2>2. born <= faults /\ faults \in 0 .. MaxFaults
    BY <2>1 DEF BornInOrder, Inv, TypeOK
  <2>3. born + 1 \in Listener /\ ~(born + 1 <= born)
    BY <2>2, HookAssumption DEF Listener
  <2>4. lsn[born + 1].at = "none"
    BY <2>1, <2>3 DEF BornInOrder
  <2>5. QED
    BY <2>3, <2>4 DEF Unborn
<1>2. QED
  BY <1>1, BirthInit, BirthStays, StopInit, StopStays, InvInit, InvStep, PTL DEF Spec
-----------------------------------------------------------------------------
(* The contract of a monitor *)

\* Only a dead listener is detached, only the monitor's own is stopped for good,
\* and none is told to stop before.
Proper ==
  /\ main.pc = "detach" => ~Alive(monitor)
  /\ main.pc \in Cleanup => main.target = monitor
  /\ monitor # None /\ ~Leaving => ~lsn[monitor].stopping

Allowed == [Contract!ContractNext]_(Contract!contractVars)

LEMMA ProperInit == Init => Proper /\ Contract!ContractInit
  BY DEF Init, Proper, Cleanup, Contract!ContractInit, Health, Alive, Leaving

\* A step of the monitor that leaves its health alone
LEMMA SameHealth ==
  ASSUME Health' = Health, Leaving => Leaving'
  PROVE  Allowed
<1>1. CASE Leaving' = Leaving
  BY <1>1 DEF Allowed, Contract!contractVars
<1>2. CASE Leaving' # Leaving
  <2>1. Leaving' = TRUE /\ Leaving = FALSE
    BY <1>2 DEF Leaving
  <2>2. Contract!Leave
    BY <2>1 DEF Contract!Leave
  <2>3. QED
    BY <2>2 DEF Allowed, Contract!ContractNext
<1>3. QED
  BY <1>1, <1>2

\* A hook thread that is in use cannot come alive again, only die.
LEMMA HookStepProper ==
  ASSUME Inv, Proper, NEW l \in Listener, HookThread(l) \/ HookFails(l)
  PROVE  Proper' /\ Allowed
<1>0. /\ lsn[l] \in ListenerState /\ Shape(lsn[l]) /\ lsn \in [Listener -> ListenerState]
      /\ monitor \in Listener \cup {None} /\ None \notin Listener
      /\ (monitor # None => lsn[monitor].ready)
  BY Listeners DEF Inv, TypeOK, Held
<1> DEFINE s == lsn[l]
<1>1. \E from, next : /\ HookStep(l, from, next)
                      /\ next.stopping = s.stopping
                      /\ next.hook /\ next.at # "dead" => s.hook \/ from = "hooked"
                      /\ from \notin {"none", "dead"}
  <2> DEFINE Good(from, next) ==
        /\ next.stopping = s.stopping
        /\ next.hook /\ next.at # "dead" => s.hook \/ from = "hooked"
        /\ from \notin {"none", "dead"}
  <2>1. Good("born", [s EXCEPT !.at = "named", !.id = TRUE])
    BY <1>0 DEF ListenerState
  <2>2. Good("named", [s EXCEPT !.at = "hooked", !.installed = TRUE, !.hooked = TRUE])
    BY <1>0 DEF ListenerState
  <2>3. Good("named", [s EXCEPT !.at = "ending", !.failed = TRUE])
    BY <1>0 DEF ListenerState
  <2>4. Good("hooked", [s EXCEPT !.at = "checking", !.hook = TRUE, !.ready = TRUE])
    BY <1>0 DEF ListenerState
  <2>5. \A p : Good("checking", [s EXCEPT !.at = p])
    BY <1>0 DEF ListenerState
  <2>6. \A p : Good("pumping", [s EXCEPT !.at = p])
    BY <1>0 DEF ListenerState
  <2>7. Good("pumping", [s EXCEPT !.installed = FALSE, !.lost = TRUE])
    BY <1>0 DEF ListenerState
  <2>8. Good("ending", [s EXCEPT !.at = "unhooking", !.hook = FALSE])
    BY <1>0 DEF ListenerState
  <2>9. Good("unhooking", [s EXCEPT !.at = "closing", !.installed = FALSE])
    BY <1>0 DEF ListenerState
  <2>10. Good("closing", [s EXCEPT !.at = "dead", !.id = FALSE, !.ready = TRUE])
    BY <1>0 DEF ListenerState
  <2> HIDE DEF Good
  <2>11. \E from, next : HookStep(l, from, next) /\ Good(from, next)
    BY <2>1, <2>2, <2>3, <2>4, <2>5, <2>6, <2>7, <2>8, <2>9, <2>10
       DEF HookThread, HookFails, PublishThreadId, InstallHook, RefuseHook, PublishHook,
           CheckStopping, ReceiveQuit, PumpFails, LoseHook, ForgetHook, RemoveHook, EndThread
  <2>12. QED
    BY <2>11 DEF Good
<1>2. PICK from, next : /\ HookStep(l, from, next)
                        /\ next.stopping = s.stopping
                        /\ next.hook /\ next.at # "dead" => s.hook \/ from = "hooked"
                        /\ from \notin {"none", "dead"}
  BY <1>1
<1>3. /\ lsn' = [lsn EXCEPT ![l] = next] /\ UNCHANGED <<monitor, main>> /\ s.at = from
  BY <1>2 DEF HookStep
<1>4. lsn'[l] = next /\ \A k \in Listener \ {l} : lsn'[k] = lsn[k]
  BY <1>0, <1>3
<1>5. Alive(monitor)' => Alive(monitor)
  <2>1. CASE monitor = l
    <3>1. from # "hooked"
      BY <1>0, <1>3, <2>1 DEF Shape
    <3>2. QED
      BY <1>0, <1>2, <1>3, <1>4, <2>1, <3>1 DEF Alive, Running
  <2>2. CASE monitor # l
    BY <1>0, <1>3, <1>4, <2>2 DEF Alive, Running
  <2>3. QED
    BY <2>1, <2>2
<1>6. monitor # None => lsn'[monitor].stopping = lsn[monitor].stopping
  BY <1>0, <1>2, <1>4
<1>7. Proper'
  BY <1>0, <1>3, <1>5, <1>6 DEF Proper, Leaving
<1>8. Leaving' = Leaving
  BY <1>3 DEF Leaving
<1>9. CASE Alive(monitor)' = Alive(monitor)
  <2>1. Health' = Health
    BY <1>3, <1>6, <1>9 DEF Health, Alive
  <2>2. QED
    BY <1>7, <1>8, <2>1, SameHealth
<1>10. CASE Alive(monitor) /\ ~Alive(monitor)'
  <2>1. Health \in {"alive", "stopping"} /\ Health' = "dead"
    BY <1>3, <1>10 DEF Health, Alive
  <2>2. Contract!Die
    BY <1>8, <2>1 DEF Contract!Die
  <2>3. QED
    BY <1>7, <2>2 DEF Allowed, Contract!ContractNext
<1>11. QED
  BY <1>5, <1>9, <1>10 DEF Alive

\* While the monitor has no listener, nothing that becomes of the old ones counts.
LEMMA NoHealth ==
  ASSUME monitor = None, monitor' = None, Leaving => Leaving'
  PROVE  Allowed /\ ~Alive(monitor)'
<1>1. Health = "none" /\ Health' = "none" /\ ~Alive(monitor)'
  BY DEF Health, Alive
<1>2. QED
  BY <1>1, SameHealth

LEMMA ProperStep ==
  ASSUME Inv, StopInv, BirthInv, Proper, [Next]_vars
  PROVE  Proper' /\ Allowed
<1>t. /\ monitor \in Listener \cup {None} /\ None \notin Listener
      /\ lsn \in [Listener -> ListenerState]
  BY Listeners DEF Inv, TypeOK
<1> USE DEF Restarting, Cleanup
<1>1. CASE UNCHANGED <<lsn, monitor, main>>
  <2>1. Health' = Health /\ Leaving' = Leaving /\ Alive(monitor)' = Alive(monitor)
    BY <1>1 DEF Health, Alive, Running, Leaving
  <2>2. QED
    BY <1>1, <2>1, SameHealth DEF Proper
<1>2. CASE Create
  <2>1. monitor = None /\ monitor' = None /\ main'.pc \in {"await", "maintain"} /\ ~Leaving
    BY <1>2 DEF Create, Inv, TypeOK, Held, Goto, Leaving
  <2>2. QED
    BY <2>1, NoHealth DEF Proper
<1>3. CASE Await \/ AwaitExpires
  <2>1. /\ monitor = None /\ monitor' = None /\ ~Leaving
        /\ main'.pc \in {"verdict", "exited", "maintain"}
    BY <1>3, GotoTyped DEF Await, AwaitExpires, StartRaises, Inv, Held, MainPlace, Leaving
  <2>2. QED
    BY <2>1, NoHealth DEF Proper
<1>4. CASE Verdict
  <2>0. main.pc = "verdict" /\ monitor = None /\ UNCHANGED lsn /\ ~Leaving
    BY <1>4 DEF Verdict, Inv, Held, Leaving
  <2>1. CASE lsn[main.target].failed
    <3>1. monitor' = None /\ main'.pc \in {"exited", "maintain"}
      BY <1>4, <2>0, <2>1, GotoTyped DEF Verdict, StartRaises, Inv, MainPlace
    <3>2. QED
      BY <2>0, <3>1, NoHealth DEF Proper
  <2>2. CASE ~lsn[main.target].failed
    <3>1. main'.pc = "maintain" /\ monitor' = main.target /\ main.target \in Listener
      BY <1>4, <2>2, TargetTyped DEF Verdict, Kept, Inv, TypeOK
    <3>2. ~lsn[main.target].stopping
      BY <2>0 DEF BirthInv, BornInOrder, Paid
    <3>3. Health = "none" /\ Health' \in {"alive", "dead"} /\ Leaving' = FALSE /\ Leaving = FALSE
      BY <1>t, <2>0, <3>1, <3>2 DEF Health, Alive, Leaving
    <3>4. Contract!Renew
      BY <3>3 DEF Contract!Renew
    <3>5. Proper'
      BY <2>0, <3>1, <3>2 DEF Proper
    <3>6. QED
      BY <3>4, <3>5 DEF Allowed, Contract!ContractNext
  <2>3. QED
    BY <2>1, <2>2
<1>5. CASE Probe
  <2>1. /\ main'.pc = "detach" /\ main.pc = "maintain" /\ UNCHANGED <<lsn, monitor>>
        /\ ~Alive(monitor)
    BY <1>5, GotoTyped DEF Probe, Inv, MainPlace
  <2>2. Health' = Health /\ ~Leaving /\ ~Leaving' /\ ~Alive(monitor)'
    BY <2>1 DEF Health, Alive, Running, Leaving
  <2>3. QED
    BY <2>1, <2>2, SameHealth DEF Proper
<1>6. CASE Detach
  <2>1. /\ main'.pc \in {"create", "restartFlag"} /\ main.pc = "detach" /\ monitor' = None
        /\ ~Alive(monitor)
    BY <1>6 DEF Detach, Detached, Inv, TypeOK, Proper
  <2>2. /\ Health \in {"none", "dead"} /\ Health' = "none"
        /\ Leaving' = FALSE /\ Leaving = FALSE
    BY <2>1 DEF Health, Alive, Leaving
  <2>3. Contract!Renew
    BY <2>2 DEF Contract!Renew
  <2>4. QED
    BY <2>1, <2>3 DEF Proper, Allowed, Contract!ContractNext
<1>7. CASE SetStopping \/ PostQuit
  <2>0. /\ main'.target = main.target /\ monitor' = monitor
        /\ \/ main.pc \in Restarting /\ main'.pc \in Restarting
           \/ main.pc \in Cleanup /\ main'.pc \in Cleanup
    BY <1>7, GotoTyped DEF SetStopping, PostQuit, Inv, MainPlace
  <2>1. CASE main.pc \in Restarting
    <3>1. monitor = None /\ monitor' = None /\ ~Leaving
      BY <2>0, <2>1 DEF Inv, Held, Leaving
    <3>2. QED
      BY <2>0, <2>1, <3>1, NoHealth DEF Proper
  <2>2. CASE main.pc \in Cleanup
    <3>1. /\ main.target = monitor /\ monitor \in Listener
          /\ lsn[monitor] \in ListenerState
      BY <1>t, <2>2, TargetTyped DEF Proper, Inv
    <3>2. Leaving = TRUE /\ Leaving' = TRUE /\ Proper'
      BY <2>0, <2>2, <3>1 DEF Leaving, Proper
    <3> DEFINE s == lsn[monitor]
    <3>3. CASE SetStopping
      <4>1. lsn'[monitor] = [s EXCEPT !.stopping = TRUE]
        BY <1>t, <3>1, <3>3 DEF SetStopping
      <4>2. lsn'[monitor].at = s.at /\ lsn'[monitor].hook = s.hook /\ lsn'[monitor].stopping
        BY <3>1, <4>1 DEF ListenerState
      <4>3. IF Alive(monitor) THEN Health \in {"alive", "stopping"} /\ Health' = "stopping"
                              ELSE Health = "dead" /\ Health' = "dead"
        BY <1>t, <2>0, <3>1, <4>2 DEF Health, Alive, Running
      <4>4. CASE Health = "alive"
        <5>1. Contract!Stop
          BY <3>2, <4>3, <4>4 DEF Contract!Stop
        <5>2. QED
          BY <3>2, <5>1 DEF Allowed, Contract!ContractNext
      <4>5. CASE Health # "alive"
        BY <3>2, <4>3, <4>5, SameHealth
      <4>6. QED
        BY <4>4, <4>5
    <3>4. CASE PostQuit
      <4> DEFINE q == s.quit \/ Posted(monitor)
      <4>1. lsn'[monitor] = [s EXCEPT !.quit = q]
        BY <1>t, <3>1, <3>4 DEF PostQuit
      <4> HIDE DEF q
      <4>2. /\ lsn'[monitor].at = s.at /\ lsn'[monitor].hook = s.hook
            /\ lsn'[monitor].stopping = s.stopping
        BY <3>1, <4>1 DEF ListenerState
      <4>3. Health' = Health
        BY <2>0, <4>2 DEF Health, Alive, Running
      <4>4. QED
        BY <3>2, <4>3, SameHealth
    <3>5. QED
      BY <1>7, <3>3, <3>4
  <2>3. QED
    BY <2>0, <2>1, <2>2
<1>8. CASE Join \/ JoinExpires
  <2>1. /\ main'.pc = (IF main.pc = "restartJoin" THEN "create" ELSE "exited")
        /\ UNCHANGED <<lsn, monitor>> /\ main.pc \in {"restartJoin", "join"}
    BY <1>8, AfterJoinTyped DEF Join, JoinExpires, Inv
  <2>2. Health' = Health /\ (Leaving => Leaving') /\ (~Leaving => ~Leaving')
    BY <2>1 DEF Health, Alive, Running, Leaving
  <2>3. QED
    BY <2>1, <2>2, SameHealth DEF Proper
<1>9. CASE Shutdown \/ Interrupt
  <2>1. /\ UNCHANGED <<lsn, monitor>>
        /\ main'.pc = "exited" \/ (main'.pc = "stopFlag" /\ main'.target = monitor)
    BY <1>9, FinallyTyped, GotoTyped DEF Shutdown, Interrupt, Inv, MainPlace
  <2>2. Health' = Health /\ Leaving'
    BY <2>1 DEF Health, Alive, Running, Leaving
  <2>3. QED
    BY <2>1, <2>2, SameHealth DEF Proper
<1>10. CASE \E l \in Listener : HookThread(l) \/ HookFails(l)
  BY <1>10, HookStepProper
<1>11. CASE Press
  BY <1>1, <1>11 DEF Press
<1>12. QED
  BY <1>1, <1>2, <1>3, <1>4, <1>5, <1>6, <1>7, <1>8, <1>9, <1>10, <1>11
     DEF Next, MainStep, vars

\* The monitor with its listeners implements the contract: AppLifecycle may take
\* it for its health alone.
THEOREM KeepsContractHolds == Spec => KeepsContract
<1>1. Inv /\ StopInv /\ BirthInv /\ Proper /\ [Next]_vars => Proper' /\ Allowed
  BY ProperStep
<1>2. QED
  BY <1>1, ProperInit, InvInit, InvStep, StopInit, StopStays, BirthInit, BirthStays, PTL
     DEF Spec, Allowed, KeepsContract, Contract!ContractSpec
=============================================================================
