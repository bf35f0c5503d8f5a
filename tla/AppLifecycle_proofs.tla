------------------------ MODULE AppLifecycle_proofs ------------------------
(***************************************************************************)
(* Proofs about AppLifecycle for any number of monitors: what was started  *)
(* is stopped, and the report of a pass adds up.                           *)
(***************************************************************************)
EXTENDS AppLifecycle, FiniteSetTheorems, TLAPS

\* The counters of a pass never run ahead of the monitor it is at.
CountersBounded ==
  /\ main.pc = "poll" =>
       report.checked < main.at /\ report.restarted < main.at /\ report.failures < main.at
  /\ main.pc = "restart" =>
       report.checked <= main.at /\ report.restarted < main.at /\ report.failures < main.at

TypeInv == TypeOK /\ CountersBounded

LEMMA TypeInit == Init => TypeInv
<1> SUFFICES ASSUME Init PROVE TypeInv
  OBVIOUS
<1>1. mon \in [Monitors -> Health] /\ orphans \subseteq Monitors
  BY DEF Init, Health
<1>2. main \in [pc : Starting \cup Looping \cup Leaving, at : 0 .. N + 1] /\ main.pc = "start"
  BY LifecycleAssumption, SMT DEF Init, Starting
<1>3. report \in [checked : 0 .. N, restarted : 0 .. N, failures : 0 .. N]
  BY LifecycleAssumption, SMT DEF Init
<1>4. started \in 0 .. N /\ interrupts \in 0 .. MaxInterrupts
  BY LifecycleAssumption, SMT DEF Init
<1>4a. tray \in TrayKind /\ stopEvent \in BOOLEAN /\ cut \in BOOLEAN
  BY DEF Init, TrayKind
<1>5. main.pc \notin {"started", "poll", "restart"}
  BY <1>2
<1>6. QED
  BY <1>1, <1>2, <1>3, <1>4, <1>4a, <1>5 DEF TypeInv, TypeOK, CountersBounded

LEMMA TypeStep == TypeInv /\ [Next]_vars => TypeInv'
<1> SUFFICES ASSUME TypeInv, [Next]_vars PROVE TypeInv'
  OBVIOUS
<1> USE LifecycleAssumption
<1> USE DEF TypeInv, TypeOK, CountersBounded, Monitors, Health, TrayKind, Starting, Looping, Leaving,
            Goto, Quiet, MayOrphan
<1>1. CASE StartMonitor
  BY <1>1, SMT DEF StartMonitor
<1>2. CASE StartFails
  BY <1>2, SMT DEF StartFails
<1>3. CASE Append
  BY <1>3, SMT DEF Append, AppendMonitor
<1>4. CASE StartTray
  BY <1>4, SMT DEF StartTray
<1>5. CASE Turn
  BY <1>5, SMT DEF Turn
<1>6. CASE Probe
  <2>1. /\ main.pc = "poll" /\ main.at \in Monitors
        /\ UNCHANGED <<mon, orphans, started, tray, stopEvent, interrupts, cut>>
        /\ report' = [report EXCEPT !.checked = @ + 1] \/ report' = report
    BY <1>6 DEF Probe
  <2>2. /\ report' \in [checked : 0 .. N, restarted : 0 .. N, failures : 0 .. N]
        /\ report'.checked <= main.at /\ report'.restarted < main.at
        /\ report'.failures < main.at
    BY <2>1, SMT
  <2>3. /\ main' \in [pc : Starting \cup Looping \cup Leaving, at : 0 .. N + 1]
        /\ main'.pc \in {"poll", "restart", "evaluate"}
        /\ main'.pc = "poll" => main'.at = main.at + 1 /\ main'.at \in Monitors
        /\ main'.pc = "restart" => main'.at = main.at
    BY <1>6, <2>1, SMT DEF Probe, Next_
  <2>4. QED
    BY <2>1, <2>2, <2>3, SMTT(20)
<1>7. CASE Restart
  <2>1. PICK m \in Recoverable : RestartSucceeds(m) \/ RestartFails(m)
    BY <1>7 DEF Restart
  <2>2. /\ main.pc = "restart" /\ main.at = m /\ m \in Monitors
        /\ UNCHANGED <<started, tray, stopEvent, interrupts, cut>>
        /\ Next_(m)
    BY <2>1, SMT DEF RestartSucceeds, RestartFails, AfterFailure
  <2>3. mon' \in [Monitors -> Health] /\ orphans' \subseteq Monitors
    <3>1. mon' = [mon EXCEPT ![m] = "alive"] \/ mon' = [mon EXCEPT ![m] = "none"]
      BY <2>1 DEF RestartSucceeds, RestartFails
    <3>2. orphans' = orphans \/ orphans' = orphans \cup {m}
      BY <2>1 DEF RestartSucceeds, RestartFails
    <3>3. mon' \in [Monitors -> Health]
      <4>1. mon \in [Monitors -> Health] /\ {"none", "alive"} \subseteq Health
        OBVIOUS
      <4> HIDE DEF TypeOK, Health
      <4>2. QED
        BY <3>1, <4>1
    <3>4. orphans' \subseteq Monitors
      BY <2>2, <3>2
    <3>5. QED
      BY <3>3, <3>4
  <2>4. /\ main' \in [pc : Starting \cup Looping \cup Leaving, at : 0 .. N + 1]
        /\ main'.pc \in {"poll", "evaluate"}
        /\ main'.pc = "poll" => main'.at = m + 1 /\ main'.at \in Monitors
    BY <2>2, SMT DEF Next_
  <2>5. \/ report' = [report EXCEPT !.restarted = @ + 1]
        \/ report' = [report EXCEPT !.failures = @ + 1]
    BY <2>1 DEF RestartSucceeds, RestartFails, CountFailure
  <2>6. /\ report' \in [checked : 0 .. N, restarted : 0 .. N, failures : 0 .. N]
        /\ report'.checked <= m /\ report'.restarted <= m /\ report'.failures <= m
    <3>1. /\ report.checked \in 0 .. N /\ report.checked <= m
          /\ report.restarted \in Nat /\ report.restarted < m
          /\ report.failures \in Nat /\ report.failures < m /\ m \in 1 .. N
      BY <2>2, SMT
    <3> DEFINE r == report.restarted + 1
               f == report.failures + 1
    <3>r. /\ r \in 0 .. N /\ r <= m /\ f \in 0 .. N /\ f <= m
          /\ report.restarted <= m /\ report.failures <= m
      BY <3>1
    <3>t. report \in [checked : 0 .. N, restarted : 0 .. N, failures : 0 .. N]
      BY <2>2
    <3> HIDE DEF r, f
    <3>2. CASE report' = [report EXCEPT !.restarted = r]
      BY ONLY <3>1, <3>r, <3>t, <3>2, SMT
    <3>3. CASE report' = [report EXCEPT !.failures = f]
      BY ONLY <3>1, <3>r, <3>t, <3>3, SMT
    <3>4. QED
      BY <2>5, <3>2, <3>3 DEF r, f
  <2>7. TypeOK'
    BY <2>2, <2>3, <2>4, <2>6
  <2>8. CountersBounded'
    BY <2>2, <2>4, <2>6, SMT
  <2>9. QED
    BY <2>7, <2>8
<1>8. CASE Evaluate \/ Wake
  <2>1. UNCHANGED <<mon, orphans, started, report, tray, stopEvent, interrupts, cut>>
    BY <1>8 DEF Evaluate, Wake
  <2>2. main' = [pc |-> "wait", at |-> 0] \/ main' = [pc |-> "turn", at |-> 0]
    BY <1>8 DEF Evaluate, Wake
  <2>3. /\ main' \in [pc : Starting \cup Looping \cup Leaving, at : 0 .. N + 1]
        /\ main'.pc \in {"wait", "turn"}
    BY <2>2, SMT
  <2>4. QED
    BY <2>1, <2>3
<1>9. CASE StopTray
  <2>1. main' = [pc |-> "stop", at |-> started]
    BY <1>9 DEF StopTray
  <2>2. main' \in [pc : Starting \cup Looping \cup Leaving, at : 0 .. N + 1] /\ main'.pc = "stop"
    BY <2>1, SMT
  <2>3. tray' \in TrayKind /\ UNCHANGED <<mon, orphans, started, report, stopEvent, interrupts, cut>>
    BY <1>9 DEF StopTray
  <2>4. QED
    BY <2>2, <2>3
<1>10. CASE StopMonitor
  <2>1. /\ main.pc = "stop" /\ UNCHANGED <<orphans, started, report, tray, stopEvent, interrupts, cut>>
    BY <1>10 DEF StopMonitor
  <2>2. mon' \in [Monitors -> Health]
    BY <1>10, <2>1, SMTT(20) DEF StopMonitor
  <2>3. /\ main' \in [pc : Starting \cup Looping \cup Leaving, at : 0 .. N + 1]
        /\ main'.pc \in {"stop", "join", "exited"}
    BY <1>10, <2>1, SMT DEF StopMonitor
  <2>4. QED
    BY <2>1, <2>2, <2>3
<1>11. CASE JoinMonitor
  BY <1>11, SMT DEF JoinMonitor
<1>12. ASSUME NEW m \in Monitors, Dies(m) \/ OrphanEnds(m) PROVE TypeInv'
  <2>1. CASE Dies(m)
    BY <2>1, SMT DEF Dies
  <2>2. CASE OrphanEnds(m)
    BY <2>2 DEF OrphanEnds
  <2>3. QED
    BY <1>12, <2>1, <2>2
<1>12a. CASE TrayEnds
  BY <1>12a DEF TrayEnds
<1>13. CASE Exit
  BY <1>13, SMT DEF Exit
<1>14. CASE Interrupt
  <2>1. mon' \in [Monitors -> Health] /\ orphans' \subseteq Monitors
    <3>1. \/ mon' = mon
          \/ main.at \in Monitors /\ mon' = [mon EXCEPT ![main.at] = "none"]
      BY <1>14 DEF Interrupt
    <3>2. orphans' = orphans \/ (main.at \in Monitors /\ orphans' = orphans \cup {main.at})
      BY <1>14 DEF Interrupt
    <3>3. mon' \in [Monitors -> Health]
      <4>1. mon \in [Monitors -> Health] /\ "none" \in Health
        OBVIOUS
      <4> HIDE DEF TypeOK, Health
      <4>2. QED
        BY <3>1, <4>1
    <3>4. orphans' \subseteq Monitors
      BY <3>2
    <3>5. QED
      BY <3>3, <3>4
  <2>2. /\ main' \in [pc : Starting \cup Looping \cup Leaving, at : 0 .. N + 1]
        /\ main'.pc \in {"exited", "stopTray"}
    BY <1>14, SMT DEF Interrupt
  <2>3. interrupts' \in 0 .. MaxInterrupts /\ cut' \in BOOLEAN
    <3>1. interrupts' = interrupts + 1 /\ interrupts < MaxInterrupts
      BY <1>14 DEF Interrupt
    <3>2. cut' \in BOOLEAN
      BY <1>14 DEF Interrupt
    <3>3. QED
      BY <3>1, <3>2, SMT
  <2>4. UNCHANGED <<started, report, stopEvent>> /\ tray' \in TrayKind
    BY <1>14 DEF Interrupt
  <2>5. QED
    BY <2>1, <2>2, <2>3, <2>4
<1>15. CASE UNCHANGED vars
  BY <1>15, SMT DEF vars
<1>16. QED
  BY <1>1, <1>2, <1>3, <1>4, <1>5, <1>6, <1>7, <1>8, <1>9, <1>10, <1>11, <1>12,
     <1>12a, <1>13, <1>14, <1>15 DEF Next, MainStep

\* Every variable keeps its type; in particular no pass counts past its monitors.
THEOREM TypeCorrect == Spec => []TypeOK
<1>1. TypeInv => TypeOK
  BY DEF TypeInv
<1>2. QED
  BY TypeInit, TypeStep, <1>1, PTL DEF Spec
-----------------------------------------------------------------------------
\* Until an interrupt falls between a start and the list, or into the cleanup,
\* the monitors beyond the list do not listen, the list is complete once the loop
\* begins, and the stops leave no listener behind the monitor they have come to.
NotListening(m) == mon[m] # "alive"

Order ==
  ~cut =>
    /\ tray = "running" => main.pc \in Looping \cup {"stopTray"}
    /\ main.pc = "start" =>
         started + 1 = main.at /\ \A m \in Monitors : m >= main.at => NotListening(m)
    /\ main.pc = "started" =>
         started + 1 = main.at /\ \A m \in Monitors : m > main.at => NotListening(m)
    /\ main.pc \in Looping \cup {"tray"} => started = N
    /\ main.pc = "stopTray" => \A m \in Monitors : m > started => NotListening(m)
    /\ main.pc = "stop" => \A m \in Monitors : m > main.at => NotListening(m)
    /\ main.pc \in {"join", "exited"} => \A m \in Monitors : NotListening(m)

LEMMA OrderInit == Init => Order
  BY LifecycleAssumption, SMT
  DEF Init, Order, NotListening, Monitors, Looping

LEMMA OrderStep == TypeInv /\ Order /\ [Next]_vars => Order'
<1> SUFFICES ASSUME TypeInv, Order, [Next]_vars PROVE Order'
  OBVIOUS
<1> USE LifecycleAssumption
<1> USE DEF TypeInv, TypeOK, Monitors, Health, Starting, Looping, Leaving, Goto, Quiet,
            Order, NotListening
<1>1. CASE StartMonitor
  BY <1>1, SMT DEF StartMonitor
<1>2. CASE StartFails
  BY <1>2, SMT DEF StartFails
<1>3. CASE Append
  BY <1>3, SMT DEF Append, AppendMonitor
<1>4. CASE StartTray
  BY <1>4, SMT DEF StartTray
<1>5. CASE Turn
  BY <1>5, SMT DEF Turn
<1>6. CASE Probe
  BY <1>6, SMT DEF Probe, Next_
<1>7. CASE Restart
  <2>1. PICK m \in Recoverable : RestartSucceeds(m) \/ RestartFails(m)
    BY <1>7 DEF Restart
  <2>2. CASE RestartSucceeds(m)
    BY <2>2, SMT DEF RestartSucceeds, Next_
  <2>3. CASE RestartFails(m)
    BY <2>3, SMT DEF RestartFails, AfterFailure, Next_
  <2>4. QED
    BY <2>1, <2>2, <2>3
<1>8. CASE Evaluate \/ Wake
  BY <1>8, SMT DEF Evaluate, Wake
<1>9. CASE StopTray
  BY <1>9, SMT DEF StopTray
<1>10. CASE StopMonitor
  BY <1>10, SMT DEF StopMonitor
<1>11. CASE JoinMonitor
  BY <1>11, SMT DEF JoinMonitor
<1>12. ASSUME NEW m \in Monitors, Dies(m) \/ OrphanEnds(m) PROVE Order'
  <2>1. CASE Dies(m)
    BY <2>1, SMT DEF Dies
  <2>2. CASE OrphanEnds(m)
    BY <2>2, SMT DEF OrphanEnds
  <2>3. QED
    BY <1>12, <2>1, <2>2
<1>12a. CASE TrayEnds
  BY <1>12a, SMT DEF TrayEnds
<1>13. CASE Exit
  BY <1>13, SMT DEF Exit
<1>14. CASE Interrupt
  <2> SUFFICES ASSUME ~cut' PROVE Order'
    BY DEF Order
  <2>1. ~cut /\ main.pc \in Looping \cup {"start", "tray"} /\ main'.pc = "stopTray"
    <3>1. cut' = (cut \/ main.pc \in Leaving \cup {"started"})
      BY <1>14 DEF Interrupt
    <3>2. ~cut /\ main.pc \in Looping \cup {"start", "tray"}
      BY <3>1
    <3>3. main.pc \notin Leaving
      BY <3>1
    <3>4. QED
      BY <1>14, <3>2, <3>3 DEF Interrupt
  <2>2. UNCHANGED started /\ \A m \in Monitors : NotListening(m) => NotListening(m)'
    <3>1. \/ mon' = mon
          \/ main.at \in Monitors /\ mon' = [mon EXCEPT ![main.at] = "none"]
      BY <1>14 DEF Interrupt
    <3>2. QED
      BY <1>14, <3>1, SMT DEF Interrupt
  <2>3. \A m \in Monitors : m > started => NotListening(m)
    BY <2>1, SMT
  <2>4. QED
    BY <2>1, <2>2, <2>3, SMT
<1>15. CASE UNCHANGED vars
  BY <1>15, SMT DEF vars
<1>16. QED
  BY <1>1, <1>2, <1>3, <1>4, <1>5, <1>6, <1>7, <1>8, <1>9, <1>10, <1>11, <1>12,
     <1>12a, <1>13, <1>14, <1>15 DEF Next, MainStep

\* However the runtime ends, when the waiting for the threads begins the tray and
\* every listener that a monitor knows were told to stop, through any number of
\* starts and restarts that fail or are given up, and interrupts elsewhere than
\* between a start and the list or in the cleanup.
THEOREM StartedIsStoppedHolds == Spec => []StartedIsStopped
<1>1. Order => StartedIsStopped
  BY DEF Order, StartedIsStopped, NotListening, Looping
<1>2. QED
  BY TypeInit, TypeStep, OrderInit, OrderStep, <1>1, PTL DEF Spec
-----------------------------------------------------------------------------
\* The recoverable monitors before at, and those of them without a listener
Passed(at)     == {m \in Recoverable : m < at}
Without(h, at) == {m \in Recoverable : m < at /\ h[m] = "none"}

\* How far a pass has come: the monitor it is at, or past all of them.
Here == IF main.pc = "evaluate" THEN N + 1 ELSE main.at

InPass == main.pc \in {"poll", "restart", "evaluate"}

\* In the middle of a pass, the report counts the monitors passed so far.
Tallied ==
  InPass =>
    /\ report.failures = Cardinality(Without(mon, Here))
    /\ report.checked = Cardinality(Passed(Here)) + (IF main.pc = "restart" THEN 1 ELSE 0)
    /\ main.pc = "restart" => main.at \in Recoverable

LEMMA RecoverableFinite ==
  ASSUME NEW S, S \subseteq Recoverable
  PROVE  IsFiniteSet(S)
  BY LifecycleAssumption, FS_Interval, FS_Subset, 1 \in Int, N \in Int

LEMMA OneFurther ==
  ASSUME NEW at \in Monitors
  PROVE  /\ \A m \in Recoverable : m < at + 1 <=> m < at \/ m = at
         /\ ~(at < at)
<1>1. Recoverable \subseteq Int /\ at \in Int
  BY LifecycleAssumption, SMT DEF Monitors
<1>2. \A m \in Int : m < at + 1 <=> m < at \/ m = at
  BY <1>1, SMT
<1>3. QED
  BY <1>1, <1>2, SMT

\* One monitor further, a pass has checked one more if that one is recoverable.
LEMMA PassedNext ==
  ASSUME NEW at \in Monitors
  PROVE  /\ at \in Recoverable =>
              Cardinality(Passed(at + 1)) = Cardinality(Passed(at)) + 1
         /\ at \notin Recoverable => Passed(at + 1) = Passed(at)
<1>0. \A m : /\ m \in Passed(at + 1) <=> m \in Passed(at) \/ (m = at /\ at \in Recoverable)
             /\ at \notin Passed(at)
  BY OneFurther DEF Passed
<1>1. at \in Recoverable => Passed(at + 1) = Passed(at) \cup {at} /\ at \notin Passed(at)
  BY <1>0
<1>2. at \notin Recoverable => Passed(at + 1) = Passed(at)
  BY <1>0
<1>3. IsFiniteSet(Passed(at))
  BY RecoverableFinite DEF Passed
<1>4. QED
  BY <1>1, <1>2, <1>3, FS_AddElement

LEMMA WithoutNext ==
  ASSUME NEW at \in Monitors, NEW h
  PROVE  /\ at \in Recoverable /\ h[at] = "none" =>
              Cardinality(Without(h, at + 1)) = Cardinality(Without(h, at)) + 1
         /\ at \notin Recoverable \/ h[at] # "none" => Without(h, at + 1) = Without(h, at)
<1>0. \A m : /\ m \in Without(h, at + 1) <=>
                  m \in Without(h, at) \/ (m = at /\ at \in Recoverable /\ h[at] = "none")
             /\ at \notin Without(h, at)
  BY OneFurther DEF Without
<1>1. at \in Recoverable /\ h[at] = "none" =>
        Without(h, at + 1) = Without(h, at) \cup {at} /\ at \notin Without(h, at)
  BY <1>0
<1>2. at \notin Recoverable \/ h[at] # "none" => Without(h, at + 1) = Without(h, at)
  BY <1>0
<1>3. IsFiniteSet(Without(h, at))
  BY RecoverableFinite DEF Without
<1>4. QED
  BY <1>1, <1>2, <1>3, FS_AddElement

LEMMA NextHere ==
  ASSUME TypeInv, NEW at \in Monitors, Next_(at)
  PROVE  Here' = at + 1 /\ InPass' /\ main'.pc # "restart"
  BY LifecycleAssumption, SMT DEF Next_, Goto, Here, InPass, Monitors

LEMMA TalliedInit == Init => Tallied
  BY DEF Init, Tallied, InPass

LEMMA TalliedStep == TypeInv /\ Tallied /\ [Next]_vars => Tallied'
<1> SUFFICES ASSUME TypeInv, Tallied, [Next]_vars PROVE Tallied'
  OBVIOUS
<1>t. mon \in [Monitors -> Health] /\ main \in [pc : Starting \cup Looping \cup Leaving, at : 0 .. N + 1]
      /\ report \in [checked : 0 .. N, restarted : 0 .. N, failures : 0 .. N]
      /\ (main.pc \in {"poll", "restart"} => main.at \in Monitors)
  BY DEF TypeInv, TypeOK
<1>1. CASE StartMonitor \/ StartFails \/ Append \/ StartTray \/ Evaluate \/ Wake
           \/ StopTray \/ StopMonitor \/ JoinMonitor
  <2>1. ~InPass'
    BY <1>1, SMT DEF StartMonitor, StartFails, Append, AppendMonitor, StartTray, Evaluate,
       Wake, StopTray, StopMonitor, JoinMonitor, Goto, InPass
  <2>2. QED
    BY <2>1 DEF Tallied
<1>2. CASE Turn
  <2>1. CASE stopEvent
    BY <1>2, <2>1, SMT DEF Turn, Goto, Tallied, InPass
  <2>2. CASE ~stopEvent
    <3>1. /\ main' = [pc |-> "poll", at |-> 1] /\ mon' = mon
          /\ report'.checked = 0 /\ report'.failures = 0
      BY <1>2, <2>2 DEF Turn, Goto
    <3>2. Here' = 1 /\ main'.pc = "poll"
      BY <3>1 DEF Here
    <3>3. Passed(1) = {} /\ Without(mon', 1) = {}
      <4>1. \A m \in Recoverable : ~(m < 1)
        BY LifecycleAssumption, SMT
      <4>2. QED
        BY <4>1 DEF Passed, Without
    <3>4. QED
      BY <3>1, <3>2, <3>3, FS_EmptySet, SMT DEF Tallied
  <2>3. QED
    BY <2>1, <2>2
<1>3. CASE Probe
  <2> DEFINE at == main.at
  <2>1. /\ main.pc = "poll" /\ at \in Monitors /\ mon' = mon /\ Here = at
        /\ report.failures = Cardinality(Without(mon, at))
        /\ report.checked = Cardinality(Passed(at))
    <3>1. main.pc = "poll" /\ mon' = mon
      BY <1>3 DEF Probe
    <3>2. InPass /\ Here = at /\ main.pc # "restart"
      BY <3>1 DEF InPass, Here
    <3>3. IsFiniteSet(Passed(at)) /\ Cardinality(Passed(at)) \in Nat
      BY RecoverableFinite, FS_CardinalityType DEF Passed
    <3>4. report.checked = Cardinality(Passed(at)) + 0
      BY <3>2 DEF Tallied
    <3>5. QED
      BY <1>t, <3>1, <3>2, <3>3, <3>4, SMT DEF Tallied
  <2>2. CASE at \notin Recoverable
    <3>1. report' = report /\ Next_(at)
      BY <1>3, <2>2 DEF Probe
    <3>2. Here' = at + 1 /\ main'.pc # "restart"
      BY <3>1, <2>1, NextHere
    <3>3. Passed(at + 1) = Passed(at) /\ Without(mon, at + 1) = Without(mon, at)
      BY <2>1, <2>2, PassedNext, WithoutNext
    <3>4. report.checked + 0 = report.checked
      BY <1>t, SMT
    <3>5. QED
      BY <2>1, <3>1, <3>2, <3>3, <3>4 DEF Tallied
  <2>3. CASE at \in Recoverable /\ mon[at] = "alive"
    <3>1. report' = [report EXCEPT !.checked = @ + 1] /\ Next_(at)
      BY <1>3, <2>3 DEF Probe
    <3>2. Here' = at + 1 /\ main'.pc # "restart"
      BY <3>1, <2>1, NextHere
    <3>3. report'.failures = report.failures /\ report'.checked = report.checked + 1
      BY <1>t, <3>1, SMT
    <3>4. Without(mon, at + 1) = Without(mon, at)
      BY <2>1, <2>3, WithoutNext
    <3>5. Cardinality(Passed(at + 1)) = report'.checked
      BY <2>1, <2>3, <3>3, PassedNext
    <3>6. report'.checked + 0 = report'.checked
      BY <1>t, <3>3, SMT
    <3>7. QED
      BY <2>1, <3>2, <3>3, <3>4, <3>5, <3>6 DEF Tallied
  <2>4. CASE at \in Recoverable /\ mon[at] # "alive"
    <3>1. report' = [report EXCEPT !.checked = @ + 1] /\ main' = [pc |-> "restart", at |-> at]
      BY <1>3, <2>4 DEF Probe, Goto
    <3>2. Here' = at /\ main'.pc = "restart" /\ main'.at \in Recoverable
      BY <3>1, <2>4 DEF Here
    <3>3. report'.failures = report.failures /\ report'.checked = report.checked + 1
      BY <1>t, <3>1, SMT
    <3>4. QED
      BY <2>1, <3>2, <3>3 DEF Tallied
  <2>5. QED
    BY <2>2, <2>3, <2>4
<1>4. CASE Restart
  <2> DEFINE at == main.at
  <2>1. PICK m \in Recoverable : RestartSucceeds(m) \/ RestartFails(m)
    BY <1>4 DEF Restart
  <2>2. /\ main.pc = "restart" /\ at = m /\ at \in Monitors /\ Next_(at) /\ Here = at
        /\ at \in Recoverable
    BY <2>1, <1>t DEF RestartSucceeds, RestartFails, AfterFailure, Here
  <2>3. /\ report.failures = Cardinality(Without(mon, at))
        /\ report.checked = Cardinality(Passed(at)) + 1
    BY <2>2 DEF Tallied, InPass
  <2>4. Here' = at + 1 /\ main'.pc # "restart"
    BY <2>2, NextHere
  <2>5. Cardinality(Passed(at + 1)) = report.checked
    BY <2>2, <2>3, PassedNext
  <2>6. Without(mon', at) = Without(mon, at)
    <3>1. mon' = [mon EXCEPT ![at] = "alive"] \/ mon' = [mon EXCEPT ![at] = "none"]
      BY <2>1, <2>2 DEF RestartSucceeds, RestartFails
    <3>2. \A k \in Recoverable : k < at => mon'[k] = mon[k]
      BY <1>t, <2>2, <3>1, LifecycleAssumption, SMT DEF Monitors
    <3>3. QED
      BY <3>2 DEF Without
  <2>7. CASE RestartSucceeds(m)
    <3>1. mon'[at] = "alive" /\ report' = [report EXCEPT !.restarted = @ + 1]
      BY <2>2, <2>7, <1>t DEF RestartSucceeds
    <3>2. report'.failures = report.failures /\ report'.checked = report.checked
      BY <1>t, <3>1, SMT
    <3>3. Without(mon', at + 1) = Without(mon, at)
      BY <2>2, <2>6, <3>1, WithoutNext
    <3>4. report'.checked + 0 = report'.checked
      BY <1>t, <3>2, SMT
    <3>5. QED
      BY <2>3, <2>4, <2>5, <3>2, <3>3, <3>4 DEF Tallied
  <2>8. CASE RestartFails(m)
    <3>1. mon'[at] = "none" /\ report' = [report EXCEPT !.failures = @ + 1]
      BY <2>2, <2>8, <1>t DEF RestartFails, CountFailure
    <3>2. report'.failures = report.failures + 1 /\ report'.checked = report.checked
      BY <1>t, <3>1, SMT
    <3>3. Cardinality(Without(mon', at + 1)) = Cardinality(Without(mon, at)) + 1
      BY <2>2, <2>6, <3>1, WithoutNext
    <3>4. report'.checked + 0 = report'.checked
      BY <1>t, <3>2, SMT
    <3>5. QED
      BY <2>3, <2>4, <2>5, <3>2, <3>3, <3>4 DEF Tallied
  <2>9. QED
    BY <2>1, <2>7, <2>8
<1>5. ASSUME NEW d \in Monitors, Dies(d) PROVE Tallied'
  <2>1. \A k \in Recoverable : mon'[k] = "none" <=> mon[k] = "none"
    BY <1>5, <1>t, LifecycleAssumption, SMT DEF Dies, Monitors
  <2>2. \A at : Without(mon', at) = Without(mon, at)
    BY <2>1 DEF Without
  <2>3. Here' = Here /\ InPass' = InPass /\ UNCHANGED <<main, report>>
    BY <1>5 DEF Dies, Here, InPass
  <2>4. QED
    BY <2>2, <2>3 DEF Tallied
<1>6. CASE Interrupt
  BY <1>6, SMT DEF Interrupt, Goto, Tallied, InPass
<1>7. CASE Exit \/ TrayEnds \/ (\E m \in Monitors : OrphanEnds(m)) \/ UNCHANGED vars
  BY <1>7 DEF Exit, TrayEnds, OrphanEnds, vars, Tallied, InPass, Here
<1>8. QED
  BY <1>1, <1>2, <1>3, <1>4, <1>5, <1>6, <1>7 DEF Next, MainStep

\* A completed pass has checked every recoverable monitor and reports exactly
\* those it leaves without a listener as failures.
THEOREM ReportAddsUpHolds == Spec => []ReportAddsUp
<1>1. TypeInv /\ Tallied => ReportAddsUp
  <2> SUFFICES ASSUME TypeInv, Tallied, main.pc = "evaluate"
               PROVE  /\ report.checked = Cardinality(Recoverable)
                      /\ report.failures = Cardinality({m \in Recoverable : mon[m] = "none"})
    BY DEF ReportAddsUp
  <2>1. Here = N + 1 /\ InPass
    BY DEF Here, InPass
  <2>2. \A m \in Recoverable : m < N + 1
    BY LifecycleAssumption, SMT
  <2>3. Passed(N + 1) = Recoverable /\ Without(mon, N + 1) = {m \in Recoverable : mon[m] = "none"}
    BY <2>2 DEF Passed, Without
  <2>4. Cardinality(Recoverable) \in Nat
    BY RecoverableFinite, FS_CardinalityType
  <2>5. QED
    BY <2>1, <2>3, <2>4, SMT DEF Tallied
<1>2. QED
  BY TypeInit, TypeStep, TalliedInit, TalliedStep, <1>1, PTL DEF Spec
-----------------------------------------------------------------------------
(* The contract of every monitor *)

\* Who is to be started has no listener, who is to be restarted was found dead,
\* and nobody was told to stop before the cleanup.
Entitled ==
  /\ main.pc \notin Leaving => \A m \in Monitors : mon[m] # "stopping"
  /\ main.pc = "start" => \A m \in Monitors : m >= main.at => mon[m] = "none"
  /\ main.pc = "started" => \A m \in Monitors : m > main.at => mon[m] = "none"
  /\ main.pc = "restart" => mon[main.at] # "alive"

\* One step of the runtime, for one monitor
Allowed(m) == [Contract(m)!ContractNext]_(Contract(m)!contractVars)

LEMMA EntitledInit == Init => Entitled
  BY DEF Init, Entitled, Monitors

LEMMA EntitledStep ==
  TypeInv /\ Entitled /\ [Next]_vars => Entitled' /\ \A m \in Monitors : Allowed(m)
<1> SUFFICES ASSUME TypeInv, Entitled, [Next]_vars
             PROVE  Entitled' /\ \A m \in Monitors : Allowed(m)
  OBVIOUS
<1>t. /\ mon \in [Monitors -> Health]
      /\ main \in [pc : Starting \cup Looping \cup Leaving, at : 0 .. N + 1]
      /\ (main.pc \in {"started", "poll", "restart"} => main.at \in Monitors)
  BY DEF TypeInv, TypeOK
<1> USE LifecycleAssumption
<1> USE DEF Monitors, Starting, Looping, Leaving, Goto, Entitled, Allowed,
            Contract!ContractNext, Contract!contractVars, Contract!Renew, Contract!Die,
            Contract!Leave, Contract!Stop
<1>1. CASE StartMonitor
  BY <1>t, <1>1, SMT DEF StartMonitor
<1>2. CASE StartFails
  BY <1>t, <1>2, SMT DEF StartFails
<1>3. CASE Append
  BY <1>t, <1>3, SMT DEF Append
<1>4. CASE StartTray \/ Evaluate \/ Wake
  BY <1>t, <1>4, SMT DEF StartTray, Evaluate, Wake
<1>5. CASE Turn
  BY <1>t, <1>5, SMT DEF Turn
<1>6. CASE Probe
  BY <1>t, <1>6, SMT DEF Probe, Next_
<1>7. CASE Restart
  <2>1. PICK r \in Recoverable : RestartSucceeds(r) \/ RestartFails(r)
    BY <1>7 DEF Restart
  <2>2. CASE RestartSucceeds(r)
    BY <1>t, <2>2, SMT DEF RestartSucceeds, Next_, Health
  <2>3. CASE RestartFails(r)
    BY <1>t, <2>3, SMT DEF RestartFails, AfterFailure, Next_, Health
  <2>4. QED
    BY <2>1, <2>2, <2>3
<1>8. CASE StopTray \/ JoinMonitor
  BY <1>t, <1>8, SMT DEF StopTray, JoinMonitor
<1>9. CASE StopMonitor
  BY <1>t, <1>9, SMT DEF StopMonitor
<1>10. ASSUME NEW d \in Monitors, Dies(d)
       PROVE  Entitled' /\ \A m \in Monitors : Allowed(m)
  BY <1>t, <1>10, SMT DEF Dies
<1>11. CASE Exit \/ TrayEnds \/ (\E m \in Monitors : OrphanEnds(m)) \/ UNCHANGED vars
  BY <1>t, <1>11, SMT DEF Exit, TrayEnds, OrphanEnds, vars
<1>12. CASE Interrupt
  <2>1. main'.pc \in {"exited", "stopTray"} /\ (main.pc \in Leaving => main'.pc = "exited")
    BY <1>t, <1>12, SMT DEF Interrupt
  <2>2. CASE main.pc \in {"start", "restart"} /\ main.at \in Monitors
    <3>1. mon' = mon \/ mon' = [mon EXCEPT ![main.at] = "none"]
      BY <1>12, <2>2 DEF Interrupt
    <3>2. mon[main.at] \notin {"alive", "stopping"}
      BY <2>2, SMT
    <3>3. \A m \in Monitors : mon'[m] = mon[m] \/ (m = main.at /\ mon'[m] = "none")
      BY <1>t, <2>2, <3>1
    <3>4. \A m \in Monitors : Allowed(m)
      BY <1>t, <2>1, <2>2, <3>2, <3>3, SMT DEF Health
    <3>5. QED
      BY <2>1, <3>4
  <2>3. CASE ~(main.pc \in {"start", "restart"} /\ main.at \in Monitors)
    <3>1. UNCHANGED mon
      BY <1>12, <2>3 DEF Interrupt
    <3>2. QED
      BY <1>t, <2>1, <3>1, SMT
  <2>4. QED
    BY <2>2, <2>3
<1>13. QED
  BY <1>1, <1>2, <1>3, <1>4, <1>5, <1>6, <1>7, <1>8, <1>9, <1>10, <1>11, <1>12
     DEF Next, MainStep

\* Any number of monitors, and every interleaving of their deaths with the pass,
\* the shutdown and two interrupts: each monitor is used as its contract allows.
THEOREM KeepsContractHolds == Spec => KeepsContract
<1>1. Init => \A m \in Monitors : Contract(m)!ContractInit
  BY DEF Init, Contract!ContractInit, Leaving
<1>2. TypeInv /\ Entitled /\ [Next]_vars
        => [\A m \in Monitors : [Contract(m)!ContractNext]_(Contract(m)!contractVars)]_vars
  BY EntitledStep DEF Allowed
<1>3. QED
  BY <1>1, <1>2, TypeInit, TypeStep, EntitledInit, EntitledStep, PTL DEF Spec, KeepsContract
-----------------------------------------------------------------------------
(* What the liveness of a pass and of the shutdown rests on: both count down *)

\* So many steps of the main thread are left of the cleanup, at most.
ToExit ==
  IF main.pc = "stopTray" THEN 2 * N + 4
  ELSE IF main.pc = "stop" THEN N + 3 + main.at
  ELSE IF main.pc = "join" THEN 1 + main.at ELSE 0

\* Each step of the main thread brings the end nearer, no other thread and no
\* interrupt sets it back, and nothing leads out of the cleanup again.
ShutdownCountsDown ==
  [][main.pc \in Leaving =>
       /\ main'.pc \in Leaving
       /\ ToExit' <= ToExit /\ (MainStep => ToExit' < ToExit)]_vars

\* So many steps are left of a pass until the evaluation, at most.
ToEvaluation ==
  IF main.pc = "poll" THEN 2 * (N - main.at) + 2
  ELSE IF main.pc = "restart" THEN 2 * (N - main.at) + 1 ELSE 0

\* A pass goes on to the evaluation, whatever the monitors do and whichever of
\* the restarts fail; only an interrupt ends it before.
PassCountsDown ==
  [][main.pc \in {"poll", "restart"} /\ main'.pc \notin Leaving =>
       /\ main'.pc \in {"poll", "restart", "evaluate"}
       /\ ToEvaluation' <= ToEvaluation
       /\ (MainStep => ToEvaluation' < ToEvaluation)]_vars

\* No pass and no cleanup is longer than the monitors account for.
CountsAreBounds ==
  /\ main.pc \in Leaving => ToExit \in 0 .. 2 * N + 4
  /\ main.pc \in {"poll", "restart"} => ToEvaluation \in 1 .. 2 * N

LEMMA LeavingStep ==
  ASSUME TypeInv, [Next]_vars, main.pc \in Leaving
  PROVE  /\ main'.pc \in Leaving
         /\ ToExit' <= ToExit /\ (MainStep => ToExit' < ToExit)
<1>t. /\ main \in [pc : Starting \cup Looping \cup Leaving, at : 0 .. N + 1]
      /\ started \in 0 .. N /\ N \in Nat /\ main.at \in Nat
  BY LifecycleAssumption, SMT DEF TypeInv, TypeOK
<1>1. CASE StopTray
  BY <1>t, <1>1, SMT DEF StopTray, Goto, ToExit, Leaving
<1>2. CASE StopMonitor
  BY <1>t, <1>2, SMT DEF StopMonitor, Goto, ToExit, Leaving
<1>3. CASE JoinMonitor
  BY <1>t, <1>3, SMT DEF JoinMonitor, Goto, ToExit, Leaving
<1>4. CASE ~MainStep
  <2>1. CASE Interrupt
    BY <1>t, <1>4, <2>1, SMT DEF Interrupt, Goto, ToExit, Leaving
  <2>2. CASE UNCHANGED main
    BY <1>t, <1>4, <2>2, SMT DEF ToExit, Leaving
  <2>3. Interrupt \/ UNCHANGED main
    BY <1>4 DEF Next, StartFails, Dies, OrphanEnds, TrayEnds, Exit, vars, Leaving
  <2>4. QED
    BY <2>1, <2>2, <2>3
<1>5. MainStep => StopTray \/ StopMonitor \/ JoinMonitor
  BY DEF MainStep, StartMonitor, Append, StartTray, Turn, Probe, Restart, RestartSucceeds,
     RestartFails, Evaluate, Wake, Leaving
<1>6. QED
  BY <1>1, <1>2, <1>3, <1>4, <1>5

\* The cleanup takes at most 2N + 4 steps of the main thread, however often it
\* is interrupted (app.py:98-104).
THEOREM ShutdownCountsDownHolds == Spec => ShutdownCountsDown
<1>1. TypeInv /\ [Next]_vars =>
        [main.pc \in Leaving =>
           /\ main'.pc \in Leaving
           /\ ToExit' <= ToExit /\ (MainStep => ToExit' < ToExit)]_vars
  BY LeavingStep
<1>2. QED
  BY <1>1, TypeInit, TypeStep, PTL DEF Spec, ShutdownCountsDown

LEMMA PassStep ==
  ASSUME TypeInv, [Next]_vars, main.pc \in {"poll", "restart"}, main'.pc \notin Leaving
  PROVE  /\ main'.pc \in {"poll", "restart", "evaluate"}
         /\ ToEvaluation' <= ToEvaluation
         /\ (MainStep => ToEvaluation' < ToEvaluation)
<1>t. main.at \in 1 .. N /\ N \in Nat
  BY LifecycleAssumption, SMT DEF TypeInv, TypeOK, Monitors
<1>1. CASE Probe
  <2>1. main.pc = "poll"
    BY <1>1 DEF Probe
  <2>2. \/ main' = [pc |-> "evaluate", at |-> 0] /\ main.at = N
        \/ main' = [pc |-> "poll", at |-> main.at + 1] /\ main.at # N
        \/ main' = [pc |-> "restart", at |-> main.at]
    BY <1>1 DEF Probe, Next_, Goto
  <2>3. QED
    BY <1>t, <2>1, <2>2, SMT DEF ToEvaluation
<1>2. CASE Restart
  <2>1. main.pc = "restart" /\ Next_(main.at)
    BY <1>2 DEF Restart, RestartSucceeds, RestartFails, AfterFailure
  <2>2. \/ main' = [pc |-> "evaluate", at |-> 0] /\ main.at = N
        \/ main' = [pc |-> "poll", at |-> main.at + 1] /\ main.at # N
    BY <2>1 DEF Next_, Goto
  <2>3. QED
    BY <1>t, <2>1, <2>2, SMT DEF ToEvaluation
<1>3. CASE ~MainStep
  <2>1. UNCHANGED main \/ Interrupt
    BY <1>3 DEF Next, StartFails, Dies, OrphanEnds, TrayEnds, Exit, vars
  <2>2. Interrupt => main'.pc \in Leaving
    BY DEF Interrupt, Goto, Leaving
  <2>3. UNCHANGED main
    BY <2>1, <2>2
  <2>4. QED
    BY <1>t, <1>3, <2>3, SMT DEF ToEvaluation
<1>4. MainStep => Probe \/ Restart
  BY DEF MainStep, StartMonitor, Append, StartTray, Turn, Evaluate, Wake, StopTray,
     StopMonitor, JoinMonitor
<1>5. QED
  BY <1>1, <1>2, <1>3, <1>4

\* Every turn gets to its evaluation within 2N steps of the main thread, also
\* while restarts fail (reliability.py:36-70).
THEOREM PassCountsDownHolds == Spec => PassCountsDown
<1>1. TypeInv /\ [Next]_vars =>
        [main.pc \in {"poll", "restart"} /\ main'.pc \notin Leaving =>
           /\ main'.pc \in {"poll", "restart", "evaluate"}
           /\ ToEvaluation' <= ToEvaluation
           /\ (MainStep => ToEvaluation' < ToEvaluation)]_vars
  BY PassStep
<1>2. QED
  BY <1>1, TypeInit, TypeStep, PTL DEF Spec, PassCountsDown

\* The counts never run out of their bounds, so that they cannot go down for ever.
THEOREM CountsAreBoundsHolds == Spec => []CountsAreBounds
<1>1. TypeInv => CountsAreBounds
  <2> SUFFICES ASSUME TypeInv PROVE CountsAreBounds
    OBVIOUS
  <2>1. main.at \in 0 .. N + 1 /\ N \in Nat
        /\ (main.pc \in {"poll", "restart"} => main.at \in 1 .. N)
    BY LifecycleAssumption, SMT DEF TypeInv, TypeOK, Monitors
  <2>2. main.pc \in Leaving => ToExit \in 0 .. 2 * N + 4
    BY <2>1, SMT DEF ToExit
  <2>3. main.pc \in {"poll", "restart"} => ToEvaluation \in 1 .. 2 * N
    BY <2>1, SMT DEF ToEvaluation
  <2>4. QED
    BY <2>2, <2>3 DEF CountsAreBounds
<1>2. QED
  BY <1>1, TypeInit, TypeStep, PTL DEF Spec
=============================================================================
