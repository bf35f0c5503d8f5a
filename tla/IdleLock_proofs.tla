--------------------------- MODULE IdleLock_proofs ---------------------------
(***************************************************************************)
(* Proofs about IdleLock for every value of its constants: the type        *)
(* invariant, the two inductive invariants and the safety properties they  *)
(* give, and the refinement of LockPolicy.                                 *)
(***************************************************************************)
EXTENDS IdleLock, TLAPS

-----------------------------------------------------------------------------
(* Ages *)

\* A stopwatch stays a stopwatch reading, never runs backwards, and shows at
\* least the time that has just passed.
LEMMA AgedGrows ==
  ASSUME NEW a \in Age, NEW d \in Nat
  PROVE  /\ Aged(a, d) \in Age
         /\ a <= Aged(a, d)
         /\ \A x \in Nat : x <= d /\ x <= Horizon => x <= Aged(a, d)
BY ConstantsAssumption, SMT DEF Aged, Age

\* Two stopwatches keep their order: saturation never swaps them.
LEMMA AgedMonotone ==
  ASSUME NEW a \in Age, NEW b \in Age, NEW d \in Nat, a <= b
  PROVE  Aged(a, d) <= Aged(b, d)
BY ConstantsAssumption, SMT DEF Aged, Age

\* None is not a stopwatch reading.
LEMMA NoneIsNoAge == None \notin Age /\ None \notin Nat
BY ConstantsAssumption DEF Age

\* Elapse keeps every stopwatch well typed.
LEMMA ElapseType ==
  ASSUME TypeOK, NEW d \in Nat, Elapse(d)
  PROVE  /\ activityAge' \in Age /\ baselineAge' \in Age \cup {None}
         /\ monoGap' \in Age /\ wallGap' \in Age
         /\ snapshotAge' \in Age /\ waited' \in Age
<1>1. activityAge \in Age /\ monoGap \in Age /\ wallGap \in Age
      /\ snapshotAge \in Age /\ waited \in Age
      /\ baselineAge \in Age \cup {None}
  BY DEF TypeOK
<1>2. \A a \in Age : Aged(a, d) \in Age
  BY AgedGrows
<1>3. QED
  BY <1>1, <1>2 DEF Elapse

-----------------------------------------------------------------------------
(* Type correctness *)

LEMMA TypeInit == Init => TypeOK
<1> SUFFICES ASSUME Init PROVE TypeOK
  OBVIOUS
<1>1. 0 \in Age /\ Horizon \in Age /\ 0 \in 0 .. MaxStalls
  BY ConstantsAssumption DEF Age
<1>2. PICK d \in StartupDelays : /\ activityAge = Aged(0, d)
                                 /\ snapshotAge = Aged(0, d)
                                 /\ monoGap = Aged(0, d) /\ wallGap = Aged(0, d)
  BY DEF Init
<1>3. Aged(0, d) \in Age
  <2>1. d \in Nat
    BY <1>2, ConstantsAssumption
  <2>2. QED
    BY <1>1, <2>1, AgedGrows
<1>4. QED
  BY <1>1, <1>2, <1>3 DEF Init, TypeOK, State, ControlPoint, WakeKind

LEMMA TypeNext == TypeOK /\ [Next]_vars => TypeOK'
<1> SUFFICES ASSUME TypeOK, [Next]_vars PROVE TypeOK'
  OBVIOUS
<1> USE DEF activityVars, controllerVars, detectorVars, localVars, historyVars
<1>0. /\ 0 \in Age /\ Horizon \in Age /\ 1 \in Nat
      /\ \A d \in MaintenanceDelays : d \in Nat
      /\ \A d \in StallLengths : d \in Nat
      /\ \A a \in Age, d \in Nat : Aged(a, d) \in Age
  BY ConstantsAssumption, AgedGrows DEF Age
<1>1. CASE CheckStop
  BY <1>1 DEF CheckStop, TypeOK, ControlPoint
<1>2. CASE \E d \in MaintenanceDelays : Maintain(d)
  <2>1. PICK d \in MaintenanceDelays : Maintain(d)
    BY <1>2
  <2>2. d \in Nat /\ Elapse(d)
    BY <1>0, <2>1 DEF Maintain
  <2>3. QED
    BY <1>0, <2>1, <2>2, ElapseType DEF Maintain, TypeOK, ControlPoint
<1>3. CASE PollResume
  BY <1>0, <1>3 DEF PollResume, TypeOK, ControlPoint
<1>4. CASE HandleResume
  BY <1>0, <1>4 DEF HandleResume, TypeOK, ControlPoint, State
<1>5. CASE TakeSnapshot
  BY <1>0, <1>5 DEF TakeSnapshot, TypeOK, ControlPoint, State
<1>6. CASE ReadClock
  BY <1>6 DEF ReadClock, EffectiveIdle, TypeOK, ControlPoint
<1>7. CASE ReadForce
  BY <1>7 DEF ReadForce, TypeOK, ControlPoint
<1>8. CASE ClearForce
  BY <1>8 DEF ClearForce, TypeOK, ControlPoint
<1>9. CASE Decide
  BY <1>9 DEF Decide, TypeOK, ControlPoint
<1>10. CASE LockSucceeds
  BY <1>10 DEF LockSucceeds, TypeOK, ControlPoint, State
<1>11. CASE LockFails
  BY <1>11 DEF LockFails, TypeOK, ControlPoint
<1>12. CASE Report
  BY <1>0, <1>12 DEF Report, TypeOK, ControlPoint
<1>13. CASE Wake
  BY <1>0, <1>13 DEF Wake, TypeOK, ControlPoint
<1>14. CASE Tick
  <2>1. Elapse(1)
    BY <1>14 DEF Tick
  <2>2. QED
    BY <1>0, <1>14, <2>1, ElapseType DEF Tick, TypeOK
<1>15. CASE \E d \in StallLengths : Stall(d)
  <2>1. PICK d \in StallLengths : Stall(d)
    BY <1>15
  <2>2. d \in Nat /\ Elapse(d)
    BY <1>0, <2>1 DEF Stall
  <2>3. wakeAge' \in Age
    BY <1>0, <2>1, <2>2 DEF Stall, TypeOK
  <2>4. wakeKind' \in WakeKind
    BY <2>1 DEF Stall, TypeOK, KindOfWake, WakeKind
  <2>5. stalls' \in 0 .. MaxStalls
    BY <2>1, ConstantsAssumption DEF Stall, TypeOK
  <2>6. QED
    BY <2>1, <2>2, <2>3, <2>4, <2>5, ElapseType DEF Stall, TypeOK
<1>16. CASE \E g \in Age : SetWallClock(g)
  BY <1>16, ConstantsAssumption DEF SetWallClock, TypeOK
<1>17. CASE Record
  BY <1>0, <1>17 DEF Record, TypeOK
<1>18. CASE RequestLock
  BY <1>18 DEF RequestLock, TypeOK
<1>19. CASE RequestExit
  BY <1>19 DEF RequestExit, TypeOK
<1>20. CASE Interrupt
  BY <1>20 DEF Interrupt, TypeOK, ControlPoint
<1>21. CASE UNCHANGED vars
  BY <1>21 DEF vars, TypeOK
<1>22. QED
  BY <1>1, <1>2, <1>3, <1>4, <1>5, <1>6, <1>7, <1>8, <1>9, <1>10, <1>11, <1>12,
     <1>13, <1>14, <1>15, <1>16, <1>17, <1>18, <1>19, <1>20, <1>21
     DEF Next, ControllerStep, Environment

\* Every variable keeps its type: in particular no age ever leaves its range
\* and the resume baseline is None or an age.
THEOREM TypeCorrect == Spec => []TypeOK
BY TypeInit, TypeNext, PTL DEF Spec

-----------------------------------------------------------------------------
(* What one evaluation knows *)

LEMMA CycleInit == Init => CycleInv
BY ConstantsAssumption DEF Init, CycleInv, Measured

\* Time only strengthens what the evaluation measured.
LEMMA CycleElapse ==
  ASSUME TypeOK, CycleInv, NEW d \in Nat, Elapse(d),
         UNCHANGED <<sequence, observedSequence, armed, state, idleSeconds, forced>>,
         pc' = pc \/ pc' = "poll"
  PROVE  CycleInv'
<1>1. /\ activityAge \in Age /\ snapshotAge \in Age /\ idleSeconds \in Nat
      /\ baselineAge \in Age \cup {None}
      /\ Age \subseteq Nat
  BY ConstantsAssumption DEF TypeOK, Age
<1>2. /\ snapshotAge' = Aged(snapshotAge, d) /\ activityAge' = Aged(activityAge, d)
      /\ snapshotAge <= snapshotAge' /\ snapshotAge' \in Nat
      /\ baselineAge = None => baselineAge' = None
      /\ baselineAge # None => /\ baselineAge <= baselineAge'
                               /\ baselineAge \in Nat /\ baselineAge' \in Nat
  BY <1>1, AgedGrows DEF Elapse
<1>3. /\ (observedSequence <= sequence)'
      /\ (state = "locked" <=> ~armed)'
  BY DEF CycleInv
<1>4. ASSUME pc' \in Measured
      PROVE  /\ (idleSeconds <= snapshotAge)'
             /\ (baselineAge # None => idleSeconds <= baselineAge)'
  <2>1. /\ idleSeconds <= snapshotAge
        /\ baselineAge # None => idleSeconds <= baselineAge
    BY <1>4 DEF CycleInv, Measured
  <2>2. QED
    BY <1>1, <1>2, <2>1
<1>5. ((pc \in Measured \cup {"clock"}) /\ sequence = observedSequence
        => snapshotAge = activityAge)'
  BY <1>2 DEF CycleInv, Measured
<1>6. (pc = "lock" => armed /\ (forced \/ ShouldLock))'
  BY DEF CycleInv, ShouldLock
<1>7. QED
  BY <1>3, <1>4, <1>5, <1>6 DEF CycleInv, Measured

LEMMA CycleNext == TypeOK /\ CycleInv /\ [Next]_vars => CycleInv'
<1> SUFFICES ASSUME TypeOK, CycleInv, [Next]_vars PROVE CycleInv'
  OBVIOUS
<1> USE DEF activityVars, controllerVars, detectorVars, localVars, historyVars
<1>1. CASE CheckStop
  BY <1>1 DEF CheckStop, CycleInv, Measured
<1>2. CASE \E d \in MaintenanceDelays : Maintain(d)
  BY <1>2, CycleElapse, ConstantsAssumption DEF Maintain
<1>3. CASE PollResume
  BY <1>3 DEF PollResume, CycleInv, Measured
<1>4. CASE HandleResume
  BY <1>4 DEF HandleResume, CycleInv, Measured
<1>5. CASE TakeSnapshot
  BY <1>5 DEF TakeSnapshot, CycleInv, Measured, TypeOK
<1>6. CASE ReadClock
  <2>1. idleSeconds' <= snapshotAge /\ (baselineAge # None => idleSeconds' <= baselineAge)
    BY <1>6, ConstantsAssumption DEF ReadClock, EffectiveIdle, TypeOK, Age
  <2>2. QED
    BY <1>6, <2>1 DEF ReadClock, CycleInv, Measured
<1>7. CASE ReadForce
  BY <1>7 DEF ReadForce, CycleInv, Measured
<1>8. CASE ClearForce
  BY <1>8 DEF ClearForce, CycleInv, Measured
<1>9. CASE Decide
  BY <1>9 DEF Decide, CycleInv, Measured, ShouldLock
<1>10. CASE LockSucceeds
  BY <1>10 DEF LockSucceeds, CycleInv, Measured
<1>11. CASE LockFails
  BY <1>11 DEF LockFails, CycleInv, Measured
<1>12. CASE Report
  BY <1>12 DEF Report, CycleInv, Measured
<1>13. CASE Wake
  BY <1>13 DEF Wake, CycleInv, Measured
<1>14. CASE Tick
  BY <1>14, CycleElapse DEF Tick
<1>15. CASE \E d \in StallLengths : Stall(d)
  BY <1>15, CycleElapse, ConstantsAssumption DEF Stall
<1>16. CASE \E g \in Age : SetWallClock(g)
  BY <1>16 DEF SetWallClock, CycleInv, Measured, ShouldLock
<1>17. CASE Record
  <2>1. sequence' = sequence + 1 /\ observedSequence' = observedSequence
        /\ sequence \in Nat /\ observedSequence \in Nat /\ observedSequence <= sequence
    BY <1>17 DEF Record, CycleInv, TypeOK
  <2>2. observedSequence' <= sequence' /\ sequence' # observedSequence'
    BY <2>1
  <2>3. QED
    BY <1>17, <2>2 DEF Record, CycleInv, Measured, ShouldLock
<1>18. CASE RequestLock
  BY <1>18 DEF RequestLock, CycleInv, Measured, ShouldLock
<1>19. CASE RequestExit
  BY <1>19 DEF RequestExit, CycleInv, Measured, ShouldLock
<1>20. CASE Interrupt
  BY <1>20 DEF Interrupt, CycleInv, Measured
<1>21. CASE UNCHANGED vars
  BY <1>21 DEF vars, CycleInv, Measured, ShouldLock
<1>22. QED
  BY <1>1, <1>2, <1>3, <1>4, <1>5, <1>6, <1>7, <1>8, <1>9, <1>10, <1>11, <1>12,
     <1>13, <1>14, <1>15, <1>16, <1>17, <1>18, <1>19, <1>20, <1>21
     DEF Next, ControllerStep, Environment

\* What the controller keeps between the reading of its inputs and the use it
\* makes of them: see CycleInv.  The other theorems rest on it.
THEOREM CycleInvariant == Spec => []CycleInv
<1>1. Init => TypeOK /\ CycleInv
  BY TypeInit, CycleInit
<1>2. TypeOK /\ CycleInv /\ [Next]_vars => (TypeOK /\ CycleInv)'
  BY TypeNext, CycleNext
<1>3. QED
  BY <1>1, <1>2, PTL DEF Spec

\* However the controller thread is interleaved with hooks, tray, suspends and
\* clock changes, an inactivity lock is requested only when the newest input
\* it has observed, and the last resume, are at least the timeout old.
THEOREM NoPrematureLockHolds == Spec => []NoPrematureLock
<1>1. TypeOK /\ CycleInv => NoPrematureLock
  <2> SUFFICES ASSUME TypeOK, CycleInv, pc = "lock", ~forced,
                      sequence = observedSequence
               PROVE  /\ activityAge >= Timeout
                      /\ baselineAge # None => baselineAge >= Timeout
    BY DEF NoPrematureLock
  <2>1. /\ idleSeconds >= Timeout /\ idleSeconds <= snapshotAge
        /\ baselineAge # None => idleSeconds <= baselineAge
        /\ snapshotAge = activityAge
    BY DEF CycleInv, Measured, ShouldLock
  <2>2. /\ idleSeconds \in Nat /\ snapshotAge \in Nat /\ Timeout \in Nat
        /\ baselineAge # None => baselineAge \in Nat
    BY ConstantsAssumption DEF TypeOK, Age
  <2>3. QED
    BY <2>1, <2>2
<1>2. QED
  BY <1>1, TypeCorrect, CycleInvariant, PTL

-----------------------------------------------------------------------------
(* After a wake *)

LEMMA ResumeInit == Init => ResumeInv
<1> SUFFICES ASSUME Init PROVE ResumeInv
  OBVIOUS
<1>1. PICK d \in StartupDelays : activityAge = Aged(0, d) /\ snapshotAge = Aged(0, d)
  BY DEF Init
<1>2. Aged(0, d) <= Horizon
  BY <1>1, ConstantsAssumption DEF Aged
<1>3. QED
  BY <1>1, <1>2 DEF Init, ResumeInv

\* Time that is not a wake moves all the stopwatches of ResumeInv together.
LEMMA ResumeElapse ==
  ASSUME TypeOK, ResumeInv, NEW d \in Nat, Elapse(d), wakeAge' = Aged(wakeAge, d),
         UNCHANGED <<sequence, observedSequence, wakeKind>>,
         pc' = pc \/ (pc = "maintain" /\ pc' = "poll")
  PROVE  ResumeInv'
<1>1. /\ activityAge \in Age /\ snapshotAge \in Age /\ monoGap \in Age
      /\ wakeAge \in Age /\ baselineAge \in Age \cup {None}
      /\ Age \subseteq Nat /\ Gap \in Nat
  BY ConstantsAssumption DEF TypeOK, Age
<1>2. activityAge <= wakeAge => activityAge' <= wakeAge'
  BY <1>1, AgedMonotone DEF Elapse
<1>3. snapshotAge <= wakeAge => snapshotAge' <= wakeAge'
  BY <1>1, AgedMonotone DEF Elapse
<1>4. baselineAge # None /\ baselineAge <= wakeAge
        => baselineAge' # None /\ baselineAge' <= wakeAge'
  <2> SUFFICES ASSUME baselineAge # None, baselineAge <= wakeAge
               PROVE  baselineAge' # None /\ baselineAge' <= wakeAge'
    OBVIOUS
  <2>1. baselineAge' = Aged(baselineAge, d) /\ baselineAge \in Age
    BY <1>1 DEF Elapse
  <2>2. Aged(baselineAge, d) \in Age /\ Aged(baselineAge, d) <= wakeAge'
    BY <1>1, <2>1, AgedGrows, AgedMonotone
  <2>3. QED
    BY <2>1, <2>2, NoneIsNoAge
<1>5. monoGap >= Gap => monoGap' >= Gap
  <2>1. monoGap' \in Age /\ monoGap <= monoGap'
    BY <1>1, AgedGrows DEF Elapse
  <2>2. QED
    BY <1>1, <2>1
<1>6. QED
  BY <1>2, <1>3, <1>4, <1>5 DEF ResumeInv, BeforeEvaluation

\* A stall of at least Gap starts a new wake.
LEMMA ResumeStall ==
  ASSUME TypeOK, NEW d \in Nat, Stall(d), d >= Gap
  PROVE  ResumeInv'
<1> SUFFICES ASSUME wakeKind' = "clean" PROVE ResumeInv'
  BY DEF ResumeInv
<1>1. pc \in BeforeEvaluation /\ sequence = observedSequence
  BY DEF Stall, KindOfWake
<1>2. monoGap' >= Gap
  <2>1. monoGap' = Aged(monoGap, d) /\ monoGap \in Age
    BY DEF Stall, Elapse, TypeOK
  <2>2. Gap <= Aged(monoGap, d) /\ Aged(monoGap, d) \in Age
    BY <2>1, AgedGrows, ConstantsAssumption
  <2>3. QED
    BY <2>1, <2>2, ConstantsAssumption DEF Age
<1>3. QED
  BY <1>1, <1>2 DEF Stall, ResumeInv, BeforeEvaluation

LEMMA ResumeNext == TypeOK /\ CycleInv /\ ResumeInv /\ [Next]_vars => ResumeInv'
<1> SUFFICES ASSUME TypeOK, CycleInv, ResumeInv, [Next]_vars PROVE ResumeInv'
  OBVIOUS
<1> USE DEF activityVars, controllerVars, detectorVars, localVars, historyVars,
            BeforeEvaluation
<1>0. /\ activityAge \in Nat /\ snapshotAge \in Nat /\ wakeAge \in Nat
      /\ Gap \in Nat /\ monoGap \in Nat
  BY ConstantsAssumption DEF TypeOK, Age
<1>1. CASE CheckStop
  BY <1>1 DEF CheckStop, ResumeInv
<1>2. CASE \E d \in MaintenanceDelays : Maintain(d)
  BY <1>2, ResumeElapse, ConstantsAssumption DEF Maintain
<1>3. CASE PollResume
  <2>1. monoGap >= Gap => GapSeen
    BY DEF GapSeen
  <2>2. QED
    BY <1>3, <2>1 DEF PollResume, ResumeInv
<1>4. CASE HandleResume
  <2>1. baselineAge' # None /\ baselineAge' <= wakeAge'
    BY <1>0, <1>4, NoneIsNoAge DEF HandleResume
  <2>2. QED
    BY <1>4, <2>1 DEF HandleResume, ResumeInv
<1>5. CASE TakeSnapshot
  <2>1. sequence' = observedSequence' /\ snapshotAge' = activityAge
        /\ wakeAge' = wakeAge /\ wakeKind' = wakeKind /\ activityAge' = activityAge
    BY <1>5 DEF TakeSnapshot
  <2>2. CASE sequence # observedSequence
    BY <2>1, <2>2 DEF ResumeInv
  <2>3. CASE sequence = observedSequence
    <3>1. baselineAge' = baselineAge
      BY <1>5, <2>3 DEF TakeSnapshot
    <3>2. QED
      BY <1>5, <2>1, <3>1 DEF TakeSnapshot, ResumeInv
  <2>4. QED
    BY <2>2, <2>3
<1>6. CASE ReadClock
  BY <1>6 DEF ReadClock, ResumeInv
<1>7. CASE ReadForce
  BY <1>7 DEF ReadForce, ResumeInv
<1>8. CASE ClearForce
  BY <1>8 DEF ClearForce, ResumeInv
<1>9. CASE Decide
  BY <1>9 DEF Decide, ResumeInv
<1>10. CASE LockSucceeds
  BY <1>10 DEF LockSucceeds, ResumeInv
<1>11. CASE LockFails
  BY <1>11 DEF LockFails, ResumeInv
<1>12. CASE Report
  BY <1>12 DEF Report, ResumeInv
<1>13. CASE Wake
  BY <1>13 DEF Wake, ResumeInv
<1>14. CASE Tick
  BY <1>14, ResumeElapse DEF Tick
<1>15. CASE \E d \in StallLengths : Stall(d)
  <2>1. PICK d \in StallLengths : Stall(d)
    BY <1>15
  <2>2. d \in Nat
    BY <2>1, ConstantsAssumption
  <2>3. CASE d >= Gap
    BY <2>1, <2>2, <2>3, ResumeStall
  <2>4. CASE ~(d >= Gap)
    BY <2>1, <2>2, <2>4, ResumeElapse DEF Stall
  <2>5. QED
    BY <2>3, <2>4
<1>16. CASE \E g \in Age : SetWallClock(g)
  BY <1>16 DEF SetWallClock, ResumeInv
<1>17. CASE Record
  <2>1. activityAge' <= wakeAge'
    BY <1>0, <1>17 DEF Record
  <2>2. QED
    BY <1>17, <2>1 DEF Record, ResumeInv
<1>18. CASE RequestLock
  BY <1>18 DEF RequestLock, ResumeInv
<1>19. CASE RequestExit
  BY <1>19 DEF RequestExit, ResumeInv
<1>20. CASE Interrupt
  BY <1>20 DEF Interrupt, ResumeInv
<1>21. CASE UNCHANGED vars
  BY <1>21 DEF vars, ResumeInv
<1>22. QED
  BY <1>1, <1>2, <1>3, <1>4, <1>5, <1>6, <1>7, <1>8, <1>9, <1>10, <1>11, <1>12,
     <1>13, <1>14, <1>15, <1>16, <1>17, <1>18, <1>19, <1>20, <1>21
     DEF Next, ControllerStep, Environment

\* After a clean wake the grace is carried, without a break, by the gap to be
\* polled, the resume just seen, the baseline, or input newer than the wake.
THEOREM ResumeInvariant == Spec => []ResumeInv
<1>1. Init => TypeOK /\ CycleInv /\ ResumeInv
  BY TypeInit, CycleInit, ResumeInit
<1>2. TypeOK /\ CycleInv /\ ResumeInv /\ [Next]_vars
        => (TypeOK /\ CycleInv /\ ResumeInv)'
  BY TypeNext, CycleNext, ResumeNext
<1>3. QED
  BY <1>1, <1>2, PTL DEF Spec

\* Whatever the timeout, the gap, the length of the suspend and the speed of
\* the monitors: a suspend between two evaluations, with no input left
\* unobserved, never leads to an inactivity lock within the timeout of the wake.
THEOREM CoveredResumeGraceHolds == Spec => []CoveredResumeGrace
<1>1. TypeOK /\ CycleInv /\ ResumeInv => CoveredResumeGrace
  <2> SUFFICES ASSUME TypeOK, CycleInv, ResumeInv,
                      pc = "lock", ~forced, wakeKind = "clean"
               PROVE  wakeAge >= Timeout
    BY DEF CoveredResumeGrace
  <2>1. /\ idleSeconds >= Timeout /\ idleSeconds <= snapshotAge
        /\ baselineAge # None => idleSeconds <= baselineAge
    BY DEF CycleInv, Measured, ShouldLock
  <2>2. \/ baselineAge # None /\ baselineAge <= wakeAge
        \/ snapshotAge <= wakeAge
    BY DEF ResumeInv, BeforeEvaluation
  <2>3. /\ idleSeconds \in Nat /\ snapshotAge \in Nat /\ Timeout \in Nat
        /\ wakeAge \in Nat
        /\ baselineAge # None => baselineAge \in Nat
    BY ConstantsAssumption DEF TypeOK, Age
  <2>4. QED
    BY <2>1, <2>2, <2>3
<1>2. QED
  BY <1>1, TypeCorrect, CycleInvariant, ResumeInvariant, PTL

-----------------------------------------------------------------------------
(* Requests and retries *)

LEMMA RetryInit == Init => RetryInv
BY DEF Init, RetryInv

\* Time never takes a refused lock back.
LEMMA RetryElapse ==
  ASSUME TypeOK, CycleInv, RetryInv, NEW d \in Nat, Elapse(d),
         UNCHANGED <<sequence, observedSequence, armed, idleSeconds, failure>>,
         pc' = pc \/ pc' = "poll"
  PROVE  RetryInv'
<1>1. /\ activityAge \in Age /\ snapshotAge \in Age
      /\ baselineAge \in Age \cup {None} /\ Timeout \in Nat
      /\ Age \subseteq Nat
  BY ConstantsAssumption DEF TypeOK, Age
<1>2. /\ activityAge <= activityAge' /\ activityAge' \in Nat
      /\ snapshotAge <= snapshotAge' /\ snapshotAge' \in Nat
      /\ baselineAge = None => baselineAge' = None
      /\ baselineAge # None => /\ baselineAge <= baselineAge'
                               /\ baselineAge \in Nat /\ baselineAge' \in Nat
  BY <1>1, AgedGrows DEF Elapse
<1>3. QED
  BY <1>1, <1>2 DEF RetryInv, Measured, ShouldLock

LEMMA RetryNext == TypeOK /\ CycleInv /\ RetryInv /\ [Next]_vars => RetryInv'
<1> SUFFICES ASSUME TypeOK, CycleInv, RetryInv, [Next]_vars PROVE RetryInv'
  OBVIOUS
<1> USE DEF activityVars, controllerVars, detectorVars, localVars, historyVars
<1>1. CASE CheckStop
  BY <1>1 DEF CheckStop, RetryInv, Measured
<1>2. CASE \E d \in MaintenanceDelays : Maintain(d)
  BY <1>2, RetryElapse, ConstantsAssumption DEF Maintain
<1>3. CASE PollResume
  BY <1>3 DEF PollResume, RetryInv, Measured
<1>4. CASE HandleResume
  BY <1>4 DEF HandleResume, RetryInv
<1>5. CASE TakeSnapshot
  BY <1>5 DEF TakeSnapshot, RetryInv, Measured
<1>6. CASE ReadClock
  <2>1. failure = "timeout" => EffectiveIdle >= Timeout
    BY <1>6, ConstantsAssumption DEF ReadClock, EffectiveIdle, RetryInv, TypeOK, Age
  <2>2. QED
    BY <1>6, <2>1 DEF ReadClock, RetryInv, ShouldLock
<1>7. CASE ReadForce
  BY <1>7 DEF ReadForce, RetryInv, Measured, ShouldLock
<1>8. CASE ClearForce
  BY <1>8 DEF ClearForce, RetryInv, Measured, ShouldLock
<1>9. CASE Decide
  BY <1>9 DEF Decide, RetryInv, Measured, ShouldLock
<1>10. CASE LockSucceeds
  BY <1>10 DEF LockSucceeds, RetryInv
<1>11. CASE LockFails
  <2> SUFFICES ASSUME failure' = "timeout" PROVE RetryInv'
    BY DEF RetryInv
  <2>1. ShouldLock
    BY <1>11 DEF LockFails
  <2>2. /\ armed /\ idleSeconds <= snapshotAge
        /\ baselineAge # None => idleSeconds <= baselineAge
        /\ sequence = observedSequence => snapshotAge = activityAge
    BY <1>11 DEF LockFails, CycleInv, Measured
  <2>3. /\ idleSeconds \in Nat /\ snapshotAge \in Nat /\ Timeout \in Nat
        /\ baselineAge # None => baselineAge \in Nat
    BY ConstantsAssumption DEF TypeOK, Age
  <2>4. /\ snapshotAge >= Timeout
        /\ baselineAge # None => baselineAge >= Timeout
    BY <2>1, <2>2, <2>3 DEF ShouldLock
  <2>5. QED
    BY <1>11, <2>2, <2>4 DEF LockFails, RetryInv, Measured
<1>12. CASE Report
  BY <1>12 DEF Report, RetryInv, Measured
<1>13. CASE Wake
  BY <1>13 DEF Wake, RetryInv, Measured
<1>14. CASE Tick
  BY <1>14, RetryElapse DEF Tick
<1>15. CASE \E d \in StallLengths : Stall(d)
  BY <1>15, RetryElapse, ConstantsAssumption DEF Stall
<1>16. CASE \E g \in Age : SetWallClock(g)
  BY <1>16 DEF SetWallClock, RetryInv, ShouldLock
<1>17. CASE Record
  <2>1. sequence' # observedSequence'
    BY <1>17 DEF Record, CycleInv, TypeOK
  <2>2. QED
    BY <1>17, <2>1 DEF Record, RetryInv, ShouldLock
<1>18. CASE RequestLock
  BY <1>18 DEF RequestLock, RetryInv, ShouldLock
<1>19. CASE RequestExit
  BY <1>19 DEF RequestExit, RetryInv, ShouldLock
<1>20. CASE Interrupt
  BY <1>20 DEF Interrupt, RetryInv, Measured
<1>21. CASE UNCHANGED vars
  BY <1>21 DEF vars, RetryInv, ShouldLock
<1>22. QED
  BY <1>1, <1>2, <1>3, <1>4, <1>5, <1>6, <1>7, <1>8, <1>9, <1>10, <1>11, <1>12,
     <1>13, <1>14, <1>15, <1>16, <1>17, <1>18, <1>19, <1>20, <1>21
     DEF Next, ControllerStep, Environment

\* While a refused inactivity lock is outstanding, no thread, stall or clock
\* change takes away what the next decision needs to ask again.
THEOREM RetryInvariant == Spec => []RetryInv
<1>1. Init => TypeOK /\ CycleInv /\ RetryInv
  BY TypeInit, CycleInit, RetryInit
<1>2. TypeOK /\ CycleInv /\ RetryInv /\ [Next]_vars
        => (TypeOK /\ CycleInv /\ RetryInv)'
  BY TypeNext, CycleNext, RetryNext
<1>3. QED
  BY <1>1, <1>2, PTL DEF Spec

\* The inductive invariant that the run checks, put together.
THEOREM ControllerInvHolds == Spec => []ControllerInv
<1>1. TypeOK /\ CycleInv /\ ResumeInv /\ RetryInv => ControllerInv
  BY DEF ControllerInv
<1>2. QED
  BY <1>1, TypeCorrect, CycleInvariant, ResumeInvariant, RetryInvariant, PTL

\* A lock the timeout called for and the adapter refused is requested again by
\* every later evaluation until it succeeds, input is observed or a resume is.
THEOREM TimeoutFailureRetriedHolds == Spec => TimeoutFailureRetried
<1>1. RetryInv /\ [Next]_vars => [pc = "decide" /\ failure = "timeout" => pc' # "report"]_vars
  <2> SUFFICES ASSUME RetryInv, [Next]_vars, pc = "decide", failure = "timeout"
               PROVE  pc' # "report"
    OBVIOUS
  <2>1. armed /\ ShouldLock
    BY DEF RetryInv, Measured
  <2>2. QED
    BY <2>1 DEF Next, ControllerStep, Environment, vars, CheckStop, Maintain,
       PollResume, HandleResume, TakeSnapshot, ReadClock, ReadForce, ClearForce,
       Decide, LockSucceeds, LockFails, Report, Wake, Tick, Stall, SetWallClock,
       Record, RequestLock, RequestExit, Interrupt
<1>2. QED
  BY <1>1, RetryInvariant, PTL DEF Spec, TimeoutFailureRetried

\* The flag is cleared only by an evaluation that read it set.
ClearsWhatItRead == pc = "clear" => forced

LEMMA ClearsInit == Init => ClearsWhatItRead
BY DEF Init, ClearsWhatItRead

LEMMA ClearsNext == ClearsWhatItRead /\ [Next]_vars => ClearsWhatItRead'
BY DEF ClearsWhatItRead, Next, ControllerStep, Environment, vars, localVars,
       CheckStop, Maintain,
       PollResume, HandleResume, TakeSnapshot, ReadClock, ReadForce, ClearForce,
       Decide, LockSucceeds, LockFails, Report, Wake, Tick, Stall, SetWallClock,
       Record, RequestLock, RequestExit, Interrupt

LEMMA RequestInit == Init => RequestKept
BY DEF Init, RequestKept

LEMMA RequestNext == ClearsWhatItRead /\ RequestKept /\ [Next]_vars => RequestKept'
<1> SUFFICES ASSUME ClearsWhatItRead, RequestKept, [Next]_vars PROVE RequestKept'
  OBVIOUS
<1> USE DEF RequestKept, controllerVars, localVars, historyVars
<1>1. CASE CheckStop
  BY <1>1 DEF CheckStop
<1>2. CASE \E d \in MaintenanceDelays : Maintain(d)
  BY <1>2 DEF Maintain
<1>3. CASE PollResume
  BY <1>3 DEF PollResume
<1>4. CASE HandleResume
  BY <1>4 DEF HandleResume
<1>5. CASE TakeSnapshot
  BY <1>5 DEF TakeSnapshot
<1>6. CASE ReadClock
  BY <1>6 DEF ReadClock
<1>7. CASE ReadForce
  BY <1>7 DEF ReadForce
<1>8. CASE ClearForce
  BY <1>8 DEF ClearForce, ClearsWhatItRead
<1>9. CASE Decide
  BY <1>9 DEF Decide
<1>10. CASE LockSucceeds
  BY <1>10 DEF LockSucceeds
<1>11. CASE LockFails
  BY <1>11 DEF LockFails
<1>12. CASE Report
  BY <1>12 DEF Report
<1>13. CASE Wake
  BY <1>13 DEF Wake
<1>14. CASE Environment
  BY <1>14 DEF Environment, Tick, Stall, SetWallClock, Record, RequestLock,
     RequestExit, Interrupt
<1>15. CASE UNCHANGED vars
  BY <1>15 DEF vars
<1>16. QED
  BY <1>1, <1>2, <1>3, <1>4, <1>5, <1>6, <1>7, <1>8, <1>9, <1>10, <1>11, <1>12,
     <1>13, <1>14, <1>15 DEF Next, ControllerStep

\* A Lock now that reaches an armed controller at any moment, also between the
\* read of the flag and its clearing, is in the flag or in the hands of an
\* evaluation that will call the adapter for it, until it is called, the
\* session is locked or a resume discards the request.
THEOREM RequestKeptHolds == Spec => []RequestKept
BY ClearsInit, ClearsNext, RequestInit, RequestNext, PTL DEF Spec

-----------------------------------------------------------------------------
(* IdleLock implements LockPolicy *)

LEMMA PolicyInitial == Init => Policy!PolicyInit
BY DEF Init, Policy!PolicyInit

\* A step that leaves what the policy sees is a stutter of it.
LEMMA PolicyStutter ==
  ASSUME UNCHANGED <<sequence, armed, observedSequence>>,
         (pc' = "lock") <=> (pc = "lock"), (pc' = "resume") <=> (pc = "resume")
  PROVE  UNCHANGED Policy!policyVars
BY DEF Policy!policyVars

LEMMA PolicyStep ==
  TypeOK /\ CycleInv /\ [Next]_vars => [Policy!PolicyNext]_Policy!policyVars
<1> SUFFICES ASSUME TypeOK, CycleInv, [Next]_vars
             PROVE  [Policy!PolicyNext]_Policy!policyVars
  OBVIOUS
<1> USE DEF activityVars, controllerVars, detectorVars, localVars, historyVars
<1>1. CASE CheckStop
  BY <1>1, PolicyStutter DEF CheckStop
<1>2. CASE \E d \in MaintenanceDelays : Maintain(d)
  BY <1>2, PolicyStutter DEF Maintain
<1>3. CASE PollResume
  <2>1. CASE GapSeen
    <3>1. Policy!ObserveGap
      BY <1>3, <2>1 DEF PollResume, Policy!ObserveGap
    <3>2. QED
      BY <3>1 DEF Policy!PolicyNext
  <2>2. CASE ~GapSeen
    BY <1>3, <2>2, PolicyStutter DEF PollResume
  <2>3. QED
    BY <2>1, <2>2
<1>4. CASE HandleResume
  <2>1. Policy!RenewByResume
    BY <1>4 DEF HandleResume, Policy!RenewByResume
  <2>2. QED
    BY <2>1 DEF Policy!PolicyNext
<1>5. CASE TakeSnapshot
  <2>1. CASE ~armed /\ sequence # observedSequence
    <3>1. observedSequence < sequence /\ observedSequence # None
      BY <2>1, NoneIsNoAge DEF CycleInv, TypeOK
    <3>2. Policy!RenewByInput
      BY <1>5, <2>1, <3>1 DEF TakeSnapshot, Policy!RenewByInput
    <3>3. QED
      BY <3>2 DEF Policy!PolicyNext
  <2>2. CASE armed \/ sequence = observedSequence
    BY <1>5, <2>2 DEF TakeSnapshot, Policy!policyVars, TypeOK
  <2>3. QED
    BY <2>1, <2>2 DEF TypeOK
<1>6. CASE ReadClock
  BY <1>6, PolicyStutter DEF ReadClock
<1>7. CASE ReadForce
  BY <1>7, PolicyStutter DEF ReadForce
<1>8. CASE ClearForce
  BY <1>8, PolicyStutter DEF ClearForce
<1>9. CASE Decide
  <2>1. CASE armed /\ (forced \/ ShouldLock)
    <3>1. Policy!Ask
      BY <1>9, <2>1 DEF Decide, Policy!Ask
    <3>2. QED
      BY <3>1 DEF Policy!PolicyNext
  <2>2. CASE ~(armed /\ (forced \/ ShouldLock))
    BY <1>9, <2>2, PolicyStutter DEF Decide
  <2>3. QED
    BY <2>1, <2>2
<1>10. CASE LockSucceeds
  <2>1. observedSequence \in 0 .. sequence
    BY DEF CycleInv, TypeOK
  <2>2. Policy!SpendEpisode
    BY <1>10, <2>1 DEF LockSucceeds, Policy!SpendEpisode
  <2>3. QED
    BY <2>2 DEF Policy!PolicyNext
<1>11. CASE LockFails
  <2>1. Policy!GiveUpAsking
    BY <1>11 DEF LockFails, Policy!GiveUpAsking
  <2>2. QED
    BY <2>1 DEF Policy!PolicyNext
<1>12. CASE Report
  BY <1>12, PolicyStutter DEF Report
<1>13. CASE Wake
  BY <1>13, PolicyStutter DEF Wake
<1>14. CASE Tick
  BY <1>14, PolicyStutter DEF Tick
<1>15. CASE \E d \in StallLengths : Stall(d)
  BY <1>15, PolicyStutter DEF Stall
<1>16. CASE \E g \in Age : SetWallClock(g)
  BY <1>16, PolicyStutter DEF SetWallClock
<1>17. CASE Record
  <2>1. Policy!Input
    BY <1>17 DEF Record, Policy!Input
  <2>2. QED
    BY <2>1 DEF Policy!PolicyNext
<1>18. CASE RequestLock
  BY <1>18, PolicyStutter DEF RequestLock
<1>19. CASE RequestExit
  BY <1>19, PolicyStutter DEF RequestExit
<1>20. CASE Interrupt
  <2>1. CASE pc = "lock"
    <3>1. Policy!GiveUpAsking
      BY <1>20, <2>1 DEF Interrupt, Policy!GiveUpAsking
    <3>2. QED
      BY <3>1 DEF Policy!PolicyNext
  <2>2. CASE pc = "resume"
    <3>1. Policy!AbandonGap
      BY <1>20, <2>2 DEF Interrupt, Policy!AbandonGap
    <3>2. QED
      BY <3>1 DEF Policy!PolicyNext
  <2>3. CASE pc \notin {"lock", "resume"}
    BY <1>20, <2>3, PolicyStutter DEF Interrupt
  <2>4. QED
    BY <2>1, <2>2, <2>3
<1>21. CASE UNCHANGED vars
  BY <1>21, PolicyStutter DEF vars
<1>22. QED
  BY <1>1, <1>2, <1>3, <1>4, <1>5, <1>6, <1>7, <1>8, <1>9, <1>10, <1>11, <1>12,
     <1>13, <1>14, <1>15, <1>16, <1>17, <1>18, <1>19, <1>20, <1>21
     DEF Next, ControllerStep, Environment

\* The controller asks the workstation to lock only in an episode that no lock
\* has answered yet, and only newer input or one resume starts another.
THEOREM ImplementsLockPolicy == Spec => OneLockPerEpisode
<1>1. TypeOK /\ CycleInv /\ [Next]_vars => [Policy!PolicyNext]_Policy!policyVars
  BY PolicyStep
<1>2. QED
  BY <1>1, PolicyInitial, TypeCorrect, CycleInvariant, PTL
     DEF Spec, OneLockPerEpisode, Policy!PolicySpec
-----------------------------------------------------------------------------
(* What ExitHonoured rests on: a turn counts down *)

\* So many statements of the controller are left before it looks at the stop
\* event, and one more to leave.
ToCheck ==
  IF pc = "maintain" THEN 12
  ELSE IF pc = "poll" THEN 11
  ELSE IF pc = "resume" THEN 10
  ELSE IF pc = "snapshot" THEN 9
  ELSE IF pc = "clock" THEN 8
  ELSE IF pc = "force" THEN 7
  ELSE IF pc = "clear" THEN 6
  ELSE IF pc = "decide" THEN 5
  ELSE IF pc = "lock" THEN 4
  ELSE IF pc = "report" THEN 3
  ELSE IF pc = "wait" THEN 2
  ELSE IF pc = "loop" THEN 1 ELSE 0

\* Once the stop event is set it stays set, each step of the controller brings
\* the end nearer, and no input, request, suspend or clock change moves it away.
ExitCountsDown ==
  [][stopEvent =>
       /\ stopEvent'
       /\ ToCheck' <= ToCheck /\ (ControllerStep => ToCheck' < ToCheck)]_vars

LEMMA ControllerNears ==
  ASSUME ControllerStep, stopEvent
  PROVE  stopEvent' /\ ToCheck' < ToCheck
<1>1. CASE CheckStop
  BY <1>1 DEF CheckStop, ToCheck
<1>2. CASE PollResume
  BY <1>2 DEF PollResume, ToCheck
<1>3. CASE HandleResume
  BY <1>3 DEF HandleResume, ToCheck
<1>4. CASE TakeSnapshot
  BY <1>4 DEF TakeSnapshot, ToCheck
<1>5. CASE ReadClock
  BY <1>5 DEF ReadClock, ToCheck
<1>6. CASE ReadForce
  BY <1>6 DEF ReadForce, ToCheck
<1>7. CASE ClearForce
  BY <1>7 DEF ClearForce, ToCheck
<1>8. CASE Decide
  BY <1>8 DEF Decide, ToCheck
<1>9. CASE LockSucceeds
  BY <1>9 DEF LockSucceeds, ToCheck
<1>10. CASE LockFails
  BY <1>10 DEF LockFails, ToCheck
<1>11. CASE Report
  BY <1>11 DEF Report, ToCheck
<1>12. CASE Wake
  BY <1>12 DEF Wake, ToCheck
<1>13. CASE \E d \in MaintenanceDelays : Maintain(d)
  BY <1>13 DEF Maintain, ToCheck
<1>14. QED
  BY <1>1, <1>2, <1>3, <1>4, <1>5, <1>6, <1>7, <1>8, <1>9, <1>10, <1>11, <1>12, <1>13 DEF ControllerStep

LEMMA ExitStep ==
  ASSUME [Next]_vars, stopEvent
  PROVE  /\ stopEvent'
         /\ ToCheck' <= ToCheck /\ (ControllerStep => ToCheck' < ToCheck)
<1>t. ToCheck \in Nat /\ ToCheck' \in Nat
  BY DEF ToCheck
<1>1. CASE ControllerStep
  BY <1>t, <1>1, ControllerNears
<1>2. CASE ~ControllerStep /\ Interrupt
  <2>1. ToCheck' = 0 /\ stopEvent'
    BY <1>2 DEF Interrupt, ToCheck
  <2>2. QED
    BY <1>t, <1>2, <2>1
<1>3. CASE ~ControllerStep /\ ~Interrupt
  <2>1. UNCHANGED pc /\ stopEvent'
    BY <1>3 DEF Next, Environment, vars, Tick, Stall, SetWallClock, Record, RequestLock,
           RequestExit
  <2>2. ToCheck' = ToCheck
    BY <2>1 DEF ToCheck
  <2>3. QED
    BY <1>t, <1>3, <2>1, <2>2
<1>4. QED
  BY <1>1, <1>2, <1>3

\* After Exit at most twelve statements of the controller are left, at whichever
\* of them it is caught and whatever the other threads and the clocks do
\* (idle.py:103-151,154-164).
THEOREM ExitCountsDownHolds == Spec => ExitCountsDown
<1>1. [Next]_vars =>
        [stopEvent =>
           /\ stopEvent'
           /\ ToCheck' <= ToCheck /\ (ControllerStep => ToCheck' < ToCheck)]_vars
  BY ExitStep
<1>2. QED
  BY <1>1, PTL DEF Spec, ExitCountsDown
=============================================================================
