------------------------------ MODULE IdleLock ------------------------------
(***************************************************************************)
(* The idle-lock controller: IdleLockController.run and evaluate_once      *)
(* (idle.py), the resume detector it polls (resume.py), the policy         *)
(* function should_lock and the lock adapter it calls (locker.py), against *)
(* the three threads that share state with it: the input hooks (which      *)
(* record activity), the tray (Lock now and Exit) and the clocks.          *)
(*                                                                         *)
(* Time.  The code keeps timestamps and only ever compares one with a      *)
(* fresh clock reading, so a timestamp is represented by its age: a        *)
(* stopwatch, set to 0 when the code stores the current time.  Ages stop   *)
(* at Horizon, which is at least every duration they are compared with.    *)
(***************************************************************************)
EXTENDS Integers

CONSTANTS
  Timeout,            \* security.idle_timeout_seconds
  Gap,                \* ResumeDetector gap_seconds
  Poll,               \* runtime.poll_interval_seconds
  Horizon,            \* where ages saturate
  MaintenanceDelays,  \* how long a supervisor pass may take
  StartupDelays,      \* how long the monitors and the tray take to start
  StallLengths,       \* how long a suspend, or a starved thread, may last
  MaxInputs,          \* bound on recorded input events
  MaxStalls,          \* bound on stalls and wall-clock changes
  None                \* Python's None

ASSUME ConstantsAssumption ==
  /\ Timeout \in Nat \ {0} /\ Gap \in Nat \ {0} /\ Poll \in Nat \ {0}
  /\ Horizon \in Nat
  /\ Horizon >= Timeout /\ Horizon >= Gap /\ Horizon >= Poll
  /\ MaintenanceDelays \subseteq Nat
  /\ StartupDelays \subseteq Nat
  /\ StallLengths \subseteq Nat
  /\ MaxInputs \in Nat /\ MaxStalls \in Nat
  /\ None \notin Int

VARIABLES
  \* ActivityManager, as its callers see it (module ActivityManager)
  sequence, activityAge,
  \* the two Events other threads set
  forceLock, stopEvent,
  \* IdleLockController
  observedSequence, armed, state, baselineAge,
  \* ResumeDetector: the two gaps its next poll will measure
  monoGap, wallGap,
  \* the controller thread: where it is, and its local values
  pc, snapshotAge, idleSeconds, forced, waited,
  \* history, read by no guard of the code
  wakeAge, wakeKind, failure, asked,
  \* environment bound
  stalls

activityVars   == <<sequence, activityAge>>
controllerVars == <<observedSequence, armed, state, baselineAge>>
detectorVars   == <<monoGap, wallGap>>
localVars      == <<snapshotAge, idleSeconds, forced, waited>>
historyVars    == <<wakeAge, wakeKind, failure, asked>>
ageVars        == <<activityAge, baselineAge, monoGap, wallGap, snapshotAge,
                    waited, wakeAge>>
vars == <<activityVars, forceLock, stopEvent, controllerVars, detectorVars,
          pc, localVars, historyVars, stalls>>

Age   == 0 .. Horizon
State == {"active", "locked"}

\* Where the controller thread can be.
ControlPoint == {"loop", "maintain", "poll", "resume", "snapshot", "clock",
                 "force", "clear", "decide", "lock", "report", "wait", "done"}

\* A stall that ends here is followed by a poll of the detector, or by the
\* resume it has already announced, before the next evaluation.
BeforeEvaluation == {"report", "wait", "loop", "maintain", "poll", "resume"}

\* Where a stall of at least Gap caught the controller: before the next
\* evaluation with every input observed ("clean") or with input it has not
\* seen yet ("unseen"), after the poll and before the clock of evaluate_once
\* is read ("stale"), or once the idle time is measured ("decided").
WakeKind == {"clean", "unseen", "stale", "decided"}

KindOfWake ==
  CASE pc \in BeforeEvaluation /\ sequence = observedSequence -> "clean"
    [] pc \in BeforeEvaluation /\ sequence # observedSequence -> "unseen"
    [] pc \in {"snapshot", "clock"}                           -> "stale"
    [] OTHER                                                  -> "decided"

TypeOK ==
  /\ sequence \in Nat /\ activityAge \in Age
  /\ forceLock \in BOOLEAN /\ stopEvent \in BOOLEAN
  /\ observedSequence \in Nat /\ armed \in BOOLEAN /\ state \in State
  /\ baselineAge \in Age \cup {None}
  /\ monoGap \in Age /\ wallGap \in Age
  /\ pc \in ControlPoint
  /\ snapshotAge \in Age /\ idleSeconds \in Age
  /\ forced \in BOOLEAN /\ waited \in Age
  /\ wakeAge \in Age /\ wakeKind \in WakeKind
  /\ failure \in {"none", "timeout", "request"} /\ asked \in BOOLEAN
  /\ stalls \in 0 .. MaxStalls

-----------------------------------------------------------------------------
(* Time *)

Aged(age, d) == IF age + d < Horizon THEN age + d ELSE Horizon

Elapse(d) ==
  /\ activityAge' = Aged(activityAge, d)
  /\ baselineAge' = IF baselineAge = None THEN None ELSE Aged(baselineAge, d)
  /\ monoGap' = Aged(monoGap, d)
  /\ wallGap' = Aged(wallGap, d)
  /\ snapshotAge' = Aged(snapshotAge, d)
  /\ waited' = IF pc = "wait" THEN Aged(waited, d) ELSE waited

\* Normal operation spends its time in stop_event.wait(poll_interval).
Tick ==
  /\ pc = "wait" /\ waited < Poll
  /\ Elapse(1)
  /\ wakeAge' = Aged(wakeAge, 1)
  /\ UNCHANGED <<sequence, forceLock, stopEvent, observedSequence, armed, state,
                 pc, idleSeconds, forced, wakeKind, failure, asked,
                 stalls>>

\* The machine suspends, or the controller thread is starved, at any point.
\* A stall of at least Gap is one the detector is meant to see.
Stall(d) ==
  /\ pc # "done" /\ stalls < MaxStalls
  /\ stalls' = stalls + 1
  /\ Elapse(d)
  /\ wakeAge' = IF d >= Gap THEN 0 ELSE Aged(wakeAge, d)
  /\ wakeKind' = IF d >= Gap THEN KindOfWake ELSE wakeKind
  /\ UNCHANGED <<sequence, forceLock, stopEvent, observedSequence, armed, state,
                 pc, idleSeconds, forced, failure, asked>>

\* The wall clock is set, or runs on while a suspend freezes the monotonic
\* clock.  A difference the detector would clamp to 0 is represented by 0;
\* from then on wallGap is at most monoGap, so GapSeen is the code's answer.
SetWallClock(g) ==
  /\ pc # "done" /\ stalls < MaxStalls
  /\ stalls' = stalls + 1
  /\ wallGap' = g
  /\ UNCHANGED <<activityVars, forceLock, stopEvent, controllerVars, monoGap,
                 pc, localVars, historyVars>>

-----------------------------------------------------------------------------
(* The other threads *)

\* ActivityManager.record, called by a hook thread.
Record ==
  /\ sequence < MaxInputs
  /\ sequence' = sequence + 1
  /\ activityAge' = 0
  /\ UNCHANGED <<forceLock, stopEvent, controllerVars, detectorVars, pc,
                 localVars, historyVars, stalls>>

\* Lock now, on the tray thread.  asked remembers a request made of a
\* controller that has not locked the session.
RequestLock ==
  /\ forceLock' = TRUE
  /\ asked' = (asked \/ armed)
  /\ UNCHANGED <<activityVars, stopEvent, controllerVars, detectorVars, pc,
                 localVars, wakeAge, wakeKind, failure, stalls>>

\* Exit, on the tray thread.
RequestExit ==
  /\ stopEvent' = TRUE
  /\ UNCHANGED <<activityVars, forceLock, controllerVars, detectorVars, pc,
                 localVars, historyVars, stalls>>

\* Ctrl-C raises KeyboardInterrupt in the controller thread; no
\* "except Exception" of the loop catches it, so it leaves run.
Interrupt ==
  /\ pc # "done"
  /\ pc' = "done"
  /\ UNCHANGED <<activityVars, forceLock, stopEvent, controllerVars,
                 detectorVars, localVars, historyVars, stalls>>

-----------------------------------------------------------------------------
(* One turn of IdleLockController.run *)

CheckStopIgnored ==     \* mutant: while True
  /\ pc = "loop"
  /\ pc' = "maintain"
  /\ UNCHANGED <<activityVars, forceLock, stopEvent, controllerVars,
                 detectorVars, localVars, historyVars, stalls>>

CheckStop ==
  /\ pc = "loop"
  /\ pc' = IF stopEvent THEN "done" ELSE "maintain"
  /\ UNCHANGED <<activityVars, forceLock, stopEvent, controllerVars,
                 detectorVars, localVars, historyVars, stalls>>

\* The maintenance callback; what it raises is caught, so only its
\* duration reaches the controller.
Maintain(d) ==
  /\ pc = "maintain"
  /\ pc' = "poll"
  /\ Elapse(d)
  /\ wakeAge' = Aged(wakeAge, d)
  /\ UNCHANGED <<sequence, forceLock, stopEvent, observedSequence, armed, state,
                 idleSeconds, forced, wakeKind, failure, asked,
                 stalls>>

GapSeenStrictly == monoGap > Gap \/ wallGap > Gap       \* mutant: > for >=

\* max(monotonic_gap, wall_gap) >= gap_seconds
GapSeen == monoGap >= Gap \/ wallGap >= Gap

\* ResumeDetector.poll
PollResume ==
  /\ pc = "poll"
  /\ pc' = IF GapSeen THEN "resume" ELSE "snapshot"
  /\ monoGap' = 0 /\ wallGap' = 0
  /\ UNCHANGED <<activityVars, forceLock, stopEvent, controllerVars, localVars,
                 historyVars, stalls>>

\* handle_resume; the resume observer that follows it cannot fail the loop.
HandleResume ==
  /\ pc = "resume"
  /\ pc' = "snapshot"
  /\ baselineAge' = 0
  /\ armed' = TRUE
  /\ state' = "active"
  /\ forceLock' = FALSE
  /\ failure' = "none" /\ asked' = FALSE
  /\ UNCHANGED <<activityVars, stopEvent, observedSequence, detectorVars,
                 localVars, wakeAge, wakeKind, stalls>>

-----------------------------------------------------------------------------
(* IdleLockController.evaluate_once *)

TakeSnapshotOfArmed ==    \* mutant: input is looked at only while armed
  /\ pc = "snapshot"
  /\ pc' = "clock"
  /\ snapshotAge' = activityAge
  /\ IF armed /\ sequence # observedSequence
     THEN /\ observedSequence' = sequence
          /\ armed' = TRUE /\ state' = "active"
          /\ baselineAge' = None /\ failure' = "none"
     ELSE UNCHANGED <<controllerVars, failure>>
  /\ UNCHANGED <<activityVars, forceLock, stopEvent, detectorVars, idleSeconds,
                 forced, waited, wakeAge, wakeKind, asked, stalls>>

\* snapshot(), and the synchronisation with the sequence it carries.
TakeSnapshot ==
  /\ pc = "snapshot"
  /\ pc' = "clock"
  /\ snapshotAge' = activityAge
  /\ observedSequence' = sequence
  /\ IF sequence # observedSequence
     THEN /\ armed' = TRUE /\ state' = "active"
          /\ baselineAge' = None /\ failure' = "none"
     ELSE UNCHANGED <<armed, state, baselineAge, failure>>
  /\ UNCHANGED <<activityVars, forceLock, stopEvent, detectorVars, idleSeconds,
                 forced, waited, wakeAge, wakeKind, asked, stalls>>

SnapshotIdle == snapshotAge     \* mutant: the resume baseline is ignored

\* The idle time of the snapshot, capped by the time since the last resume.
EffectiveIdle ==
  IF baselineAge # None /\ baselineAge < snapshotAge
  THEN baselineAge ELSE snapshotAge

ReadClock ==
  /\ pc = "clock"
  /\ pc' = "force"
  /\ idleSeconds' = EffectiveIdle
  /\ UNCHANGED <<activityVars, forceLock, stopEvent, controllerVars, detectorVars,
                 snapshotAge, forced, waited, historyVars, stalls>>

ReadForceAndClear ==     \* mutant: the flag is cleared whatever was read
  /\ pc = "force"
  /\ forced' = forceLock
  /\ pc' = "clear"
  /\ UNCHANGED <<activityVars, forceLock, stopEvent, controllerVars, detectorVars,
                 snapshotAge, idleSeconds, waited, historyVars, stalls>>

ReadForce ==
  /\ pc = "force"
  /\ forced' = forceLock
  /\ pc' = IF forceLock THEN "clear" ELSE "decide"
  /\ UNCHANGED <<activityVars, forceLock, stopEvent, controllerVars, detectorVars,
                 snapshotAge, idleSeconds, waited, historyVars, stalls>>

ClearForce ==
  /\ pc = "clear"
  /\ pc' = "decide"
  /\ forceLock' = FALSE
  /\ UNCHANGED <<activityVars, stopEvent, controllerVars, detectorVars, localVars,
                 historyVars, stalls>>

ShouldLockEarly == idleSeconds + 1 >= Timeout   \* mutant: one unit early

\* should_lock
ShouldLock == idleSeconds >= Timeout

DecideUnarmed ==     \* mutant: the armed test is forgotten
  /\ pc = "decide"
  /\ pc' = IF forced \/ ShouldLock THEN "lock" ELSE "report"
  /\ asked' = IF forced /\ pc' = "lock" THEN forceLock ELSE asked
  /\ UNCHANGED <<activityVars, forceLock, stopEvent, controllerVars, detectorVars,
                 localVars, wakeAge, wakeKind, failure, stalls>>

\* A request is taken up when the adapter is about to be called for it; one
\* made since clear() is asked again by the next evaluation.
Decide ==
  /\ pc = "decide"
  /\ pc' = IF armed /\ (forced \/ ShouldLock) THEN "lock" ELSE "report"
  /\ asked' = IF forced /\ pc' = "lock" THEN forceLock ELSE asked
  /\ UNCHANGED <<activityVars, forceLock, stopEvent, controllerVars, detectorVars,
                 localVars, wakeAge, wakeKind, failure, stalls>>

\* LockWorkStation returns nonzero, or the dry-run locker returns.
LockSucceeds ==
  /\ pc = "lock"
  /\ pc' = "report"
  /\ armed' = FALSE
  /\ state' = "locked"
  /\ failure' = "none" /\ asked' = FALSE
  /\ UNCHANGED <<activityVars, forceLock, stopEvent, observedSequence, baselineAge,
                 detectorVars, localVars, wakeAge, wakeKind, stalls>>

LockFailsDisarming ==    \* mutant: a failed request also spends the episode
  /\ pc = "lock"
  /\ pc' = "report"
  /\ armed' = FALSE
  /\ failure' = IF ShouldLock THEN "timeout" ELSE "request"
  /\ UNCHANGED <<activityVars, forceLock, stopEvent, observedSequence, state,
                 baselineAge, detectorVars, localVars, wakeAge, wakeKind, asked,
                 stalls>>

\* WorkstationLockError: logged; nothing else changes.  failure remembers
\* whether the timeout called for this lock or only a Lock now request.
LockFails ==
  /\ pc = "lock"
  /\ pc' = "report"
  /\ failure' = IF ShouldLock THEN "timeout" ELSE "request"
  /\ UNCHANGED <<activityVars, forceLock, stopEvent, controllerVars, detectorVars,
                 localVars, wakeAge, wakeKind, asked, stalls>>

\* evaluate_once returns, its locals are gone; what the evaluation observer
\* raises is caught.
Report ==
  /\ pc = "report"
  /\ pc' = "wait"
  /\ idleSeconds' = 0 /\ forced' = FALSE
  /\ UNCHANGED <<activityVars, forceLock, stopEvent, controllerVars, detectorVars,
                 snapshotAge, waited, historyVars, stalls>>

\* stop_event.wait returns: it was set, or the interval is over.
Wake ==
  /\ pc = "wait"
  /\ stopEvent \/ waited >= Poll
  /\ pc' = "loop"
  /\ waited' = 0
  /\ UNCHANGED <<activityVars, forceLock, stopEvent, controllerVars, detectorVars,
                 snapshotAge, idleSeconds, forced, historyVars, stalls>>

-----------------------------------------------------------------------------
\* The runtime is built, then the monitors and the tray start, then run is
\* called: d is the time the start took.
Init ==
  /\ sequence = 0 /\ observedSequence = 0
  /\ \E d \in StartupDelays :
        /\ activityAge = Aged(0, d) /\ snapshotAge = Aged(0, d)
        /\ monoGap = Aged(0, d) /\ wallGap = Aged(0, d)
  /\ forceLock = FALSE /\ stopEvent = FALSE
  /\ armed = TRUE /\ state = "active" /\ baselineAge = None
  /\ pc = "loop"
  /\ idleSeconds = 0 /\ forced = FALSE /\ waited = 0
  /\ wakeAge = Horizon /\ wakeKind = "clean" /\ failure = "none"
  /\ asked = FALSE
  /\ stalls = 0

ControllerStep ==
  \/ CheckStop
  \/ \E d \in MaintenanceDelays : Maintain(d)
  \/ PollResume
  \/ HandleResume
  \/ TakeSnapshot
  \/ ReadClock
  \/ ReadForce
  \/ ClearForce
  \/ Decide
  \/ LockSucceeds
  \/ LockFails
  \/ Report
  \/ Wake

Environment ==
  \/ Tick
  \/ \E d \in StallLengths : Stall(d)
  \/ \E g \in Age : SetWallClock(g)
  \/ Record
  \/ RequestLock
  \/ RequestExit
  \/ Interrupt

Next == ControllerStep \/ Environment

Spec == Init /\ [][Next]_vars

\* The controller thread is scheduled, time passes while it waits, and a lock
\* request that is repeated for ever is not refused for ever.
Fairness ==
  /\ WF_vars(ControllerStep)
  /\ WF_vars(Tick)
  /\ SF_vars(LockSucceeds)

FairSpec == Spec /\ Fairness

-----------------------------------------------------------------------------
(* Safety *)

Measured == {"force", "clear", "decide", "lock"}

\* What one evaluation knows: the measured idle time is a lower bound on the
\* age of the input it was measured from and on the time since the last
\* resume, and the snapshot is the latest input unless a newer one exists.
CycleInv ==
  /\ observedSequence <= sequence
  /\ state = "locked" <=> ~armed
  /\ pc \in Measured => /\ idleSeconds <= snapshotAge
                        /\ baselineAge # None => idleSeconds <= baselineAge
  /\ (pc \in Measured \cup {"clock"}) /\ sequence = observedSequence
        => snapshotAge = activityAge
  /\ pc = "lock" => armed /\ (forced \/ ShouldLock)

\* The workstation is locked for inactivity only if the newest input the
\* controller has observed is at least Timeout old, and so is the last resume:
\* whatever threads, stalls and resumes come between reading the snapshot,
\* the clock, the request flag and calling the adapter (idle.py:105-124).
NoPrematureLock ==
  pc = "lock" /\ ~forced /\ sequence = observedSequence =>
    /\ activityAge >= Timeout
    /\ baselineAge # None => baselineAge >= Timeout

\* If the controller had observed all input when the machine suspended, and
\* the suspend fell between two evaluations, then no inactivity lock happens
\* earlier than Timeout after the wake: the baseline of handle_resume, or input
\* newer than the wake, holds it off (resume.py:17-19, idle.py:96,110,114-115).
CoveredResumeGrace ==
  pc = "lock" /\ ~forced /\ wakeKind = "clean" => wakeAge >= Timeout

\* CoveredResumeGrace, made inductive.  After a clean wake the gap is still to
\* be polled, or was just polled, or its baseline stands, or the newest input
\* and the current snapshot are both newer than the wake.
ResumeInv ==
  wakeKind = "clean" =>
    /\ sequence # observedSequence => activityAge <= wakeAge
    /\ \/ pc \in BeforeEvaluation \ {"resume"} /\ monoGap >= Gap
       \/ pc \in {"resume", "done"}
       \/ baselineAge # None /\ baselineAge <= wakeAge
       \/ activityAge <= wakeAge /\ snapshotAge <= wakeAge

\* resume.py:17-19 and ARCHITECTURE.md:131-133 promise the same of every
\* suspend.  Input recorded after the last snapshot and before the suspend
\* breaks it: it is seen after the resume and discards the baseline.
UnseenInputResumeGrace ==
  pc = "lock" /\ ~forced /\ wakeKind = "unseen" => wakeAge >= Timeout

\* The same promise for a suspend, or a starved controller, between the poll
\* of the detector (idle.py:154) and the clock read of evaluate_once (112).
MidCycleResumeGrace ==
  pc = "lock" /\ ~forced /\ wakeKind = "stale" => wakeAge >= Timeout

\* CONFIGURATION.md:14-15: the timeout runs from the latest input event.
\* Input may be recorded between the snapshot and the call of the adapter.
FreshInputDefersLock ==
  pc = "lock" /\ ~forced => activityAge >= Timeout

\* A Lock now made while the controller is armed is not lost between is_set()
\* and clear(), nor in an evaluation that decides otherwise: the flag is still
\* set, or the evaluation that cleared it holds the request and will call the
\* adapter for it, until the adapter has been called, the session is locked,
\* or a resume discards the request (idle.py:96-99,117-122).  A request made
\* while unarmed is read, cleared and ignored; one that the adapter refuses is
\* not repeated (RequestFailureRetried).
RequestKept ==
  asked /\ pc # "done" => armed /\ (forceLock \/ (forced /\ pc = "decide"))

-----------------------------------------------------------------------------
(* What a step may never do *)

\* After the adapter refuses a lock that the timeout called for, every later
\* evaluation asks again, until it succeeds, input arrives or a resume is seen
\* (ARCHITECTURE.md:7; idle.py:125-128 leaves the controller armed).
TimeoutFailureRetried ==
  [][pc = "decide" /\ failure = "timeout" => pc' # "report"]_vars

\* TimeoutFailureRetried, made inductive: while a refused inactivity lock is
\* outstanding, everything the next decision reads still calls for the lock.
RetryInv ==
  failure = "timeout" =>
    /\ armed
    /\ baselineAge # None => baselineAge >= Timeout
    /\ sequence = observedSequence => activityAge >= Timeout
    /\ pc = "clock" => snapshotAge >= Timeout
    /\ pc \in Measured => ShouldLock

\* What the controller keeps from every step to the next, whatever hooks, tray,
\* suspends and clocks do in between: the inductive invariant behind the rest.
ControllerInv == TypeOK /\ CycleInv /\ ResumeInv /\ RetryInv

\* ARCHITECTURE.md:7 and SECURITY.md:44 say that failed lock requests are
\* retried; a failed Lock now was cleared before the adapter was called.
RequestFailureRetried ==
  [][pc = "decide" /\ failure = "request" => pc' # "report"]_vars

\* One successful lock per idle episode; only newer input or one observed
\* resume starts another (the class's promise, idle.py:47).
Policy == INSTANCE LockPolicy WITH
            inputs <- sequence,
            spent <- IF armed THEN None ELSE observedSequence,
            asking <- (pc = "lock"),
            discontinuity <- (pc = "resume")

OneLockPerEpisode == Policy!PolicySpec

-----------------------------------------------------------------------------
(* Liveness, under FairSpec *)

\* An unattended workstation is eventually locked: failed requests, resumes
\* and clock changes only delay it.
UnattendedLocks == state = "active" ~> state = "locked" \/ pc = "done"

\* Input after a lock is noticed and starts a new episode.
LockedSessionRearms ==
  state = "locked" /\ sequence # observedSequence ~> state = "active" \/ pc = "done"

\* Exit ends the loop whatever the locker and the monitors do.
ExitHonoured == stopEvent ~> pc = "done"
=============================================================================
