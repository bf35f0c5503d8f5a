# Sentinel Lock in TLA+

Sentinel Lock watches keyboard and mouse and locks a Windows workstation that
nobody uses. The program is small, but four kinds of thread share its state,
clocks jump when the machine sleeps, hooks die and are replaced, and the
documents make promises about all of it. This directory models those parts and
what surrounds them, from the configuration file to the startup entry, checks
them with TLC, and proves the safety properties with TLAPS.

Paths below are relative to the repository; `idle.py` and the like live in
`src/sentinel_lock/`.

## 1. The system

| Component | State | Operations | Talks to |
|---|---|---|---|
| Idle-lock controller, `idle.py` | `_observed_sequence`, `_armed`, `_state`, `_resume_baseline`, `_force_lock` | `run`, `evaluate_once`, `handle_resume`, `request_lock` | reads the activity manager; calls locker, resume detector, supervisor, UI observers |
| Resume detector, `resume.py` | last monotonic and wall time | `poll` | called once per turn by the controller |
| Locker, `locker.py` | none | `lock` | Windows; may raise |
| Activity manager, `activity.py` | last activity time, wall time, kind, sequence | `record`, `snapshot`, `idle_seconds` | hook threads write, the controller reads |
| Keyboard and mouse monitor, `monitors/` | current listener; movement filter | `start`, `stop`, `join`, `is_alive`, `restart`, callbacks | own a hook listener, record activity |
| Hook listener, `win32_input.py` | thread, hook, thread id, ready/stopping events, start error | `start`, `stop`, `join`, `is_alive`, hook thread | Windows hooks and message queue |
| Supervisor, `reliability.py` | none | `poll` | probes and restarts monitors, on the controller thread |
| Tray, `win32_tray.py` | window, ready event, start error | `start`, `stop`, `join`, `update_tip`, `notify`, tray thread, menu | Windows shell; calls back Lock now and Exit |
| Runtime UI, `runtime_ui.py` | status snapshot, backend | `start`, `observe`, `note_resume`, `stop` | between controller and tray |
| Application, `app.py` | started monitors | `run` | starts and stops everything |
| Configuration, `config.py` | none; a file and two overrides | `load_config`, `apply_overrides` | read by the command line |
| Command line, `cli.py` | arguments | `main` | configuration, startup entry, logging, application |
| Startup entry, `startup.py` | a value under the Run key | `install_startup`, `remove_startup`, `startup_command` | the registry, other processes, sign-in |
| Logging, `logging_setup.py` | a log file | `configure_logging` | the working directory |

Threads: the **main** thread runs the controller loop, and in it the detector,
the supervisor (which restarts hooks and waits for them), the locker and the
UI observers. Each **hook** thread delivers callbacks that record activity.
The **tray** thread runs the menu, and sets the request and the stop event.
**Windows** suspends the machine, refuses hooks, drops loops, queues messages.

What is hard here, and what makes each part correct:

- *Controller*: input, requests, suspends and stalls between any two statements
  of a turn. No lock before the timeout, or within the timeout of a wake; one
  lock per idle episode; refused locks retried; requests not lost; an
  unattended workstation is locked in the end.
- *Activity manager*: torn snapshots and lost counts. It must look atomic.
- *Movement filter*: the clock is read outside the filter's lock. Isolated
  movement is not activity, sustained movement is, often enough and not too often.
- *Hooks*: start, death, recovery and shutdown of two kinds of thread, with bounded
  waits that may expire. Honest health, no double recording, no hook left behind,
  every stopped thread ends, every dead hook is replaced.
- *Tray*: the same for a window thread whose start may time out; the
  status it shows is the controller's; Exit works.
- *Application*: starts that fail half-way, one monitor that never recovers,
  starts that time out and leave a thread behind, Ctrl+C anywhere, threads that hang
  at shutdown. Whatever was started is told to stop, one bad monitor holds up nobody,
  the shutdown ends.
- *Configuration*: six keys, two overrides with limits of their own, `bool` that
  is an `int`, `nan`, exceptions of many kinds. What is accepted is what is
  documented, and suits the controller; a file that parses fails cleanly.
- *Startup entry*: several processes and Windows itself act on one registry value;
  what was validated must be what runs at sign-in.

## 2. Modules

| Module | Models | Kind |
|---|---|---|
| `LockPolicy` | what the controller promises: at most one lock per episode | abstract specification |
| `IdleLock` | controller, detector, locker against hooks, tray and clocks | core |
| `ActivityLog` | an activity log whose events are atomic | abstract specification |
| `ActivityManager` | `activity.py`, a statement at a time | component |
| `MouseMonitor` | movement filter and mouse callbacks | component |
| `MonitorContract` | what an input monitor and its users promise each other | abstract specification |
| `HookMonitor` | a monitor, its listeners, supervisor, start and shutdown | composition |
| `TrayRuntime` | tray thread, status, and the controller as the tray sees it | composition |
| `AppLifecycle` | `run` and the supervisor's pass over several monitors and the tray | composition |
| `Config` | `load_config`, `apply_overrides`, the derived gap | operators |
| `Launch` | `main`, the startup entry, sign-in, log file and locker, by several processes | composition, extends `Config` |
| `*_proofs` | theorems about `IdleLock`, `ActivityManager`, `MouseMonitor`, `HookMonitor`, `TrayRuntime`, `AppLifecycle`, `Config`, `Launch` | proofs |
| `MC*` | the instances TLC checks; `MCConfig` also holds the reference definition of a valid configuration | model checking |

How they fit together: `AppLifecycle` has the monitors, the tray and the turns
of the controller as single steps. `HookMonitor` refines one monitor down to
its threads: both implement `MonitorContract`, so the steps that `AppLifecycle`
takes with a monitor are those that `HookMonitor` derives from threads and hooks; `TrayRuntime` refines the tray, `IdleLock` the turn. `IdleLock` reads the
activity log one snapshot at a time, which `ActivityManager` justifies by
refining `ActivityLog`. `Config` provides what `IdleLock` assumes of its
constants, and `Launch` what happens before and after the application lives.

### IdleLock

`pc` is the place of the controller thread. The names follow a turn of `run`:
`loop` (`CheckStop`), `maintain` (`Maintain`), `poll` (`PollResume`), `resume`
(`HandleResume`), then `evaluate_once` as `snapshot` (`TakeSnapshot`), `clock`
(`ReadClock`), `force` (`ReadForce`), `clear` (`ClearForce`), `decide`
(`Decide`), `lock` (`LockSucceeds`, `LockFails`), then `report` (`Report`) and
`wait` (`Wake`). A step is what runs between two reads or writes of something
another thread, or a clock, can change.

**Time.** The code stores timestamps and only compares them with a fresh
reading, so a timestamp is represented by its age, a stopwatch that starts at 0
when the code stores the time. `Elapse` moves all of them. Ages saturate at
`Horizon`, which is at least every duration they are compared with, so
saturation changes no comparison. `Tick` lets time pass in the wait, `Stall`
anywhere (a suspend or a starved thread), `Maintain` as long as a supervisor
pass takes. `SetWallClock` gives the wall-clock gap any value; the detector
measures `max(monotonic, wall)`. Where the monotonic clock stands still in a
suspend only the wall gap moves, which `SetWallClock` covers too.

`wakeAge`, `wakeKind`, `failure` and `asked` are history. They record the last
stall the detector is meant to see, where it caught the controller, whether a
refused lock is outstanding, and whether a Lock now is that was made while the
controller was armed. No guard reads them.

A Lock now of an unarmed controller (the session is locked) is read, cleared and
ignored (`idle.py:117-122`), a resume discards one (`idle.py:99`), and one that
the adapter refuses is not repeated. `RequestKept` says that these are all the
ways to lose a request, not that there are none.

### ActivityManager, MouseMonitor

`ActivityManager` has one process per calling thread; `thr[t]` is its place,
its locals and its last results, `view` the four fields. `Acquire` takes the
lock, and each field is written by its own action. A clock may go backwards or
raise. `published` is history. The refinement maps the log to the state as of
the last completed record: `record` takes effect atomically.

`MouseMonitor` separates the clock reading (`Move`) from the part under the
lock (`FilterMove`), and lets several hook threads deliver: the hook being
replaced and its replacement. `taken` and `refreshedAt` are history. The message
dispatch of the listener decides between movement, click and nothing. That
dispatch (`Callback`) and the result of `idle_seconds`, which no other component
calls, are modelled for completeness; no property is about them.

### HookMonitor

Listeners are numbered in the order of creation. `lsn[l]` is the state of one:
the place of its hook thread (`at`), the flags of the Python object (`id`,
`hook`, `ready`, `stopping`, `failed`) and what Windows knows (`installed`,
`hooked`, `lost`, `quit`). `main` is the place of the main thread and the
listener it works on; the same steps serve the first start and a restart, told
apart by `booting`. Windows installs, refuses, and silently removes hooks,
queues WM_QUIT for a thread that has a queue, and delivers a press to every
installed hook whose thread pumps messages. Waits with a timeout end early only
as faults, and Ctrl+C may strike between any two steps. `upset` records what
went wrong for good: a start given up, a join that expired, an interrupt.

### TrayRuntime

`tray` is the backend and its thread, `win` what Windows keeps for it, `ui` and
`status` the runtime experience, `main` the main thread. The controller is
reduced to what the UI sees of it: a turn may resume, may see new input, may
lock. `abandoned` records waits that were given up or cut short while the tray
thread was not over; `seen` counts locks, resumes and balloons.

The code ignores what `Shell_NotifyIconW` returns, except when the icon is
added. So `SetTip` has an outcome in which the update is refused; it is a fault
while the window lives and may happen freely once the window is destroyed. `win.stale` records
that the last update was lost, and the next one that succeeds clears it. `RemoveIcon` makes
the icon "withdrawn": its removal was asked for. Whether Windows removed it is
not known to the code, and not assumed: on an orderly stop the window that the call
names is destroyed already. A tray thread whose loop fails keeps an error, or keeps
none, when `GetMessageW` returned -1 (`win32_tray.py:238`).

### AppLifecycle

`main` is the place of the main thread and the monitor it is at. What a monitor
knows of its listener (`mon`) is none, alive, dead or told to stop. A start or a
restart that fails may have timed out, or been interrupted, with the thread still coming
up; the monitor is then in `orphans`, since a listener that nobody knows runs or
will run, and goes on as one without a listener. The tray is the same: it runs,
is told to stop, or is an orphan whose start timed out. Any listener, orphan or tray
ends at any time. The pass of the supervisor with its `RecoveryReport` is
one step per monitor. The finally block stops the tray it knows (its join may expire),
then every monitor, then joins every monitor, in reverse order. `cut` records that
an interrupt fell between a start and the list, or into the cleanup.

### Config, Launch

`Config` has no state. A TOML value is its type and a number in tenths or a
text; a reader returns "ok" or the name of the exception, and the first to raise
counts (`Then`). A file that is no TOML is the kind of its failure: `Raises` says
what `open` and `tomllib` raise for each of six kinds (missing, unreadable,
malformed, in another encoding, nested too deep, a decimal with too many
digits), `Caught` is what `load_config` catches, and the other three end `main`
with a traceback. `MCConfig` makes one state per input and compares the outcome
with `DocumentedFile`, written from the table in `docs/CONFIGURATION.md`. Ranges
and type tests are its own; the names of keys and levels it takes from
`Config` (`AllowedKeys`, `UpperOf`, `Levels`), so a wrong name there would go unnoticed.

In `Launch` each process is a place in `main` with its arguments and directory.
Every call of the registry is a step and may be refused. `SignIn` is Windows
starting the registered command in a directory of its own. `origin` is history: the
file that the process which registered the command had read, and the configuration it
had made of it. The log may fail to open, because its directory may not be written
(2) or because its path has a NUL, which the validation lets through (`NulLogs`, a
traceback). Codes 0, 1 and 2 are the exit codes of `main`, 1 also for a
traceback.

## 3. Runs

| Run | Question | Bounds |
|---|---|---|
| `idle` | All safety properties of the controller, that it implements `LockPolicy`, and its liveness | timeout 5, gap 3, poll 1; 2 inputs, 1 stall of 1 or 3, supervisor passes of 0 or 1, start-up of 0 or 3 |
| `activity` | Is the manager atomic, statement by statement | two threads, 3 calls, a clock of 2 values that may go backwards or raise |
| `mouse` | The filter's three promises | two hook threads, window 1, refresh 2, clock up to 5 |
| `hook_recovery` | Start, failure, recovery, interruption and shutdown | 3 faults, hence 4 listeners; 2 presses |
| `tray` | Tray against controller turns | 2 faults, 3 inputs/resumes/locks, 1 menu |
| `lifecycle` | Start, supervision and cleanup of several monitors | 3 monitors: one recovers, one never does, one cannot be probed; 2 interrupts |
| `config` | Is exactly what is documented accepted | 12320 inputs: six kinds of unusable file, or at most two sections with one value each, on, below and above every limit |
| `launch` | Startup entry against processes, sign-ins and edits | 2 processes, 3 starts, 1 edit, 2 directories, 3 files (valid, not UTF-8, a log with NUL), 7 commands |
| `idle_unseen_input`, `idle_slow_recovery`, `hook_orphan`, `launch_relative_config` | Promises of the documents that the code does not keep; see 5 | as small as the case allows |

Why the bounds are enough. The controller's comparisons need an age below, at
and above the timeout and the gap; `idle` has the timeout above the gap, as shipped
(300 s and 10 s). A timeout below the gap (allowed: 5 s and 10 s) is in the
instance of `idle_slow_recovery`, and safety is proved for both orders. Two
inputs allow one before and one after a wake or a lock. In `hook_recovery`
three faults allow a failed restart after a dead loop and an expired wait. In
`lifecycle` the middle monitor is the one the supervisor passes over, so the index of
the loop and the counts differ. In `tray` one menu is enough, because after it the
tray is back where it was, and what a second one could choose is what the first
could have chosen then. In `launch` three starts allow an install, a
removal and a sign-in, in any interleaving of two; processes are symmetric, and no
property of that run is temporal. What these bounds cut off is settled by the
proofs, which have none of them.

Deadlock checking is off where the system may stop: the runtime ends after
Exit, and the environment's inputs are bounded. It is left on in `activity` and
`mouse`, where the clock and the restarts never stop; it shows nothing there.

### Properties

- `NoPrematureLock`: what an evaluation measured is still a reason to lock when
  it locks. `CoveredResumeGrace`: after a suspend between two evaluations, with
  all input observed, the timeout starts again. `ControllerInv` is the inductive
  invariant both follow from; TLC checks it before it is proved.
- `OneLockPerEpisode`: `IdleLock` implements `LockPolicy`. A lock spends the
  sequence number it was decided on; only newer input or one observed resume
  makes another lock possible.
- `TimeoutFailureRetried`: no retry is lost. `RequestKept`: a Lock now made of an
  armed controller is held by the flag, or by the evaluation that cleared it and
  will act on it, until the adapter is called, the session is locked or a resume
  discards it.
- `UnattendedLocks`, `LockedSessionRearms`, `ExitHonoured`: liveness.
- `SnapshotConsistent`, `RecordReturnsOwnEvent`, `RecordsAreAtomic`: the
  activity manager.
- `IsolatedMovementIgnored`, `SustainedMovementRefreshes`,
  `RefreshesAreSpaced`: the filter. The last holds for two hook threads, the
  old one and its replacement. With a third (see finding 3 for how one appears)
  two readings from before a refresh could confirm each other, and the spacing would
  be lost.
- `AliveMeansInstalled`, `StartedMeansHooked`, `NoDuplicateRecords`,
  `ShutdownUnhooks`, `StopEndsThread`, `HookRecovers`: the hooks.
- `StatusHonest`, `NoFalseBalloon`, `IconNeverForgotten`, `StartSettles`,
  `ExitEndsRuntime`, `StopEndsTray`: the tray. `StatusHonest` claims the tip of every
  turn whose own update was not refused, whatever failed earlier.
  `IconNeverForgotten` claims what the code can do, that the removal was asked for on every
  path, also by a thread whose start had been given up.
- `StartedIsStopped`, `ReportAddsUp`, `OthersRecover`,
  `EvaluationReached`, `ShutdownEnds`: the application. `StartedIsStopped` claims what
  the cleanup can do: an orphan (finding 3) goes on listening, and a thread may hang.
- `AcceptsDocumented`, `OverrideIsFileValue`, `AcceptedIsUsable`,
  `ParsedFailsCleanly`: the configuration. The last says that a file that parses is
  accepted or ends in a `ConfigError`, with one exception, an integer too large for
  `float` under one of two keys.
- `RegisteredIsValid` (`main` accepts the registered command with the file its
  installer had read, and makes the same configuration of it), `DryRunStaysDry`, `SignInSameConfig`, `RemovalsAddUp`:
  the startup entry.

The type invariants (`TypeOK`) are not run: for `IdleLock`, `ActivityManager`,
`MouseMonitor`, `HookMonitor`, `TrayRuntime` and `AppLifecycle` they are proved;
for `Launch` the
stronger `TypeInv` of `Launch_proofs` is.

### Fairness

- *Controller*: weak fairness of its thread (the operating system schedules
  it, no step of it waits for anything but time) and of `Tick`. Strong fairness of
  `LockSucceeds`: an adapter that is asked again and again succeeds at some
  time. Without it no locker can be shown to lock. Input, requests, stalls and
  clock changes are never forced.
- *Hooks*, *tray*: weak fairness of the main thread and of every hook or
  tray thread. Failures, expired waits, interrupts, shutdown and the user's choices
  are never forced. Windows ends the menu of a destroyed window.
- *Application*: weak fairness of the main thread, strong fairness of the
  successful restart of the monitors named reliable: a hook that is started again
  and again comes up. The other monitors may fail for ever, and a stopped
  thread need never end.

## 4. Proofs

The theorems hold for every value of the constants: any durations, number of
inputs, stalls, threads, listeners, faults, monitors, processes, files and commands. They
use the named `ASSUME` of each module and nothing else.

| Module | Theorems | From |
|---|---|---|
| `IdleLock_proofs` | `TypeCorrect`, `CycleInvariant`, `ResumeInvariant`, `RetryInvariant`, `ControllerInvHolds`, `NoPrematureLockHolds`, `CoveredResumeGraceHolds`, `TimeoutFailureRetriedHolds`, `RequestKeptHolds`, `ImplementsLockPolicy`, `ExitCountsDownHolds` | durations are positive, `Horizon` is not below them |
| `ActivityManager_proofs` | `TypeCorrect`, `SnapshotConsistentHolds`, `RecordReturnsOwnEventHolds`, `ImplementsActivityLog`, `SequenceIdentifiesHolds`, `SnapshotsAdvanceHolds`, `HolderAdvancesHolds` | `None` is no thread and no kind |
| `MouseMonitor_proofs` | `TypeCorrect`, `IsolatedMovementIgnoredHolds`, `SustainedMovementRefreshesHolds`, `RefreshesAreSpacedHolds` | a positive refresh interval; the last: `TwoHooks` |
| `HookMonitor_proofs` | `TypeCorrect`, `AliveMeansInstalledHolds`, `StartedMeansHookedHolds`, `NoDuplicateRecordsHolds`, `ShutdownUnhooksHolds`, `StopNotLostHolds`, `AlwaysAnotherHolds`, `KeepsContractHolds` | the bounds are naturals |
| `TrayRuntime_proofs` | `TypeCorrect`, `StatusHonestHolds`, `NoFalseBalloonHolds`, `IconNeverForgottenHolds`, `WaitsAnsweredHolds`, `TrayCountsDownHolds`, `ExitCountsDownHolds` | the bounds are naturals |
| `AppLifecycle_proofs` | `TypeCorrect`, `StartedIsStoppedHolds`, `ReportAddsUpHolds`, `KeepsContractHolds`, `ShutdownCountsDownHolds`, `PassCountsDownHolds`, `CountsAreBoundsHolds` | at least one monitor |
| `Config_proofs` | `AcceptedInRange`, `AcceptedSuitsController`, `AcceptedIsUsableHolds`, `OnlyHugeNumbersEscape`, `ParsedFailsCleanlyHolds`, `OverridesActAsFile`, `OverrideIsFileValueHolds`, `AcceptedExactlyAsDocumented`, `AcceptsDocumentedHolds` | float reaches the largest accepted number |
| `Launch_proofs` | `RegisteredIsValidHolds`, `DryRunStaysDryHolds`, `RemovalsAddUpHolds`, `HistoryInvariant`, `SignInSameConfigHolds` | overrides are floats, as argparse makes them |

Every invariant and every action property that a run checks is proved. The
theorems without a property of a run state what those rest on, or what links
two modules: the contract of a monitor, the meaning of a sequence number, and
the countdowns below.

**IdleLock.** `NoPrematureLock` speaks of one place of the loop, so it is not
inductive. `CycleInv` carries what was read to where it is used: after the
clock reading, the measured idle time is a lower bound of the age of the
snapshot, and of the baseline if there is one; after `Decide` the reason to
lock still holds. It survives the other threads because ages only grow until
the controller itself resets them, and because new input makes
`sequence # observedSequence`, which the invariant allows for.

`CoveredResumeGrace` needs more: between the wake and the lock the grace is
carried by different things in turn. `ResumeInv` lists them: the gap the next poll
will measure, the resume just detected, the baseline, and finally an input
newer than the wake. Each controller step hands the grace from one to the
next; each other thread's step leaves it where it is or improves it. The clause on
unobserved input is the one that fails for a wake of another kind, and is where
a finding comes from. `RetryInv` is the same for a refused lock: as long as
the failure is outstanding, everything the next decision reads still calls for
the lock.

The refinement maps `spent` to the observed sequence of an unarmed controller,
`asking` to the call of the adapter and `discontinuity` to the resume being
handled. Every controller step is a step of the policy or a stutter;
`CycleInv` provides that the adapter is called by an armed controller only. The
lemmas about `Aged` (it grows, it keeps the order of two ages) are all that is
used of the representation of time.

`ExitCountsDown` gives each place of the loop the number of statements left
until the stop event is looked at. Every controller step lowers it, and no other
thread, suspend or clock raises it: twelve statements after Exit the loop is over.

**ActivityManager.** `Exclusion` (inside a `with` block exactly while holding
the lock), `Whole` (between records the fields are the last published view) and
`Progress` (how far a record has come, field by field) are inductive together.
Only the end of a record is a step of `ActivityLog`; a clock that raises
leaves before the first assignment, which is why all is still whole.
`InOrder`, a second invariant over the published views, numbers them by their
place and orders their times. With it a sequence number stands for its event
(`SequenceIdentifies`, `SnapshotsAdvance`); this is what entitles
`evaluate_once`, and with it `IdleLock`, to look at numbers only.

**MouseMonitor.** What the filter remembers was really taken or accepted
(`Memory`), which gives the two action properties. For the spacing, a callback is
*stale* if it read the clock before the last accepted refresh. Of two hook
threads one accepted that refresh, so at most one is stale, and when its reading has
been taken none is; two stale readings are what it would take to accept too early.

**HookMonitor.** `Shape` ties the flags of a listener to the place of its thread.
`Alone` says which listener may still come to pump messages, by the place of
the main thread: at the creation of a listener none may, which is where a dead
listener's cleared `_hook` is needed. `Accounted` says the same of hooks, as
long as no wait expired and nobody interrupted.

`StopNotLost` is the race of `stop` with a thread about to block in GetMessageW:
whoever pumps messages after being told to stop has WM_QUIT in its queue, or the
main thread is about to post it. It needs `Addressed` (the thread has published
its id before `start` returns, so the post has an address) and `Aimed` (the flag
is set before the post, and only on what was started).

`AlwaysAnother` concerns the model: `Listener` is finite, the code's supply of
listeners is not. `BornInOrder` shows that the listeners born are at most one
more than the faults, because one that was not told to stop ends only through a
fault. So the model's `MaxFaults + 1` listeners cut off no behaviour.

The contract maps `health` to what the monitor's current listener is. `Proper`
is what it needs beyond `Shape`: only a dead listener is detached, only the
monitor's own is stopped for good, and none is told to stop before the cleanup.

**TrayRuntime.** `TrayShape` and `Usage` keep a tray that is in use from becoming
ready twice; `Accounted` follows a tray that nobody will stop; `Caught` and `Told`
say, for each place of a turn, what the status and the balloons are still behind.

`WaitsAnswered` excludes the lost signals: a main thread that waits for `_ready`
finds the tray thread at a place from which every path sets it, and one that
joins it finds WM_CLOSE queued if the window is still served. Its strengthening
`TrayServes` says which places have the window and `_ready`. The two countdowns
are ranks over the places of the tray thread (with the window) and of the main
thread; the second starts to matter when the stop event is set.

**AppLifecycle.** The started monitors are a prefix of the list, the tray that is known and
the monitors already passed have been told to stop (`Order`); the report counts the part of
the list that was passed (`Tallied`, by induction over steps, with the cardinality
of a prefix). `KeepsContract` says for each monitor that `AppLifecycle`
uses it as `MonitorContract` allows; the contract is about the listener a monitor
knows, and says nothing of orphans. The ranks
`ToExit` and `ToEvaluation` count the steps left of the cleanup and of a pass.

**Config.** A status of "ok" unwinds the chain of `Then`, so each reader
returned a value in its range. For the other direction the readers are
characterised one key at a time: a reader returns "ok" exactly for the values the
document gives that key, and otherwise one of two exceptions, of which only
`_number` has the second. Put together, a file with overrides is accepted if, and
only if, it is as documented (`AcceptedExactlyAsDocumented`), a file that parses
is accepted or ends in a `ConfigError` but for a huge integer in one of two
places (`OnlyHugeNumbersEscape`), and an override does what the same value in the
file does (`OverridesActAsFile`). Where TLC compares outcomes over 12320 inputs,
these hold for every input and every precision of float. What `open` and `tomllib`
raise is not proved but taken from them (`Raises`).

**Launch.** `LaunchInv` says of a process about to register that `main` accepted
its command with the file it has read, of the entry that it carries both and the dry
run on, and of a process that it inherits the dry run of its entry. `RemovalsAddUp` is inductive by
itself once the value is deleted and counted in one step, as the registry does.
`SignInSameConfig` compares configurations found at two times, so its invariant
is about a history: there is one sequence of contents of the files, indexed by
the number of edits, and whatever a process or the entry carries was read at one
index of it. No edit between two readings means the same index.

Model-checked only: the eleven liveness properties. TLAPS 1.4.5 has no rules for
fairness and ENABLED. What the proofs contribute is the part without fairness.
`ExitHonoured`, `ShutdownEnds`, `EvaluationReached`, `ExitEndsRuntime`,
`StopEndsTray` and `StartSettles` follow a rank that every step of the scheduled
thread lowers and no other step raises (`ExitCountsDown`,
`ShutdownCountsDown`, `PassCountsDown`, `TrayCountsDown`) and the absence of lost
signals (`WaitsAnswered`); `StopEndsThread` rests on `StopNotLost`, `HookRecovers` on
`AlwaysAnother`. That a step is possible whenever the rank is not 0, and is then
taken, is what TLC checks. `UnattendedLocks`, `LockedSessionRearms` and
`OthersRecover` depend on strong fairness or on time passing and have no such
proof.

## 5. What the code does not keep

Each of these is a run that TLC ends with a counterexample.

1. `idle_unseen_input` A key pressed after the last evaluation before a
   suspend discards the resume baseline on wake; the workstation locks at once,
   which `resume.py:17-18` says it does not.
2. `idle_slow_recovery` When hooks keep timing out in their restart, a
   supervisor pass reaches the resume gap, every turn looks like a resume and the
   workstation is never locked (`docs/M6_RELIABILITY.md:68`).
3. `hook_orphan` A hook start that times out leaves a thread that may install
   its hook beside that of its replacement: one press, two records
   (`docs/RELEASE_VALIDATION.md:47`).
4. `launch_relative_config` `--install-startup` registers `--config` as given; a
   relative path names another file, or none, at sign-in (`cli.py:70`).

Further disagreements, each with a configuration that reproduces it
(`tlc -config <cfg> <module>`) and a checked property for what does hold:

| Configuration | What TLC finds | What holds |
|---|---|---|
| `MCIdleLockMidCycle.cfg` | a suspend, or a starved process, between the detector's poll and the clock reading of `evaluate_once` counts as idle time (`idle.py:112`) | `CoveredResumeGrace` |
| `MCIdleLockFreshInput.cfg` | input between snapshot and adapter call does not defer the lock (`docs/CONFIGURATION.md:14-15`); the window is short | `NoPrematureLock` |
| `MCIdleLockRequestRetry.cfg` | a refused Lock now is not retried (`docs/ARCHITECTURE.md:7` says failed requests are) | `TimeoutFailureRetried` |
| `MCHookMonitorLostHook.cfg` | a hook that Windows removes silently looks healthy and is never replaced (`docs/ARCHITECTURE.md:82-83`) | `HookRecovers`, `AliveMeansInstalled` |
| `MCConfigErrors.cfg` | a file that is not UTF-8, one nested too deep, a decimal of more digits than `int` takes and an integer beyond every float end `main` with a traceback instead of a `ConfigError` (`config.py:18`) | `ParsedFailsCleanly` |
| `MCLaunchDefaultLog.cfg` | the default log path is relative; at sign-in it is made in a directory the user may not be able to write, and the process exits (`cli.py:70`) | `SignInSameConfig` |

A resume also discards a pending Lock now (`idle.py:99`), which no document
mentions; `RequestKept` states it as it is. A NUL in `logging.file` passes the
validation, is registered, and ends `main` with a traceback when the log is opened
(`cli.py:117-119`); `Launch` has it as exit code 1.

## 6. Not modelled

- What argparse rejects by itself, `--version`, `--no-tray`,
  `--no-notifications` and the printed summary: they change no state a property is about.
- The quoting of the startup command and the path of the launcher: string
  work, covered by tests. What survives the registry is modelled by option.
- Handlers, formats and the rotation of the log: the library's.
- `load_lock_api`, structure layouts, message codes and coordinates of Win32:
  no property depends on them.
- The idle seconds and the wording in the tip of the tray.
- Whether Windows does what it is asked to with a notification icon that was withdrawn.
- The mouse monitor and the keyboard monitor as two threads at once: each is
  the one monitor of `HookMonitor`; several are in `AppLifecycle`, without their
  threads. They share only the activity manager.
- `monitors/__init__.py` (re-exports), packaging and scripts.
