------------------------------- MODULE Launch -------------------------------
(***************************************************************************)
(* What happens around SentinelLockApplication: main (cli.py), the startup *)
(* entry it installs, shows and removes (startup.py), the log it opens     *)
(* (logging_setup.py) and the locker it builds (app.py, locker.py).        *)
(* Several processes run main at once: those the user starts, in the       *)
(* directory of their choice, and those Windows starts at sign-in from the *)
(* entry, in a directory of its own.                                       *)
(***************************************************************************)
EXTENDS Config, FiniteSets

CONSTANTS
  Processes,      \* the processes that may run main
  Dirs,           \* working directories
  Home,           \* the directory absolute paths point into
  SignInDir,      \* where Windows starts the registered command
  Writable,       \* the directories the user may write to
  ConfigFiles,    \* what the configuration file of a directory may be
  AbsoluteLogs,   \* the log paths that are absolute
  NulLogs,        \* the log paths with a NUL character, which no file may have
  Commands,       \* the command lines the user gives
  MaxEdits,       \* bound on changes of configuration files
  MaxStarts       \* bound on processes started

\* An argument list as argparse returns it: how --config was given, the overrides
\* (floats), and what to do.
Argument == [config : {"none", "relative", "absolute"}, timeout : Value, poll : Value,
             dryRun : BOOLEAN, action : {"run", "check", "install", "remove", "status"}]

ASSUME LaunchAssumption ==
  /\ Commands \subseteq Argument
  /\ \A args \in Commands : \A o \in {args.timeout, args.poll} :
       o = NoOverride \/ o.type \in {"float", "nan"}
  /\ {Home, SignInDir} \subseteq Dirs /\ Writable \subseteq Dirs
  /\ MaxEdits \in Nat /\ MaxStarts \in Nat

VARIABLES
  platform,     \* sys.platform
  files,        \* the configuration file of each directory
  runKey,       \* the Run key exists
  entry,        \* the registered value, or NoEntry
  proc,         \* the processes: place, arguments, directory and outcome
  edits, starts,
  tally         \* history: values set, and removals reported

vars == <<platform, files, runKey, entry, proc, edits, starts, tally>>

Run == [config |-> "none", timeout |-> NoOverride, poll |-> NoOverride,
        dryRun |-> FALSE, action |-> "run"]

StartupActions == {"install", "remove", "status"}

NoPath == [kind |-> "no path"]

\* What the process that registered a command had validated, from which file
\* and where: history, kept with the entry and handed to the sign-in process.
NoOrigin == [known |-> FALSE, file |-> NoPath, config |-> Defaults, dryRun |-> FALSE,
             dir |-> Home, read |-> 0]
NoEntry  == [args |-> Run, origin |-> NoOrigin]

Places == {"idle", "load", "create", "set", "openSet", "delete", "openRead",
           "query", "log", "build", "running", "exited"}

\* file and read: what the process read as its file, and after how many edits
Process(pc, args, dir, origin) ==
  [pc |-> pc, args |-> args, dir |-> dir, file |-> NoPath, config |-> Defaults, read |-> 0,
   locker |-> "none", code |-> 0, origin |-> origin]

TypeOK ==
  /\ platform \in {"win32", "other"}
  /\ files \in [Dirs -> ConfigFiles]
  /\ runKey \in BOOLEAN /\ (entry # NoEntry => runKey)
  /\ edits \in 0 .. MaxEdits /\ starts \in 0 .. MaxStarts
  /\ tally \in [set : Nat, removed : Nat]
  /\ \A p \in Processes :
       /\ proc[p].pc \in Places /\ proc[p].dir \in Dirs
       /\ proc[p].locker \in {"none", "native", "dry"} /\ proc[p].code \in 0 .. 2

-----------------------------------------------------------------------------
At(p, place) == proc[p].pc = place

Becomes(p, process) == proc' = [proc EXCEPT ![p] = process]

Goto(p, place) == Becomes(p, [proc[p] EXCEPT !.pc = place])

Exit(p, code) == Becomes(p, [proc[p] EXCEPT !.pc = "exited", !.code = code])

\* The file --config names for process p, relative to its directory
FileOf(p) ==
  IF proc[p].args.config = "none" THEN NoPath
  ELSE IF proc[p].args.config = "relative" THEN files[proc[p].dir] ELSE files[Home]

Keep == UNCHANGED <<platform, files, runKey, entry, edits, starts, tally>>
-----------------------------------------------------------------------------
(* main *)

Start(p, args, dir, origin) ==
  /\ proc[p].pc \in {"idle", "exited"}
  /\ starts < MaxStarts /\ starts' = starts + 1
  /\ Becomes(p, Process("load", args, dir, origin))
  /\ UNCHANGED <<platform, files, runKey, entry, edits, tally>>

\* The user gives a command; argparse has read it.
Invoke(p) == \E args \in Commands, dir \in Dirs : Start(p, args, dir, NoOrigin)

\* The user signs in: Windows starts the registered command.
SignIn(p) == entry # NoEntry /\ Start(p, entry.args, SignInDir, entry.origin)

\* The first step of a startup action, or of running
AfterLoad == [install |-> "create", remove |-> "openSet", status |-> "openRead",
              check |-> "exited", run |-> "log"]

StartupFirst(args, status) ==     \* mutant: the startup action precedes the validation
  status = "ok" \/ args.action \in StartupActions

Proceeds(args, status) == status = "ok"

\* parser.error exits with 2; what is no ConfigError ends main with a traceback.
Load(p) ==
  LET args == proc[p].args
      r    == Effective(FileOf(p), args.timeout, args.poll)
  IN /\ At(p, "load")
     /\ Becomes(p, [proc[p] EXCEPT
          !.pc     = IF Proceeds(args, r.status) THEN AfterLoad[args.action] ELSE "exited",
          !.code   = IF Proceeds(args, r.status) THEN 0
                     ELSE IF r.status = "ConfigError" THEN 2 ELSE 1,
          !.file   = FileOf(p),
          !.config = r.config,
          !.read   = edits])
     /\ Keep

\* configure_logging: a path that is not absolute is made in the directory of
\* the process; mkdir or open raises OSError where that may not be written,
\* and for a NUL the ValueError that main does not catch.
LogDir(p)   == IF proc[p].config.file \in AbsoluteLogs THEN Home ELSE proc[p].dir
LogFails(p) == proc[p].config.file # NoFile /\ LogDir(p) \notin Writable
HasNul(p)   == proc[p].config.file \in NulLogs

ConfigureLogging(p) ==
  /\ At(p, "log")
  /\ \/ LogFails(p) /\ Exit(p, 2)
     \/ HasNul(p)   /\ Exit(p, 1)
     \/ ~LogFails(p) /\ ~HasNul(p) /\ Goto(p, "build")
  /\ Keep

\* SentinelLockApplication's constructor; UnsupportedPlatformError
BuildLocker(p) ==
  /\ At(p, "build")
  /\ IF ~proc[p].args.dryRun /\ platform # "win32"
     THEN Exit(p, 2)
     ELSE Becomes(p, [proc[p] EXCEPT
            !.pc = "running", !.locker = IF proc[p].args.dryRun THEN "dry" ELSE "native"])
  /\ Keep

\* run returns, or Ctrl+C (0); MonitorStartError (2), always so without Windows
\* hooks; any other exception (1).
RunEnds(p) ==
  /\ At(p, "running")
  /\ \E code \in IF platform = "win32" THEN 0 .. 2 ELSE {2} : Exit(p, code)
  /\ Keep

-----------------------------------------------------------------------------
(* The startup actions: each call of the registry is a step, and may be refused *)

DroppedPoll(args) ==     \* mutant: --poll-interval is not stored
  [args EXCEPT !.action = "run", !.poll = NoOverride]
DroppedDryRun(args) ==   \* mutant: --dry-run is not stored
  [args EXCEPT !.action = "run", !.dryRun = FALSE]

RuntimeArgv(args) == [args EXCEPT !.action = "run"]

\* StartupRegistrationError: no Windows, or an OSError
Refused(p) ==
  /\ proc[p].pc \in {"create", "set", "openSet", "delete", "openRead", "query"}
  /\ Exit(p, 2) /\ Keep

CreateKey(p) ==
  /\ At(p, "create") /\ platform = "win32"
  /\ runKey' = TRUE /\ Goto(p, "set")
  /\ UNCHANGED <<platform, files, entry, edits, starts, tally>>

SetValue(p) ==
  /\ At(p, "set")
  /\ entry' = [args   |-> RuntimeArgv(proc[p].args),
               origin |-> [known |-> TRUE, file |-> proc[p].file, config |-> proc[p].config,
                           dryRun |-> proc[p].args.dryRun, dir |-> proc[p].dir,
                           read |-> proc[p].read]]
  /\ tally' = [tally EXCEPT !.set = @ + 1]
  /\ Exit(p, 0)
  /\ UNCHANGED <<platform, files, runKey, edits, starts>>

\* OpenKey, for remove_startup or startup_command; FileNotFoundError
OpenKey(p) ==
  /\ platform = "win32"
  /\ \/ At(p, "openSet")  /\ IF runKey THEN Goto(p, "delete") ELSE Exit(p, 0)
     \/ At(p, "openRead") /\ IF runKey THEN Goto(p, "query") ELSE Exit(p, 0)
  /\ Keep

RemovedAnyway(p) == 1     \* mutant: a value that is already gone counts as removed
Removed(p) == IF entry # NoEntry THEN 1 ELSE 0

\* The value may be gone since, with another process's removal.
DeleteValue(p) ==
  /\ At(p, "delete")
  /\ entry' = NoEntry
  /\ tally' = [tally EXCEPT !.removed = @ + Removed(p)]
  /\ Exit(p, 0)
  /\ UNCHANGED <<platform, files, runKey, edits, starts>>

QueryValue(p) == At(p, "query") /\ Exit(p, 0) /\ Keep

-----------------------------------------------------------------------------
(* The user edits a configuration file *)

EditFile(d) ==
  /\ edits < MaxEdits /\ edits' = edits + 1
  /\ \E f \in ConfigFiles \ {files[d]} : files' = [files EXCEPT ![d] = f]
  /\ UNCHANGED <<platform, runKey, entry, proc, starts, tally>>

Init ==
  /\ platform \in {"win32", "other"}
  /\ files \in [Dirs -> ConfigFiles]
  /\ runKey \in BOOLEAN /\ entry = NoEntry
  /\ proc = [p \in Processes |-> Process("idle", Run, Home, NoOrigin)]
  /\ edits = 0 /\ starts = 0 /\ tally = [set |-> 0, removed |-> 0]

Step(p) ==
  \/ Load(p) \/ ConfigureLogging(p) \/ BuildLocker(p) \/ RunEnds(p)
  \/ CreateKey(p) \/ SetValue(p) \/ OpenKey(p) \/ DeleteValue(p) \/ QueryValue(p)
  \/ Refused(p)

Next ==
  \/ \E p \in Processes : Invoke(p) \/ SignIn(p) \/ Step(p)
  \/ \E d \in Dirs : EditFile(d)

Spec == Init /\ [][Next]_vars
-----------------------------------------------------------------------------
Accepts(file, args, config) ==
  LET r == Effective(file, args.timeout, args.poll) IN r.status = "ok" /\ r.config = config

\* What is registered was tried out: with the file its installer had read, main
\* accepts the stored command and comes to the configuration the installer had
\* (cli.py:94-106,175-189).  So no entry is made from a file that is missing,
\* unreadable or invalid, whatever is edited or installed in between.
RegisteredIsValid ==
  entry # NoEntry =>
    /\ Accepts(entry.origin.file, entry.args, entry.origin.config)
    /\ entry.args.action = "run"

\* A command tried out and registered with --dry-run never builds the native
\* locker, neither in the process of the user nor at a later sign-in
\* (cli.py:183, app.py:43-48).
DryRunStaysDry ==
  \A p \in Processes :
    proc[p].locker = "native" => ~proc[p].args.dryRun /\ ~proc[p].origin.dryRun

\* A sign-in process that reads the file the installer had read
SameFile(p) ==
  /\ proc[p].origin.known /\ proc[p].pc # "load"
  /\ proc[p].origin.read = proc[p].read
  /\ proc[p].args.config # "relative" \/ proc[p].origin.dir = proc[p].dir

\* With the same file, a sign-in runs on the configuration the installer has
\* validated: every option that counts survives the registry (cli.py:175-189).
SignInSameConfig ==
  \A p \in Processes : SameFile(p) => proc[p].config = proc[p].origin.config

\* remove_startup says "removed" for a value it has deleted: however the calls of
\* several processes interleave, the reports and the entry that is left never
\* outnumber the values set (startup.py:50-66).
RemovalsAddUp ==
  tally.removed + (IF entry # NoEntry THEN 1 ELSE 0) <= tally.set

\* cli.py:70 says that --install-startup makes Windows "start Sentinel Lock
\* automatically at Windows sign-in": while no file has changed, the process
\* finds the configuration that was registered.
SignInFindsConfig ==
  \A p \in Processes :
    proc[p].origin.known /\ proc[p].pc # "load" /\ edits = 0 =>
      proc[p].config = proc[p].origin.config

\* The same promise: a sign-in process that has its configuration, on Windows,
\* gets as far as monitoring.
SignInRuns ==
  \A p \in Processes :
    SameFile(p) /\ At(p, "exited") /\ platform = "win32" => proc[p].locker # "none"
=============================================================================
