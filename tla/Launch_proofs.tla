--------------------------- MODULE Launch_proofs ---------------------------
(***************************************************************************)
(* Proofs about Launch for any number of processes, directories, files and *)
(* commands: what is registered is valid, dry runs stay dry, and removals  *)
(* add up.                                                                 *)
(***************************************************************************)
EXTENDS Launch, TLAPS

\* The configurations main may come to.
Overrides == Value \cup {NoOverride}

Loaded(x) == Effective(x.file, x.timeout, x.poll).config

FilesRead == ConfigFiles \cup {NoPath}

Inputs == [file : FilesRead, timeout : Overrides, poll : Overrides]

Configurations == {Loaded(x) : x \in Inputs} \cup {Defaults}

\* An argument list, NoOverride being a value of its own.
Argv == [config : {"none", "relative", "absolute"},
         timeout : Overrides, poll : Overrides,
         dryRun : BOOLEAN, action : {"run", "check", "install", "remove", "status"}]

Origins == [known : BOOLEAN, file : FilesRead, config : Configurations, dryRun : BOOLEAN,
            dir : Dirs, read : Nat]
Entries == [args : Argv, origin : Origins]

ProcessType == [pc : Places, args : Argv, dir : Dirs, file : FilesRead,
                config : Configurations, read : Nat, locker : {"none", "native", "dry"}, code : 0 .. 2,
                origin : Origins]

TypeInv ==
  /\ files \in [Dirs -> ConfigFiles]
  /\ entry \in Entries
  /\ proc \in [Processes -> ProcessType]
  /\ edits \in Nat
  /\ tally \in [set : Nat, removed : Nat]

\* What a process has read is valid with its overrides, and is its configuration.
Tried(r) == Accepts(r.file, r.args, r.config)

\* A process that is about to register has read a valid configuration, and its
\* arguments carry on what the entry has to carry.
ProcessInv ==
  \A p \in Processes :
    /\ proc[p].pc \in {"create", "set"} => Tried(proc[p])
    /\ proc[p].origin.dryRun => proc[p].args.dryRun
    /\ proc[p].locker = "native" => ~proc[p].args.dryRun

EntryInv ==
  /\ entry # NoEntry => Accepts(entry.origin.file, entry.args, entry.origin.config)
  /\ entry.args.action = "run"
  /\ entry.origin.dryRun => entry.args.dryRun

LaunchInv == TypeInv /\ ProcessInv /\ EntryInv /\ RemovalsAddUp
-----------------------------------------------------------------------------
LEMMA RunTyped == Run \in Argv /\ Run.action = "run" /\ ~Run.dryRun
<1>1. NoOverride \in Overrides
  BY DEF Overrides
<1>2. QED
  BY <1>1, SMT DEF Run, Argv

LEMMA CommandTyped == Commands \subseteq Argv
  BY LaunchAssumption, SMT DEF Argument, Argv, Overrides

LEMMA ConfigurationsOf ==
  ASSUME NEW f \in FilesRead, NEW t \in Overrides, NEW q \in Overrides
  PROVE  Effective(f, t, q).config \in Configurations
<1> DEFINE x == [file |-> f, timeout |-> t, poll |-> q]
<1>1. x \in Inputs /\ Loaded(x) = Effective(f, t, q).config
  BY DEF Inputs, Loaded
<1> HIDE DEF x
<1>2. QED
  BY <1>1 DEF Configurations

LEMMA DefaultsTyped == Defaults \in Configurations
  BY DEF Configurations

LEMMA NoOriginTyped == NoOrigin \in Origins /\ ~NoOrigin.dryRun
  BY LaunchAssumption, DefaultsTyped DEF NoOrigin, Origins, FilesRead

LEMMA NoEntryTyped == NoEntry \in Entries
  BY RunTyped, NoOriginTyped DEF NoEntry, Entries

LEMMA FileTyped ==
  ASSUME TypeInv, NEW p \in Processes
  PROVE  FileOf(p) \in FilesRead
  BY LaunchAssumption DEF FilesRead, FileOf, TypeInv, ProcessType

LEMMA LaunchInit == Init => LaunchInv
<1> SUFFICES ASSUME Init PROVE LaunchInv
  OBVIOUS
<1>1. Process("idle", Run, Home, NoOrigin) \in ProcessType
  BY RunTyped, NoOriginTyped, DefaultsTyped, LaunchAssumption, SMT
  DEF Process, ProcessType, Places, FilesRead
<1>2. TypeInv
  BY <1>1, NoEntryTyped, SMT DEF Init, TypeInv
<1>3. ProcessInv
  BY NoOriginTyped, SMT DEF Init, ProcessInv, Process
<1>4. EntryInv
  BY RunTyped, NoOriginTyped, SMT DEF Init, EntryInv, NoEntry
<1>5. RemovalsAddUp
  BY SMT DEF Init, RemovalsAddUp
<1>6. QED
  BY <1>2, <1>3, <1>4, <1>5 DEF LaunchInv

\* The steps that only move one process, to a place where it registers nothing new.
LEMMA MoveKeepsInv ==
  ASSUME LaunchInv, NEW p \in Processes, NEW r \in ProcessType,
         Becomes(p, r), UNCHANGED <<files, entry, edits, tally>>,
         r.pc \in {"create", "set"} => Tried(r),
         r.origin.dryRun => r.args.dryRun,
         r.locker = "native" => ~r.args.dryRun
  PROVE  LaunchInv'
<1>1. TypeInv'
  BY DEF LaunchInv, TypeInv, Becomes
<1>2. ProcessInv'
  BY DEF LaunchInv, TypeInv, ProcessInv, Tried, Becomes
<1>3. EntryInv'
  BY DEF LaunchInv, EntryInv
<1>4. RemovalsAddUp'
  BY DEF LaunchInv, RemovalsAddUp
<1>5. QED
  BY <1>1, <1>2, <1>3, <1>4 DEF LaunchInv

\* What a step does to the record of its process, field by field.
Keeps(r, old) == r.args = old.args /\ r.origin = old.origin

SameContents(r, old) == r.file = old.file /\ r.config = old.config

LEMMA PcTyped ==
  ASSUME NEW old \in ProcessType, NEW pc \in Places
  PROVE  LET r == [old EXCEPT !.pc = pc] IN
         r \in ProcessType /\ Keeps(r, old) /\ r.pc = pc /\ r.locker = old.locker
           /\ SameContents(r, old)
  BY SMT DEF ProcessType, Keeps, SameContents

LEMMA CodeTyped ==
  ASSUME NEW old \in ProcessType, NEW code \in 0 .. 2
  PROVE  LET r == [old EXCEPT !.code = code] IN
         r \in ProcessType /\ Keeps(r, old) /\ r.pc = old.pc /\ r.locker = old.locker
  BY SMT DEF ProcessType, Keeps

LEMMA LockerTyped ==
  ASSUME NEW old \in ProcessType, NEW locker \in {"none", "native", "dry"}
  PROVE  LET r == [old EXCEPT !.locker = locker] IN
         r \in ProcessType /\ Keeps(r, old) /\ r.pc = old.pc /\ r.locker = locker
  BY SMT DEF ProcessType, Keeps

WithReading(r, file, config, read) ==
  [[[r EXCEPT !.file = file] EXCEPT !.config = config] EXCEPT !.read = read]

LEMMA LoadedTyped ==
  ASSUME NEW old \in ProcessType, NEW file \in FilesRead, NEW config \in Configurations,
         NEW read \in Nat, NEW r, r = WithReading(old, file, config, read)
  PROVE  /\ r \in ProcessType /\ Keeps(r, old) /\ r.pc = old.pc /\ r.locker = old.locker
         /\ r.file = file /\ r.config = config
<1> DEFINE r1 == [old EXCEPT !.file = file]
           r2 == [r1 EXCEPT !.config = config]
<1>1. /\ r1 \in ProcessType /\ Keeps(r1, old) /\ r1.pc = old.pc /\ r1.locker = old.locker
      /\ r1.file = file
  BY SMT DEF ProcessType, Keeps
<1>2. r = [r2 EXCEPT !.read = read]
  BY DEF WithReading
<1> HIDE DEF r1
<1>3. /\ r2 \in ProcessType /\ Keeps(r2, old) /\ r2.pc = old.pc /\ r2.locker = old.locker
      /\ r2.file = file /\ r2.config = config
  BY <1>1, SMT DEF ProcessType, Keeps
<1> HIDE DEF r2
<1>4. QED
  BY <1>2, <1>3, SMT DEF ProcessType, Keeps

\* A step that keeps the arguments, the origin and the locker of its process.
LEMMA KeepsKeepsInv ==
  ASSUME LaunchInv, NEW p \in Processes, NEW r \in ProcessType,
         Becomes(p, r), UNCHANGED <<files, entry, edits, tally>>,
         Keeps(r, proc[p]), r.locker = proc[p].locker,
         r.pc \in {"create", "set"} => Tried(r)
  PROVE  LaunchInv'
<1>1. r.origin.dryRun => r.args.dryRun
  BY DEF LaunchInv, ProcessInv, Keeps
<1>2. r.locker = "native" => ~r.args.dryRun
  BY DEF LaunchInv, ProcessInv, Keeps
<1>3. QED
  BY <1>1, <1>2, MoveKeepsInv

LEMMA GotoKeepsInv ==
  ASSUME LaunchInv, NEW p \in Processes, NEW place \in Places,
         Goto(p, place), UNCHANGED <<files, entry, edits, tally>>,
         place \in {"create", "set"} => Tried(proc[p])
  PROVE  LaunchInv'
<1> DEFINE r == [proc[p] EXCEPT !.pc = place]
<1>1. proc[p] \in ProcessType
  BY DEF LaunchInv, TypeInv
<1>2. /\ r \in ProcessType /\ Keeps(r, proc[p]) /\ r.pc = place /\ r.locker = proc[p].locker
      /\ SameContents(r, proc[p])
  BY <1>1, PcTyped
<1>3. Becomes(p, r)
  BY DEF Goto
<1> HIDE DEF r
<1>4. r.pc \in {"create", "set"} => Tried(r)
  BY <1>2 DEF Tried, Keeps, SameContents
<1>5. QED
  BY <1>2, <1>3, <1>4, KeepsKeepsInv

\* The record of a process that exits.
LEMMA ExitTyped ==
  ASSUME NEW old \in ProcessType, NEW code \in 0 .. 2
  PROVE  LET r == [old EXCEPT !.pc = "exited", !.code = code] IN
         r \in ProcessType /\ Keeps(r, old) /\ r.pc = "exited" /\ r.locker = old.locker
<1> DEFINE r1 == [old EXCEPT !.pc = "exited"]
           r2 == [r1 EXCEPT !.code = code]
<1>1. r1 \in ProcessType /\ Keeps(r1, old) /\ r1.pc = "exited" /\ r1.locker = old.locker
  BY PcTyped DEF Places
<1> HIDE DEF r1
<1>2. r2 \in ProcessType /\ Keeps(r2, old) /\ r2.pc = "exited" /\ r2.locker = old.locker
  BY <1>1, CodeTyped DEF Keeps
<1>3. r2 = [old EXCEPT !.pc = "exited", !.code = code]
  BY SMT DEF ProcessType, r1
<1>4. QED
  BY <1>2, <1>3

LEMMA ExitKeepsInv ==
  ASSUME LaunchInv, NEW p \in Processes, NEW code \in 0 .. 2,
         Exit(p, code), UNCHANGED <<files, entry, edits, tally>>
  PROVE  LaunchInv'
<1> DEFINE r == [proc[p] EXCEPT !.pc = "exited", !.code = code]
<1>1. proc[p] \in ProcessType
  BY DEF LaunchInv, TypeInv
<1>2. r \in ProcessType /\ Keeps(r, proc[p]) /\ r.pc = "exited"
        /\ r.locker = proc[p].locker
  BY <1>1, ExitTyped
<1>3. Becomes(p, r)
  BY DEF Exit
<1> HIDE DEF r
<1>4. QED
  BY <1>2, <1>3, KeepsKeepsInv
-----------------------------------------------------------------------------
(* One lemma per step that does more than move its process on *)

LEMMA StartKeepsInv ==
  ASSUME LaunchInv, NEW p \in Processes, NEW args \in Argv, NEW dir \in Dirs,
         NEW origin \in Origins, origin.dryRun => args.dryRun,
         Start(p, args, dir, origin)
  PROVE  LaunchInv'
<1> DEFINE r == Process("load", args, dir, origin)
<1>1. r \in ProcessType
  BY DefaultsTyped, SMT DEF Process, ProcessType, Places, FilesRead
<1>2. r.pc = "load" /\ r.args = args /\ r.origin = origin /\ r.locker = "none"
  BY DEF Process
<1>3. Becomes(p, r) /\ UNCHANGED <<files, entry, edits, tally>>
  BY DEF Start
<1> HIDE DEF r
<1>4. QED
  BY <1>1, <1>2, <1>3, MoveKeepsInv

LEMMA LoadKeepsInv ==
  ASSUME LaunchInv, NEW p \in Processes, Load(p)
  PROVE  LaunchInv'
<1> DEFINE old  == proc[p]
           args == old.args
           e    == Effective(FileOf(p), args.timeout, args.poll)
           pc   == IF e.status = "ok" THEN AfterLoad[args.action] ELSE "exited"
           code == IF e.status = "ok" THEN 0 ELSE IF e.status = "ConfigError" THEN 2 ELSE 1
           r1   == [old EXCEPT !.pc = pc]
           r2   == [r1 EXCEPT !.code = code]
           r    == WithReading(r2, FileOf(p), e.config, edits)
<1>1. old \in ProcessType /\ args \in Argv
  BY DEF LaunchInv, TypeInv, ProcessType
<1>2. FileOf(p) \in FilesRead /\ e.config \in Configurations /\ edits \in Nat
  <2>1. FileOf(p) \in FilesRead
    BY FileTyped DEF LaunchInv
  <2>2. args.timeout \in Overrides /\ args.poll \in Overrides
    BY <1>1 DEF Argv
  <2>3. e.config \in Configurations
    BY <2>1, <2>2, ConfigurationsOf
  <2>4. QED
    BY <2>1, <2>3 DEF LaunchInv, TypeInv
<1>3. pc \in Places /\ code \in 0 .. 2
  <2>1. args.action \in {"run", "check", "install", "remove", "status"}
    BY <1>1 DEF Argv
  <2>2. AfterLoad[args.action] \in Places
    BY <2>1 DEF AfterLoad, Places
  <2>3. QED
    BY <2>2 DEF Places
<1>4. pc \in {"create", "set"} => Accepts(FileOf(p), args, e.config)
  BY DEF Accepts
<1>5. Becomes(p, [old EXCEPT !.pc = pc, !.code = code, !.file = FileOf(p),
                             !.config = e.config, !.read = edits])
        /\ UNCHANGED <<files, entry, edits, tally>>
  BY DEF Load, Proceeds, Keep
<1> HIDE DEF e, pc, code
<1>6. r = [old EXCEPT !.pc = pc, !.code = code, !.file = FileOf(p),
                      !.config = e.config, !.read = edits]
  BY <1>1, SMT DEF ProcessType, WithReading
<1>7. r1 \in ProcessType /\ Keeps(r1, old) /\ r1.pc = pc /\ r1.locker = old.locker
  BY <1>1, <1>3, PcTyped
<1> HIDE DEF r1
<1>8. r2 \in ProcessType /\ Keeps(r2, old) /\ r2.pc = pc /\ r2.locker = old.locker
  BY <1>3, <1>7, CodeTyped DEF Keeps
<1> HIDE DEF r2
<1>9. /\ r \in ProcessType /\ Keeps(r, old) /\ r.pc = pc /\ r.locker = old.locker
      /\ r.file = FileOf(p) /\ r.config = e.config
  BY <1>2, <1>8, LoadedTyped DEF Keeps
<1>10. r.pc \in {"create", "set"} => Tried(r)
  BY <1>4, <1>9 DEF Keeps, Tried
<1>11. Becomes(p, r)
  BY <1>5, <1>6
<1> HIDE DEF r
<1>12. QED
  BY <1>5, <1>9, <1>10, <1>11, KeepsKeepsInv

\* Only here is a locker chosen: --dry-run gives the dry one.
LEMMA BuildLockerKeepsInv ==
  ASSUME LaunchInv, NEW p \in Processes, BuildLocker(p)
  PROVE  LaunchInv'
<1>1. CASE Exit(p, 2)
  BY <1>1, ExitKeepsInv DEF BuildLocker, Keep
<1>2. CASE ~Exit(p, 2)
  <2> DEFINE old    == proc[p]
             locker == IF old.args.dryRun THEN "dry" ELSE "native"
             r1     == [old EXCEPT !.pc = "running"]
             r      == [r1 EXCEPT !.locker = locker]
  <2>1. old \in ProcessType
    BY DEF LaunchInv, TypeInv
  <2>2. Becomes(p, [old EXCEPT !.pc = "running", !.locker = locker])
          /\ UNCHANGED <<files, entry, edits, tally>>
    BY <1>2 DEF BuildLocker, Keep
  <2>3. r = [old EXCEPT !.pc = "running", !.locker = locker]
    BY <2>1, SMT DEF ProcessType
  <2>4. locker = "native" => ~old.args.dryRun
    OBVIOUS
  <2>5. locker \in {"none", "native", "dry"}
    OBVIOUS
  <2> HIDE DEF locker
  <2>6. r1 \in ProcessType /\ Keeps(r1, old) /\ r1.pc = "running"
    BY <2>1, PcTyped DEF Places
  <2> HIDE DEF r1
  <2>7. r \in ProcessType /\ Keeps(r, old) /\ r.locker = locker /\ r.pc = "running"
    BY <2>5, <2>6, LockerTyped DEF Keeps
  <2>8. Becomes(p, r)
    BY <2>2, <2>3
  <2> HIDE DEF r
  <2>9. r.origin.dryRun => r.args.dryRun
    BY <2>7 DEF Keeps, LaunchInv, ProcessInv
  <2>10. r.locker = "native" => ~r.args.dryRun
    BY <2>4, <2>7 DEF Keeps
  <2>11. QED
    BY <2>2, <2>7, <2>8, <2>9, <2>10, MoveKeepsInv
<1>3. QED
  BY <1>1, <1>2

\* Registering: the entry takes over validated overrides and --dry-run.
LEMMA SetValueKeepsInv ==
  ASSUME LaunchInv, NEW p \in Processes, SetValue(p)
  PROVE  LaunchInv'
<1> DEFINE old    == proc[p]
           r      == [old EXCEPT !.pc = "exited", !.code = 0]
           argv   == RuntimeArgv(old.args)
           origin == [known |-> TRUE, file |-> old.file, config |-> old.config,
                      dryRun |-> old.args.dryRun, dir |-> old.dir, read |-> old.read]
<1>1. /\ old \in ProcessType /\ Tried(old)
      /\ old.origin.dryRun => old.args.dryRun
      /\ old.locker = "native" => ~old.args.dryRun
  BY DEF LaunchInv, TypeInv, ProcessInv, SetValue, At
<1>2. /\ argv \in Argv /\ argv.action = "run"
      /\ argv.timeout = old.args.timeout /\ argv.poll = old.args.poll
      /\ argv.dryRun = old.args.dryRun
  <2>1. old.args \in Argv
    BY <1>1 DEF ProcessType
  <2>2. QED
    BY <2>1, SMT DEF RuntimeArgv, Argv
<1>3. /\ origin \in Origins /\ origin.dryRun = old.args.dryRun
      /\ origin.file = old.file /\ origin.config = old.config
  <2>1. /\ old.file \in FilesRead /\ old.config \in Configurations /\ old.args.dryRun \in BOOLEAN
        /\ old.dir \in Dirs /\ old.read \in Nat
    BY <1>1 DEF ProcessType, Argv
  <2>2. QED
    BY <2>1 DEF Origins
<1>4. r \in ProcessType /\ Keeps(r, old) /\ r.pc = "exited" /\ r.locker = old.locker
  <2>1. 0 \in 0 .. 2
    OBVIOUS
  <2>2. QED
    BY <1>1, <2>1, ExitTyped
<1>5. /\ proc' = [proc EXCEPT ![p] = r] /\ entry' = [args |-> argv, origin |-> origin]
      /\ tally' = [tally EXCEPT !.set = @ + 1] /\ UNCHANGED <<files, edits>>
  BY DEF SetValue, Exit, Becomes
<1> HIDE DEF r, argv, origin
<1>6. TypeInv'
  BY <1>2, <1>3, <1>4, <1>5 DEF LaunchInv, TypeInv, Entries
<1>7. ProcessInv'
  <2>1. /\ r.origin.dryRun => r.args.dryRun
        /\ r.locker = "native" => ~r.args.dryRun
    BY <1>1, <1>4 DEF Keeps
  <2>2. \A q \in Processes : proc'[q] = IF q = p THEN r ELSE proc[q]
    BY <1>5 DEF LaunchInv, TypeInv
  <2>3. QED
    BY <1>4, <2>1, <2>2 DEF LaunchInv, ProcessInv, Tried
<1>8. EntryInv'
  BY <1>1, <1>2, <1>3, <1>5 DEF EntryInv, Tried, Accepts
<1>9. RemovalsAddUp'
  BY <1>5, SMT DEF LaunchInv, TypeInv, RemovalsAddUp
<1>10. QED
  BY <1>6, <1>7, <1>8, <1>9 DEF LaunchInv

\* A deletion counts only if there was a value.
LEMMA DeleteValueKeepsInv ==
  ASSUME LaunchInv, NEW p \in Processes, DeleteValue(p)
  PROVE  LaunchInv'
<1> DEFINE old == proc[p]
           r   == [old EXCEPT !.pc = "exited", !.code = 0]
<1>1. /\ old \in ProcessType
      /\ old.origin.dryRun => old.args.dryRun
      /\ old.locker = "native" => ~old.args.dryRun
  BY DEF LaunchInv, TypeInv, ProcessInv
<1>2. r \in ProcessType /\ Keeps(r, old) /\ r.pc = "exited" /\ r.locker = old.locker
  <2>1. 0 \in 0 .. 2
    OBVIOUS
  <2>2. QED
    BY <1>1, <2>1, ExitTyped
<1>3. /\ proc' = [proc EXCEPT ![p] = r] /\ entry' = NoEntry
      /\ tally' = [tally EXCEPT !.removed = @ + Removed(p)] /\ UNCHANGED <<files, edits>>
  BY DEF DeleteValue, Exit, Becomes
<1> HIDE DEF r
<1>4. TypeInv'
  BY <1>2, <1>3, NoEntryTyped DEF LaunchInv, TypeInv, Removed
<1>5. ProcessInv'
  <2>1. /\ r.origin.dryRun => r.args.dryRun
        /\ r.locker = "native" => ~r.args.dryRun
    BY <1>1, <1>2 DEF Keeps
  <2>2. \A q \in Processes : proc'[q] = IF q = p THEN r ELSE proc[q]
    BY <1>3 DEF LaunchInv, TypeInv
  <2>3. QED
    BY <1>2, <2>1, <2>2 DEF LaunchInv, ProcessInv, Tried
<1>6. EntryInv'
  BY <1>3, RunTyped, NoOriginTyped DEF EntryInv, NoEntry
<1>7. RemovalsAddUp'
  BY <1>3, SMT DEF LaunchInv, TypeInv, RemovalsAddUp, Removed
<1>8. QED
  BY <1>4, <1>5, <1>6, <1>7 DEF LaunchInv
-----------------------------------------------------------------------------
LEMMA NextKeepsInv == LaunchInv /\ [Next]_vars => LaunchInv'
<1> SUFFICES ASSUME LaunchInv, [Next]_vars PROVE LaunchInv'
  OBVIOUS
<1>1. ASSUME NEW p \in Processes, Invoke(p) PROVE LaunchInv'
  <2>1. PICK args \in Commands, dir \in Dirs : Start(p, args, dir, NoOrigin)
    BY <1>1 DEF Invoke
  <2>2. QED
    BY <2>1, CommandTyped, NoOriginTyped, StartKeepsInv
<1>2. ASSUME NEW p \in Processes, SignIn(p) PROVE LaunchInv'
  <2>1. /\ entry.args \in Argv /\ entry.origin \in Origins
        /\ entry.origin.dryRun => entry.args.dryRun
    BY DEF LaunchInv, TypeInv, Entries, EntryInv
  <2>2. SignInDir \in Dirs
    BY LaunchAssumption
  <2>3. QED
    BY <1>2, <2>1, <2>2, StartKeepsInv DEF SignIn
<1>3. ASSUME NEW p \in Processes, Step(p) PROVE LaunchInv'
  <2>1. CASE Load(p)
    BY <2>1, LoadKeepsInv
  <2>2. CASE ConfigureLogging(p)
    BY <2>2, ExitKeepsInv, GotoKeepsInv DEF ConfigureLogging, Keep, Places
  <2>3. CASE BuildLocker(p)
    BY <2>3, BuildLockerKeepsInv
  <2>4. CASE RunEnds(p)
    <3>1. PICK code \in 0 .. 2 : Exit(p, code)
      BY <2>4, SMT DEF RunEnds
    <3>2. QED
      BY <2>4, <3>1, ExitKeepsInv DEF RunEnds, Keep
  <2>5. CASE CreateKey(p)
    <3>1. Tried(proc[p])
      BY <2>5 DEF CreateKey, At, LaunchInv, ProcessInv
    <3>2. QED
      BY <2>5, <3>1, GotoKeepsInv DEF CreateKey, Places
  <2>6. CASE SetValue(p)
    BY <2>6, SetValueKeepsInv
  <2>7. CASE OpenKey(p)
    BY <2>7, ExitKeepsInv, GotoKeepsInv DEF OpenKey, Keep, Places
  <2>8. CASE DeleteValue(p)
    BY <2>8, DeleteValueKeepsInv
  <2>9. CASE QueryValue(p)
    BY <2>9, ExitKeepsInv DEF QueryValue, Keep
  <2>10. CASE Refused(p)
    BY <2>10, ExitKeepsInv DEF Refused, Keep
  <2>11. QED
    BY <1>3, <2>1, <2>2, <2>3, <2>4, <2>5, <2>6, <2>7, <2>8, <2>9, <2>10 DEF Step
<1>4. ASSUME NEW d \in Dirs, EditFile(d) PROVE LaunchInv'
  <2>1. PICK f \in ConfigFiles : files' = [files EXCEPT ![d] = f]
    BY <1>4 DEF EditFile
  <2>2. edits' = edits + 1 /\ UNCHANGED <<entry, proc, tally>>
    BY <1>4 DEF EditFile
  <2>3. TypeInv'
    BY <2>1, <2>2 DEF LaunchInv, TypeInv
  <2>4. ProcessInv' /\ EntryInv' /\ RemovalsAddUp'
    BY <2>2 DEF LaunchInv, ProcessInv, EntryInv, RemovalsAddUp, Tried
  <2>5. QED
    BY <2>3, <2>4 DEF LaunchInv
<1>5. CASE UNCHANGED vars
  BY <1>5 DEF vars, LaunchInv, TypeInv, ProcessInv, EntryInv, RemovalsAddUp, Tried
<1>6. QED
  BY <1>1, <1>2, <1>3, <1>4, <1>5 DEF Next

LEMMA LaunchInvHolds == Spec => []LaunchInv
  BY LaunchInit, NextKeepsInv, PTL DEF Spec

\* An entry is only made of a file and overrides that were accepted together, and
\* its command repeats them (cli.py:94-106,175-189).
THEOREM RegisteredIsValidHolds == Spec => []RegisteredIsValid
<1>1. LaunchInv => RegisteredIsValid
  BY DEF LaunchInv, EntryInv, RegisteredIsValid
<1>2. QED
  BY <1>1, LaunchInvHolds, PTL

\* --dry-run never leads to the native locker, also not through the registry.
THEOREM DryRunStaysDryHolds == Spec => []DryRunStaysDry
<1>1. LaunchInv => DryRunStaysDry
  BY DEF LaunchInv, ProcessInv, DryRunStaysDry
<1>2. QED
  BY <1>1, LaunchInvHolds, PTL

\* Concurrent removals never report more than was registered.
THEOREM RemovalsAddUpHolds == Spec => []RemovalsAddUp
<1>1. LaunchInv => RemovalsAddUp
  BY DEF LaunchInv
<1>2. QED
  BY <1>1, LaunchInvHolds, PTL
-----------------------------------------------------------------------------
(* Which files a configuration comes from.  Files change only with edits, so *)
(* there is a history h of them, by the number of edits: the last is what is *)
(* there now, and every configuration kept somewhere was found in the one of *)
(* the edit kept with it.                                                    *)

FileIn(fs, args, dir) ==
  IF args.config = "none" THEN NoPath
  ELSE IF args.config = "relative" THEN fs[dir] ELSE fs[Home]

\* The configuration main comes to with the files fs
Found(fs, args, dir) ==
  Effective(FileIn(fs, args, dir), args.timeout, args.poll).config

\* What a process has read itself, once it has read
OwnReading(h, n, r) ==
  r.pc \notin {"idle", "load"} =>
    r.read \in 0 .. n /\ r.config = Found(h[r.read], r.args, r.dir)

\* What the process that registered the arguments had read with them
OriginReading(h, n, args, origin) ==
  origin.known =>
    origin.read \in 0 .. n /\ origin.config = Found(h[origin.read], args, origin.dir)

Explains(h, n) ==
  /\ \A p \in Processes : /\ OwnReading(h, n, proc[p])
                          /\ OriginReading(h, n, proc[p].args, proc[p].origin)
  /\ OriginReading(h, n, entry.args, entry.origin)

HistoryInv ==
  /\ \E h \in [0 .. edits -> [Dirs -> ConfigFiles]] : h[edits] = files /\ Explains(h, edits)
  /\ \A p \in Processes : proc[p].pc = "idle" => ~proc[p].origin.known

LEMMA HistoryInit == Init => HistoryInv
<1> SUFFICES ASSUME Init PROVE HistoryInv
  OBVIOUS
<1> DEFINE h == [i \in 0 .. edits |-> files]
<1>1. edits = 0 /\ files \in [Dirs -> ConfigFiles]
  BY DEF Init
<1>2. h \in [0 .. edits -> [Dirs -> ConfigFiles]] /\ h[edits] = files
  BY <1>1, SMT
<1>3. /\ \A p \in Processes : proc[p].pc = "idle" /\ ~proc[p].origin.known
      /\ ~entry.origin.known
  BY DEF Init, Process, NoOrigin, NoEntry
<1>4. Explains(h, edits)
  BY <1>3 DEF Explains, OwnReading, OriginReading
<1>5. QED
  BY <1>2, <1>3, <1>4 DEF HistoryInv

\* A step of one process, which leaves the files and the entry alone.
LEMMA MoveKeepsHistory ==
  ASSUME TypeInv, HistoryInv, NEW p \in Processes, NEW r,
         Becomes(p, r), UNCHANGED <<files, entry, edits>>, r.pc # "idle",
         \A h : h[edits] = files /\ OwnReading(h, edits, proc[p]) => OwnReading(h, edits, r),
         \A h : /\ OriginReading(h, edits, proc[p].args, proc[p].origin)
                /\ OriginReading(h, edits, entry.args, entry.origin)
                => OriginReading(h, edits, r.args, r.origin)
  PROVE  HistoryInv'
<1>1. PICK h \in [0 .. edits -> [Dirs -> ConfigFiles]] : h[edits] = files /\ Explains(h, edits)
  BY DEF HistoryInv
<1>2. \A q \in Processes : proc'[q] = IF q = p THEN r ELSE proc[q]
  BY DEF TypeInv, Becomes
<1>3. \A q \in Processes : OwnReading(h, edits, proc'[q])
  BY <1>1, <1>2 DEF Explains
<1>4. \A q \in Processes : OriginReading(h, edits, proc'[q].args, proc'[q].origin)
  BY <1>1, <1>2 DEF Explains
<1>5. OriginReading(h, edits, entry.args, entry.origin)
  BY <1>1 DEF Explains
<1>6. \A q \in Processes : proc'[q].pc = "idle" => ~proc'[q].origin.known
  BY <1>2 DEF HistoryInv
<1>7. \E g \in [0 .. edits' -> [Dirs -> ConfigFiles]] :
        /\ g[edits'] = files'
        /\ \A q \in Processes : /\ OwnReading(g, edits', proc'[q])
                                /\ OriginReading(g, edits', proc'[q].args, proc'[q].origin)
        /\ OriginReading(g, edits', entry'.args, entry'.origin)
  BY <1>1, <1>3, <1>4, <1>5
<1>8. QED
  BY <1>6, <1>7 DEF HistoryInv, Explains
SameReading(r, old) ==
  /\ r.args = old.args /\ r.dir = old.dir /\ r.origin = old.origin
  /\ r.config = old.config /\ r.read = old.read

\* The steps after the reading keep what was read.
LEMMA SameKeepsHistory ==
  ASSUME TypeInv, HistoryInv, NEW p \in Processes, NEW r,
         Becomes(p, r), UNCHANGED <<files, entry, edits>>,
         proc[p].pc \notin {"idle", "load"}, r.pc # "idle", SameReading(r, proc[p])
  PROVE  HistoryInv'
<1>1. ASSUME NEW h, OwnReading(h, edits, proc[p]) PROVE OwnReading(h, edits, r)
  BY <1>1 DEF OwnReading, SameReading
<1>2. ASSUME NEW h, OriginReading(h, edits, proc[p].args, proc[p].origin)
      PROVE  OriginReading(h, edits, r.args, r.origin)
  BY <1>2 DEF SameReading
<1>3. QED
  BY <1>1, <1>2, MoveKeepsHistory

LEMMA GotoKeepsHistory ==
  ASSUME TypeInv, HistoryInv, NEW p \in Processes, NEW place \in Places \ {"idle"},
         Goto(p, place), UNCHANGED <<files, entry, edits>>,
         proc[p].pc \notin {"idle", "load"}
  PROVE  HistoryInv'
<1> DEFINE r == [proc[p] EXCEPT !.pc = place]
<1>1. proc[p] \in ProcessType
  BY DEF TypeInv
<1>2. r.pc = place /\ SameReading(r, proc[p])
  BY <1>1, SMT DEF ProcessType, SameReading
<1>3. Becomes(p, r)
  BY DEF Goto
<1> HIDE DEF r
<1>4. QED
  BY <1>2, <1>3, SameKeepsHistory

LEMMA ExitKeepsReading ==
  ASSUME NEW old \in ProcessType, NEW code
  PROVE  LET r == [old EXCEPT !.pc = "exited", !.code = code] IN
         r.pc = "exited" /\ SameReading(r, old)
  BY SMT DEF ProcessType, SameReading

LEMMA ExitKeepsHistory ==
  ASSUME TypeInv, HistoryInv, NEW p \in Processes, NEW code,
         Exit(p, code), UNCHANGED <<files, entry, edits>>,
         proc[p].pc \notin {"idle", "load"}
  PROVE  HistoryInv'
<1> DEFINE r == [proc[p] EXCEPT !.pc = "exited", !.code = code]
<1>1. r.pc = "exited" /\ SameReading(r, proc[p])
  BY ExitKeepsReading DEF TypeInv
<1>2. Becomes(p, r)
  BY DEF Exit
<1> HIDE DEF r
<1>3. QED
  BY <1>1, <1>2, SameKeepsHistory

LEMMA BuildLockerKeepsHistory ==
  ASSUME TypeInv, HistoryInv, NEW p \in Processes, BuildLocker(p)
  PROVE  HistoryInv'
<1>1. proc[p].pc \notin {"idle", "load"}
  BY DEF BuildLocker, At
<1>2. CASE Exit(p, 2)
  BY <1>1, <1>2, ExitKeepsHistory DEF BuildLocker, Keep
<1>3. CASE ~Exit(p, 2)
  <2> DEFINE locker == IF proc[p].args.dryRun THEN "dry" ELSE "native"
             r      == [proc[p] EXCEPT !.pc = "running", !.locker = locker]
  <2>1. Becomes(p, r) /\ UNCHANGED <<files, entry, edits>>
    BY <1>3 DEF BuildLocker, Keep
  <2>2. proc[p] \in ProcessType
    BY DEF TypeInv
  <2> HIDE DEF locker
  <2>3. r.pc = "running" /\ SameReading(r, proc[p])
    BY <2>2, SMT DEF ProcessType, SameReading
  <2> HIDE DEF r
  <2>4. QED
    BY <1>1, <2>1, <2>3, SameKeepsHistory
<1>4. QED
  BY <1>2, <1>3

\* A process starts without a reading of its own; at sign-in it takes over
\* the arguments of the entry together with their origin.
LEMMA StartKeepsHistory ==
  ASSUME TypeInv, HistoryInv, NEW p \in Processes, NEW args, NEW dir, NEW origin,
         Start(p, args, dir, origin),
         ~origin.known \/ (args = entry.args /\ origin = entry.origin)
  PROVE  HistoryInv'
<1> DEFINE r == Process("load", args, dir, origin)
<1>1. r.pc = "load" /\ r.args = args /\ r.origin = origin
  BY DEF Process
<1>2. Becomes(p, r) /\ UNCHANGED <<files, entry, edits>>
  BY DEF Start
<1> HIDE DEF r
<1>3. ASSUME NEW h PROVE OwnReading(h, edits, r)
  BY <1>1 DEF OwnReading
<1>4. ASSUME NEW h, OriginReading(h, edits, entry.args, entry.origin)
      PROVE  OriginReading(h, edits, r.args, r.origin)
  BY <1>1, <1>4 DEF OriginReading
<1>5. QED
  BY <1>1, <1>2, <1>3, <1>4, MoveKeepsHistory

\* The reading itself: what is found now is found in the last of the history.
LEMMA LoadKeepsHistory ==
  ASSUME TypeInv, HistoryInv, NEW p \in Processes, Load(p)
  PROVE  HistoryInv'
<1> DEFINE old  == proc[p]
           e    == Effective(FileOf(p), old.args.timeout, old.args.poll)
           pc   == IF e.status = "ok" THEN AfterLoad[old.args.action] ELSE "exited"
           code == IF e.status = "ok" THEN 0 ELSE IF e.status = "ConfigError" THEN 2 ELSE 1
           r    == [old EXCEPT !.pc = pc, !.code = code, !.file = FileOf(p),
                               !.config = e.config, !.read = edits]
<1>1. old \in ProcessType /\ edits \in Nat
  BY DEF TypeInv
<1>2. Becomes(p, r) /\ UNCHANGED <<files, entry, edits>>
  BY DEF Load, Proceeds, Keep
<1>3. e.config = Found(files, old.args, old.dir)
  BY DEF Found, FileIn, FileOf
<1>4. pc # "idle"
  <2>1. old.args.action \in {"run", "check", "install", "remove", "status"}
    BY <1>1 DEF ProcessType, Argv
  <2>2. QED
    BY <2>1 DEF AfterLoad
<1> HIDE DEF e, pc, code
<1>5. /\ r.pc = pc /\ r.args = old.args /\ r.dir = old.dir /\ r.origin = old.origin
      /\ r.config = e.config /\ r.read = edits
  BY <1>1, SMT DEF ProcessType
<1> HIDE DEF r
<1>6. ASSUME NEW h, h[edits] = files PROVE OwnReading(h, edits, r)
  <2>1. edits \in 0 .. edits
    BY <1>1
  <2>2. QED
    BY <1>3, <1>5, <1>6, <2>1 DEF OwnReading
<1>7. ASSUME NEW h, OriginReading(h, edits, old.args, old.origin)
      PROVE  OriginReading(h, edits, r.args, r.origin)
  BY <1>5, <1>7
<1>8. QED
  BY <1>2, <1>4, <1>5, <1>6, <1>7, MoveKeepsHistory

\* The registered arguments find what those of the command find: the action is
\* all that they leave out.
LEMMA RegisteredFindsSame ==
  ASSUME NEW fs, NEW dir, NEW args \in Argv
  PROVE  Found(fs, RuntimeArgv(args), dir) = Found(fs, args, dir)
<1>1. LET argv == RuntimeArgv(args) IN
      /\ argv.config = args.config /\ argv.timeout = args.timeout /\ argv.poll = args.poll
  BY SMT DEF RuntimeArgv, Argv
<1>2. QED
  BY <1>1 DEF Found, FileIn

LEMMA SetValueKeepsHistory ==
  ASSUME TypeInv, HistoryInv, NEW p \in Processes, SetValue(p)
  PROVE  HistoryInv'
<1> DEFINE old    == proc[p]
           r      == [old EXCEPT !.pc = "exited", !.code = 0]
           argv   == RuntimeArgv(old.args)
           origin == [known |-> TRUE, file |-> old.file, config |-> old.config,
                      dryRun |-> old.args.dryRun, dir |-> old.dir, read |-> old.read]
<1>1. old.pc = "set" /\ old \in ProcessType /\ old.args \in Argv
  BY DEF SetValue, At, TypeInv, ProcessType
<1>2. /\ proc' = [proc EXCEPT ![p] = r]
      /\ entry' = [args |-> argv, origin |-> origin] /\ UNCHANGED <<files, edits>>
  BY DEF SetValue, Exit, Becomes
<1>3. r.pc = "exited" /\ SameReading(r, old)
  BY <1>1, ExitKeepsReading
<1>4. PICK h \in [0 .. edits -> [Dirs -> ConfigFiles]] : h[edits] = files /\ Explains(h, edits)
  BY DEF HistoryInv
<1>5. \A q \in Processes : proc'[q] = IF q = p THEN r ELSE proc[q]
  BY <1>2 DEF TypeInv
<1>6. OwnReading(h, edits, old) /\ OriginReading(h, edits, old.args, old.origin)
  BY <1>4 DEF Explains
<1>7. OriginReading(h, edits, argv, origin)
  BY <1>1, <1>6, RegisteredFindsSame DEF OwnReading, OriginReading
<1> HIDE DEF r, argv, origin
<1>8. OwnReading(h, edits, r) /\ OriginReading(h, edits, r.args, r.origin)
  BY <1>1, <1>3, <1>6 DEF OwnReading, SameReading
<1>9. \A q \in Processes : /\ OwnReading(h, edits, proc'[q])
                           /\ OriginReading(h, edits, proc'[q].args, proc'[q].origin)
  BY <1>4, <1>5, <1>8 DEF Explains
<1>10. \A q \in Processes : proc'[q].pc = "idle" => ~proc'[q].origin.known
  BY <1>3, <1>5 DEF HistoryInv
<1>11. OriginReading(h, edits, entry'.args, entry'.origin)
  BY <1>2, <1>7
<1>12. \E g \in [0 .. edits' -> [Dirs -> ConfigFiles]] :
         /\ g[edits'] = files'
         /\ \A q \in Processes : /\ OwnReading(g, edits', proc'[q])
                                 /\ OriginReading(g, edits', proc'[q].args, proc'[q].origin)
         /\ OriginReading(g, edits', entry'.args, entry'.origin)
  BY <1>2, <1>4, <1>9, <1>11
<1>13. QED
  BY <1>10, <1>12 DEF HistoryInv, Explains

LEMMA DeleteValueKeepsHistory ==
  ASSUME TypeInv, HistoryInv, NEW p \in Processes, DeleteValue(p)
  PROVE  HistoryInv'
<1> DEFINE old == proc[p]
           r   == [old EXCEPT !.pc = "exited", !.code = 0]
<1>1. old.pc = "delete" /\ old \in ProcessType
  BY DEF DeleteValue, At, TypeInv
<1>2. /\ proc' = [proc EXCEPT ![p] = r]
      /\ entry' = NoEntry /\ UNCHANGED <<files, edits>>
  BY DEF DeleteValue, Exit, Becomes
<1>3. r.pc = "exited" /\ SameReading(r, old)
  BY <1>1, ExitKeepsReading
<1>4. PICK h \in [0 .. edits -> [Dirs -> ConfigFiles]] : h[edits] = files /\ Explains(h, edits)
  BY DEF HistoryInv
<1>5. \A q \in Processes : proc'[q] = IF q = p THEN r ELSE proc[q]
  BY <1>2 DEF TypeInv
<1>6. OwnReading(h, edits, old) /\ OriginReading(h, edits, old.args, old.origin)
  BY <1>4 DEF Explains
<1> HIDE DEF r
<1>7. OwnReading(h, edits, r) /\ OriginReading(h, edits, r.args, r.origin)
  BY <1>1, <1>3, <1>6 DEF OwnReading, SameReading
<1>8. \A q \in Processes : /\ OwnReading(h, edits, proc'[q])
                           /\ OriginReading(h, edits, proc'[q].args, proc'[q].origin)
  BY <1>4, <1>5, <1>7 DEF Explains
<1>9. \A q \in Processes : proc'[q].pc = "idle" => ~proc'[q].origin.known
  BY <1>3, <1>5 DEF HistoryInv
<1>10. OriginReading(h, edits, entry'.args, entry'.origin)
  BY <1>2 DEF OriginReading, NoEntry, NoOrigin
<1>11. \E g \in [0 .. edits' -> [Dirs -> ConfigFiles]] :
         /\ g[edits'] = files'
         /\ \A q \in Processes : /\ OwnReading(g, edits', proc'[q])
                                 /\ OriginReading(g, edits', proc'[q].args, proc'[q].origin)
         /\ OriginReading(g, edits', entry'.args, entry'.origin)
  BY <1>2, <1>4, <1>8, <1>10
<1>12. QED
  BY <1>9, <1>11 DEF HistoryInv, Explains

\* An edit extends the history; what was read before is where it was.
LEMMA EditKeepsHistory ==
  ASSUME TypeInv, TypeInv', HistoryInv, NEW d \in Dirs, EditFile(d)
  PROVE  HistoryInv'
<1>1. edits' = edits + 1 /\ UNCHANGED <<entry, proc>>
  BY DEF EditFile
<1>2. edits \in Nat /\ files' \in [Dirs -> ConfigFiles]
  BY DEF TypeInv
<1>3. PICK h \in [0 .. edits -> [Dirs -> ConfigFiles]] : h[edits] = files /\ Explains(h, edits)
  BY DEF HistoryInv
<1> DEFINE g == [i \in 0 .. edits + 1 |-> IF i = edits + 1 THEN files' ELSE h[i]]
<1>4. g \in [0 .. edits + 1 -> [Dirs -> ConfigFiles]] /\ g[edits + 1] = files'
  <2>1. \A i \in 0 .. edits + 1 : i = edits + 1 \/ i \in 0 .. edits
    BY <1>2, SMT
  <2>2. edits + 1 \in 0 .. edits + 1
    BY <1>2, SMT
  <2>3. QED
    BY <1>2, <1>3, <2>1, <2>2
<1>5. \A i \in 0 .. edits : i \in 0 .. edits + 1 /\ g[i] = h[i]
  BY <1>2, SMT
<1> HIDE DEF g
<1>6. ASSUME NEW r, OwnReading(h, edits, r) PROVE OwnReading(g, edits + 1, r)
  BY <1>5, <1>6 DEF OwnReading
<1>7. ASSUME NEW args, NEW origin, OriginReading(h, edits, args, origin)
      PROVE  OriginReading(g, edits + 1, args, origin)
  BY <1>5, <1>7 DEF OriginReading
<1>8. Explains(g, edits + 1)
  BY <1>3, <1>6, <1>7 DEF Explains
<1>9. \E f \in [0 .. edits' -> [Dirs -> ConfigFiles]] :
        /\ f[edits'] = files'
        /\ \A q \in Processes : /\ OwnReading(f, edits', proc'[q])
                                /\ OriginReading(f, edits', proc'[q].args, proc'[q].origin)
        /\ OriginReading(f, edits', entry'.args, entry'.origin)
  BY <1>1, <1>4, <1>8 DEF Explains
<1>10. \A q \in Processes : proc'[q].pc = "idle" => ~proc'[q].origin.known
  BY <1>1 DEF HistoryInv
<1>11. QED
  BY <1>9, <1>10 DEF HistoryInv, Explains

LEMMA NextKeepsHistory == LaunchInv /\ HistoryInv /\ [Next]_vars => HistoryInv'
<1> SUFFICES ASSUME LaunchInv, HistoryInv, [Next]_vars PROVE HistoryInv'
  OBVIOUS
<1>1. TypeInv /\ TypeInv'
  BY NextKeepsInv DEF LaunchInv
<1>2. ASSUME NEW p \in Processes, Invoke(p) PROVE HistoryInv'
  <2>1. PICK args \in Commands, dir \in Dirs : Start(p, args, dir, NoOrigin)
    BY <1>2 DEF Invoke
  <2>2. ~NoOrigin.known
    BY DEF NoOrigin
  <2>3. QED
    BY <1>1, <2>1, <2>2, StartKeepsHistory
<1>3. ASSUME NEW p \in Processes, SignIn(p) PROVE HistoryInv'
  BY <1>1, <1>3, StartKeepsHistory DEF SignIn
<1>4. ASSUME NEW p \in Processes, Step(p) PROVE HistoryInv'
  <2>1. CASE Load(p)
    BY <1>1, <2>1, LoadKeepsHistory
  <2>2. CASE ConfigureLogging(p)
    BY <1>1, <2>2, ExitKeepsHistory, GotoKeepsHistory DEF ConfigureLogging, Keep, Places, At
  <2>3. CASE BuildLocker(p)
    BY <1>1, <2>3, BuildLockerKeepsHistory
  <2>4. CASE RunEnds(p)
    <3>1. PICK code : Exit(p, code)
      BY <2>4 DEF RunEnds
    <3>2. QED
      BY <1>1, <2>4, <3>1, ExitKeepsHistory DEF RunEnds, Keep, At
  <2>5. CASE CreateKey(p)
    BY <1>1, <2>5, GotoKeepsHistory DEF CreateKey, Places, At
  <2>6. CASE SetValue(p)
    BY <1>1, <2>6, SetValueKeepsHistory
  <2>7. CASE OpenKey(p)
    BY <1>1, <2>7, ExitKeepsHistory, GotoKeepsHistory DEF OpenKey, Keep, Places, At
  <2>8. CASE DeleteValue(p)
    BY <1>1, <2>8, DeleteValueKeepsHistory
  <2>9. CASE QueryValue(p)
    BY <1>1, <2>9, ExitKeepsHistory DEF QueryValue, Keep, At
  <2>10. CASE Refused(p)
    BY <1>1, <2>10, ExitKeepsHistory DEF Refused, Keep
  <2>11. QED
    BY <1>4, <2>1, <2>2, <2>3, <2>4, <2>5, <2>6, <2>7, <2>8, <2>9, <2>10 DEF Step
<1>5. ASSUME NEW d \in Dirs, EditFile(d) PROVE HistoryInv'
  BY <1>1, <1>5, EditKeepsHistory
<1>6. CASE UNCHANGED vars
  BY <1>6 DEF vars, HistoryInv, Explains
<1>7. QED
  BY <1>2, <1>3, <1>4, <1>5, <1>6 DEF Next

\* Every configuration a process or the entry keeps was found in the files as
\* they were after one of the edits.
THEOREM HistoryInvariant == Spec => []HistoryInv
  BY LaunchInvHolds, HistoryInit, NextKeepsHistory, PTL DEF Spec

\* A process started at sign-in and the one that registered it read the same
\* number of edits in, so in the same files: they find the same configuration
\* (cli.py:175-189).
THEOREM SignInSameConfigHolds == Spec => []SignInSameConfig
<1>1. HistoryInv => SignInSameConfig
  <2> SUFFICES ASSUME HistoryInv, NEW p \in Processes, SameFile(p)
               PROVE  proc[p].config = proc[p].origin.config
    BY DEF SignInSameConfig
  <2> DEFINE r == proc[p]
  <2>1. /\ r.origin.known /\ r.pc \notin {"idle", "load"} /\ r.origin.read = r.read
        /\ r.args.config # "relative" \/ r.origin.dir = r.dir
    BY DEF SameFile, HistoryInv
  <2>2. PICK h \in [0 .. edits -> [Dirs -> ConfigFiles]] : Explains(h, edits)
    BY DEF HistoryInv
  <2>3. /\ r.config = Found(h[r.read], r.args, r.dir)
        /\ r.origin.config = Found(h[r.read], r.args, r.origin.dir)
    BY <2>1, <2>2 DEF Explains, OwnReading, OriginReading
  <2>4. FileIn(h[r.read], r.args, r.dir) = FileIn(h[r.read], r.args, r.origin.dir)
    BY <2>1 DEF FileIn
  <2>5. QED
    BY <2>3, <2>4 DEF Found
<1>2. QED
  BY <1>1, HistoryInvariant, PTL
=============================================================================
