---------------------------- MODULE Config_proofs ----------------------------
(***************************************************************************)
(* What load_config and apply_overrides promise for every file and every   *)
(* override, and every precision of float.                                 *)
(***************************************************************************)
EXTENDS MCConfig, TLAPS

\* A chain of readers returns only if each of them does.
LEMMA ThenOk ==
  ASSUME NEW first, NEW second, Then(first, second) = "ok"
  PROVE  first = "ok" /\ second = "ok"
  BY DEF Then

\* _number returns numbers of its range only: no bool, no nan.
LEMMA NumberInRange ==
  ASSUME NEW v, NEW range, Number(v, range) = "ok"
  PROVE  Numeric(v) /\ v.type # "nan" /\ v.n \in range
  BY DEF Number, Then, Require

\* What an accepted configuration is made of
Usable(config) ==
  /\ config.timeout \in TimeoutRange /\ config.poll \in PollRange
  /\ config.level \in Levels
  /\ config.maxBytes \in BytesRange /\ config.backups \in BackupsRange

\* The defaults would be accepted if a file gave them.
LEMMA DefaultsUsable == Usable(Defaults)
<1>1. "info" \in DOMAIN UpperOf /\ UpperOf["info"] = "INFO"
  BY DEF UpperOf
<1>2. Defaults.level \in Levels
  BY <1>1 DEF Defaults, Levels
<1>3. /\ Defaults.timeout \in TimeoutRange /\ Defaults.poll \in PollRange
      /\ Defaults.maxBytes \in BytesRange /\ Defaults.backups \in BackupsRange
  BY SMT DEF Defaults, TimeoutRange, PollRange, BytesRange, BackupsRange, Between
<1>4. QED
  BY <1>2, <1>3 DEF Usable

LEMMA ReadTablesUsable ==
  ASSUME NEW raw, ReadTables(raw).status = "ok"
  PROVE  Usable(ReadTables(raw).config)
<1> DEFINE timeout  == Get(raw, "security", "idle_timeout_seconds", Num("float", Defaults.timeout))
           poll     == Get(raw, "runtime", "poll_interval_seconds", Num("float", Defaults.poll))
           level    == Get(raw, "logging", "level", Str(Defaults.level))
           path     == Get(raw, "logging", "file", Str(Defaults.file))
           maxBytes == Get(raw, "logging", "max_bytes", Num("int", Defaults.maxBytes))
           backups  == Get(raw, "logging", "backup_count", Num("int", Defaults.backups))
           config   == ReadTables(raw).config
<1>1. /\ config.timeout = timeout.n /\ config.poll = poll.n
      /\ config.level = Upper(level.text)
      /\ config.maxBytes = maxBytes.n /\ config.backups = backups.n
  BY DEF ReadTables
<1>2. Then(RejectUnknownKeys(raw),
      Then(Number(timeout, TimeoutRange),
      Then(Number(poll, PollRange),
      Then(LogLevel(level), Then(LogPath(path),
      Then(Integer(maxBytes, BytesRange), Integer(backups, BackupsRange))))))) = "ok"
  BY DEF ReadTables
<1> HIDE DEF timeout, poll, level, path, maxBytes, backups, config
<1>3. /\ Number(timeout, TimeoutRange) = "ok" /\ Number(poll, PollRange) = "ok"
      /\ LogLevel(level) = "ok"
      /\ Integer(maxBytes, BytesRange) = "ok" /\ Integer(backups, BackupsRange) = "ok"
  BY <1>2, ThenOk
<1>4. timeout.n \in TimeoutRange /\ poll.n \in PollRange
  BY <1>3, NumberInRange
<1>5. Upper(level.text) \in Levels
  BY <1>3 DEF LogLevel, Require
<1>6. maxBytes.n \in BytesRange /\ backups.n \in BackupsRange
  BY <1>3 DEF Integer, Require
<1>7. Usable(config)
  BY <1>1, <1>4, <1>5, <1>6 DEF Usable
<1>8. QED
  BY <1>7 DEF config

LEMMA LoadedUsable ==
  ASSUME NEW file, LoadConfig(file).status = "ok"
  PROVE  Usable(LoadConfig(file).config)
<1>1. CASE file.kind = "no path"
  BY <1>1, DefaultsUsable DEF LoadConfig
<1>2. CASE file.kind = "toml"
  <2>1. LoadConfig(file) = ReadTables(file.raw)
    BY <1>2 DEF LoadConfig
  <2>2. QED
    BY <2>1, ReadTablesUsable
<1>3. CASE file.kind \notin {"no path", "toml"}
  BY <1>3 DEF LoadConfig, ReadFailure
<1>4. QED
  BY <1>1, <1>2, <1>3

\* Every accepted configuration is in its documented ranges, whichever of the
\* files and the overrides it comes from.
THEOREM AcceptedInRange ==
  ASSUME NEW file, NEW timeout, NEW poll,
         Effective(file, timeout, poll).status = "ok"
  PROVE  Usable(Effective(file, timeout, poll).config)
<1> DEFINE loaded == LoadConfig(file)
           c      == loaded.config
           config == Effective(file, timeout, poll).config
<1>1. loaded.status = "ok" /\ Effective(file, timeout, poll) = ApplyOverrides(c, timeout, poll)
  BY DEF Effective
<1>2. Usable(c)
  BY <1>1, LoadedUsable
<1>3. Override(timeout, TimeoutRange) = "ok" /\ Override(poll, PollRange) = "ok"
  BY <1>1, ThenOk DEF ApplyOverrides
<1>4. timeout # NoOverride => timeout.n \in TimeoutRange
  BY <1>3, NumberInRange DEF Override
<1>5. poll # NoOverride => poll.n \in PollRange
  BY <1>3, NumberInRange DEF Override
<1>6. /\ config.timeout = IF timeout = NoOverride THEN c.timeout ELSE timeout.n
      /\ config.poll = IF poll = NoOverride THEN c.poll ELSE poll.n
      /\ config.level = c.level
      /\ config.maxBytes = c.maxBytes /\ config.backups = c.backups
  BY <1>1 DEF ApplyOverrides
<1>7. QED
  BY <1>2, <1>4, <1>5, <1>6 DEF Usable

\* What an accepted configuration gives the controller and the detector: it is
\* constructed (idle.py:63-66), and a turn that only waits, even twice as long
\* as it should, leaves no gap that is taken for a resume (app.py:51-53).
THEOREM AcceptedSuitsController ==
  ASSUME NEW file, NEW timeout, NEW poll,
         Effective(file, timeout, poll).status = "ok"
  PROVE  LET c == Effective(file, timeout, poll).config IN
         c.timeout > 0 /\ c.poll > 0 /\ GapOf(c) > 2 * c.poll
<1> DEFINE c == Effective(file, timeout, poll).config
<1>1. c.timeout \in TimeoutRange /\ c.poll \in PollRange
  BY AcceptedInRange DEF Usable
<1> HIDE DEF c
<1>2. c.timeout \in Int /\ c.timeout > 0 /\ c.poll \in Int /\ c.poll > 0
  BY SMT, <1>1 DEF TimeoutRange, PollRange, Between
<1>3. GapOf(c) > 2 * c.poll
  BY SMT, <1>2 DEF GapOf
<1>4. QED
  BY <1>2, <1>3 DEF c

\* The invariant of the run "config", for the run's inputs and any FloatMax.
THEOREM AcceptedIsUsableHolds == Spec => []AcceptedIsUsable
<1> DEFINE Inv == result.status = "ok" =>
                    Usable(result.config) /\ GapOf(result.config) > 2 * result.config.poll
                      /\ result.config.timeout > 0 /\ result.config.poll > 0
<1>1. Init => Inv
  BY DEF Init, NotLoaded
<1>2. Inv /\ [Next]_vars => Inv'
  <2> SUFFICES ASSUME Inv, [Next]_vars PROVE Inv'
    OBVIOUS
  <2>1. CASE UNCHANGED vars
    BY <2>1 DEF vars
  <2>2. CASE Load
    <3>1. result' = Effective(input.file, input.timeout, input.poll)
      BY <2>2 DEF Load
    <3>2. QED
      BY <3>1, AcceptedInRange, AcceptedSuitsController
  <2>3. QED
    BY <2>1, <2>2 DEF Next
<1>3. Inv => AcceptedIsUsable
  BY DEF AcceptedIsUsable, Usable
<1>4. QED
  BY <1>1, <1>2, <1>3, PTL DEF Spec
-----------------------------------------------------------------------------
(* What main does with an input that is not as documented *)

IsFloat(v) == v.type \in {"float", "nan"}

\* As argparse makes an override
FloatOrNone(o) == o = NoOverride \/ IsFloat(o)

\* Of the readers only _number raises anything but ConfigError, for an integer.
LEMMA NumberFails ==
  ASSUME NEW v, NEW range
  PROVE  /\ Number(v, range) \in {"ok", "ConfigError", "OverflowError"}
         /\ Number(v, range) = "OverflowError" => v.type = "int" /\ BeyondFloat(v.n)
  BY DEF Number, Numeric, IsNumber, IsInt, Then, Require

LEMMA OthersFail ==
  ASSUME NEW v, NEW range
  PROVE  /\ Integer(v, range) \in {"ok", "ConfigError"}
         /\ LogLevel(v) \in {"ok", "ConfigError"}
         /\ LogPath(v) \in {"ok", "ConfigError"}
         /\ RejectUnknownKeys(v) \in {"ok", "ConfigError"}
  BY DEF Integer, LogLevel, LogPath, RejectUnknownKeys, Require

LEMMA OverrideFails ==
  ASSUME NEW o, NEW range, FloatOrNone(o)
  PROVE  Override(o, range) \in {"ok", "ConfigError"}
  BY NumberFails DEF Override, FloatOrNone, IsFloat, IsInt

\* A default is a float, so that an integer comes from the file.
LEMMA GetInt ==
  ASSUME NEW raw, NEW s, NEW key, NEW n,
         LET v == Get(raw, s, key, Num("float", n)) IN v.type = "int" /\ BeyondFloat(v.n)
  PROVE  HugeAt(raw, s, key)
<1>1. Num("float", n).type # "int"
  BY DEF Num
<1>2. s \in Tables(raw) /\ key \in DOMAIN raw[s].keys
  BY <1>1 DEF Get
<1>3. QED
  BY <1>2 DEF Get, HugeAt

HugeNumberRead(raw) ==
  \/ HugeAt(raw, "security", "idle_timeout_seconds")
  \/ HugeAt(raw, "runtime", "poll_interval_seconds")

LEMMA ReadTablesFails ==
  ASSUME NEW raw
  PROVE  LET status == ReadTables(raw).status IN
         /\ status \in {"ok", "ConfigError", "OverflowError"}
         /\ status = "OverflowError" => HugeNumberRead(raw)
<1> DEFINE timeout  == Get(raw, "security", "idle_timeout_seconds", Num("float", Defaults.timeout))
           poll     == Get(raw, "runtime", "poll_interval_seconds", Num("float", Defaults.poll))
           level    == Get(raw, "logging", "level", Str(Defaults.level))
           path     == Get(raw, "logging", "file", Str(Defaults.file))
           maxBytes == Get(raw, "logging", "max_bytes", Num("int", Defaults.maxBytes))
           backups  == Get(raw, "logging", "backup_count", Num("int", Defaults.backups))
           rest     == Then(LogLevel(level), Then(LogPath(path),
                       Then(Integer(maxBytes, BytesRange), Integer(backups, BackupsRange))))
<1>1. ReadTables(raw).status =
        Then(RejectUnknownKeys(raw),
        Then(Number(timeout, TimeoutRange), Then(Number(poll, PollRange), rest)))
  BY DEF ReadTables
<1>2. Number(timeout, TimeoutRange) = "OverflowError" => HugeNumberRead(raw)
  BY NumberFails, GetInt DEF HugeNumberRead
<1>3. Number(poll, PollRange) = "OverflowError" => HugeNumberRead(raw)
  BY NumberFails, GetInt DEF HugeNumberRead
<1> HIDE DEF timeout, poll, level, path, maxBytes, backups
<1>4. rest \in {"ok", "ConfigError"}
  BY OthersFail DEF Then
<1> HIDE DEF rest
<1>5. /\ Number(timeout, TimeoutRange) \in {"ok", "ConfigError", "OverflowError"}
      /\ Number(poll, PollRange) \in {"ok", "ConfigError", "OverflowError"}
      /\ RejectUnknownKeys(raw) \in {"ok", "ConfigError"}
  BY NumberFails, OthersFail
<1>6. QED
  BY <1>1, <1>2, <1>3, <1>4, <1>5 DEF Then

\* A file that parses, or none, and any two overrides are accepted or end in a
\* ConfigError, but for an integer beyond every float that stands for the timeout
\* or the interval (config.py:68-112,148-202).
THEOREM OnlyHugeNumbersEscape ==
  ASSUME NEW file, file.kind = "no path" \/ file.kind = "toml", NEW timeout, NEW poll,
         FloatOrNone(timeout), FloatOrNone(poll),
         Effective(file, timeout, poll).status \notin {"ok", "ConfigError"}
  PROVE  /\ file.kind = "toml" /\ HugeNumberRead(file.raw)
         /\ Effective(file, timeout, poll).status = "OverflowError"
<1>1. Override(timeout, TimeoutRange) \in {"ok", "ConfigError"}
        /\ Override(poll, PollRange) \in {"ok", "ConfigError"}
  BY OverrideFails
<1>2. LoadConfig(file).status \notin {"ok", "ConfigError"}
  <2>1. CASE LoadConfig(file).status = "ok"
    <3>1. Effective(file, timeout, poll).status =
            Then(Override(timeout, TimeoutRange), Override(poll, PollRange))
      BY <2>1 DEF Effective, ApplyOverrides
    <3>2. QED
      BY <1>1, <3>1 DEF Then
  <2>2. CASE LoadConfig(file).status # "ok"
    BY <2>2 DEF Effective
  <2>3. QED
    BY <2>1, <2>2
<1>3. Effective(file, timeout, poll).status = LoadConfig(file).status
  BY <1>2 DEF Effective
<1>4. CASE file.kind = "toml"
  <2>1. LoadConfig(file) = ReadTables(file.raw)
    BY <1>4 DEF LoadConfig
  <2>2. QED
    BY <1>2, <1>3, <1>4, <2>1, ReadTablesFails
<1>5. CASE file.kind = "no path"
  BY <1>2, <1>5 DEF LoadConfig
<1>6. QED
  BY <1>4, <1>5

\* What every state of MCConfig has in common: overrides as argparse makes them
InputInv ==
  /\ FloatOrNone(input.timeout)
  /\ FloatOrNone(input.poll)

ResultInv == result = NotLoaded \/ result = Effective(input.file, input.timeout, input.poll)

LEMMA InputInvHolds == Spec => [](InputInv /\ ResultInv)
<1>1. Init => InputInv /\ ResultInv
  BY DEF Init, InputInv, ResultInv, Overrides, FloatOrNone, IsFloat
<1>2. InputInv /\ ResultInv /\ [Next]_vars => (InputInv /\ ResultInv)'
  BY DEF Next, Load, vars, InputInv, ResultInv
<1>3. QED
  BY <1>1, <1>2, PTL DEF Spec

\* The invariant ParsedFailsCleanly of the run "config".
THEOREM ParsedFailsCleanlyHolds == Spec => []ParsedFailsCleanly
<1>1. InputInv /\ ResultInv => ParsedFailsCleanly
  <2> SUFFICES ASSUME InputInv, ResultInv, input.file.kind \in {"no path", "toml"},
                      result.status \notin {"none", "ok", "ConfigError"}
               PROVE  /\ input.file.kind = "toml" /\ HugeNumberRead(input.file.raw)
                      /\ result.status = "OverflowError"
    BY DEF ParsedFailsCleanly, HugeNumberRead
  <2>1. NotLoaded.status = "none"
    BY DEF NotLoaded
  <2>2. result = Effective(input.file, input.timeout, input.poll)
    BY <2>1 DEF ResultInv
  <2>3. /\ FloatOrNone(input.timeout) /\ FloatOrNone(input.poll)
        /\ input.file.kind = "no path" \/ input.file.kind = "toml"
    BY DEF InputInv
  <2>4. Effective(input.file, input.timeout, input.poll).status \notin {"ok", "ConfigError"}
    BY <2>2
  <2>5. /\ input.file.kind = "toml" /\ HugeNumberRead(input.file.raw)
        /\ Effective(input.file, input.timeout, input.poll).status = "OverflowError"
    <3> DEFINE file == input.file
               timeout == input.timeout
               poll == input.poll
    <3>1. /\ FloatOrNone(timeout) /\ FloatOrNone(poll)
          /\ file.kind = "no path" \/ file.kind = "toml"
          /\ Effective(file, timeout, poll).status \notin {"ok", "ConfigError"}
      BY <2>3, <2>4
    <3> HIDE DEF file, timeout, poll
    <3>2. /\ file.kind = "toml" /\ HugeNumberRead(file.raw)
          /\ Effective(file, timeout, poll).status = "OverflowError"
      BY <3>1, OnlyHugeNumbersEscape
    <3>3. QED
      BY <3>2 DEF file, timeout, poll
  <2>6. QED
    BY <2>2, <2>5
<1>2. QED
  BY <1>1, InputInvHolds, PTL
-----------------------------------------------------------------------------
(* The overrides and a file with the same values *)

\* The readers accept every default.
LEMMA DefaultsRead ==
  /\ LogLevel(Str(Defaults.level)) = "ok" /\ LogPath(Str(Defaults.file)) = "ok"
  /\ Integer(Num("int", Defaults.maxBytes), BytesRange) = "ok"
  /\ Integer(Num("int", Defaults.backups), BackupsRange) = "ok"
  /\ Number(Num("float", Defaults.timeout), TimeoutRange) = "ok"
  /\ Number(Num("float", Defaults.poll), PollRange) = "ok"
<1> DEFINE d == Defaults
<1>1. Upper(d.level) \in Levels
  <2>1. Upper(d.level) = d.level
    BY DEF Upper, UpperOf, Defaults
  <2>2. QED
    BY <2>1, DefaultsUsable DEF Usable
<1>2. /\ d.timeout \in TimeoutRange /\ d.poll \in PollRange
      /\ d.maxBytes \in BytesRange /\ d.backups \in BackupsRange
  BY DefaultsUsable DEF Usable
<1> HIDE DEF d
<1>3. LogLevel(Str(d.level)) = "ok" /\ LogPath(Str(d.file)) = "ok"
  BY <1>1 DEF LogLevel, LogPath, Require, Str
<1>4. /\ Integer(Num("int", d.maxBytes), BytesRange) = "ok"
      /\ Integer(Num("int", d.backups), BackupsRange) = "ok"
  BY <1>2 DEF Integer, Require, Num, IsInt
<1>5. /\ Number(Num("float", d.timeout), TimeoutRange) = "ok"
      /\ Number(Num("float", d.poll), PollRange) = "ok"
  BY <1>2 DEF Number, Numeric, IsNumber, IsInt, Then, Require, Num
<1>6. QED
  BY <1>3, <1>4, <1>5 DEF d

\* Every default is what its reading gives.
LEMMA DefaultsReadAs ==
  /\ Num("float", Defaults.timeout).n = Defaults.timeout
  /\ Num("float", Defaults.poll).n = Defaults.poll
  /\ Upper(Str(Defaults.level).text) = Defaults.level
  /\ Strip(Str(Defaults.file).text) = Defaults.file
  /\ Num("int", Defaults.maxBytes).n = Defaults.maxBytes
  /\ Num("int", Defaults.backups).n = Defaults.backups
  BY DEF Num, Str, Upper, UpperOf, Strip, NoFile, Defaults

\* An empty file gives the defaults.
LEMMA EmptyFileRead ==
  LoadConfig(File("toml", <<>>)) = [status |-> "ok", config |-> Defaults]
<1>1. DOMAIN <<>> = {}
  OBVIOUS
<1>2. Tables(<<>>) = {}
  BY <1>1 DEF Tables
<1>3. RejectUnknownKeys(<<>>) = "ok"
  BY <1>1, <1>2 DEF RejectUnknownKeys, Require
<1>4. \A s, key, default : Get(<<>>, s, key, default) = default
  BY <1>2 DEF Get
<1>5. ReadTables(<<>>).status = "ok"
  BY <1>3, <1>4, DefaultsRead DEF ReadTables, Then
<1>6. ReadTables(<<>>).config =
        [timeout |-> Defaults.timeout, poll |-> Defaults.poll, level |-> Defaults.level,
         file |-> Defaults.file, maxBytes |-> Defaults.maxBytes, backups |-> Defaults.backups]
  BY <1>4, DefaultsReadAs DEF ReadTables
<1>7. ReadTables(<<>>).config = Defaults
  BY <1>6 DEF Defaults
<1>8. ReadTables(<<>>) = [status |-> "ok", config |-> Defaults]
  BY <1>5, <1>7 DEF ReadTables
<1>9. QED
  BY <1>8 DEF LoadConfig, File

\* A file with two values reads them, and nothing else but defaults.
LEMMA TwoValuesRead ==
  ASSUME NEW t, NEW q
  PROVE  LET loaded == LoadConfig(AsFile(t, q)) IN
         /\ loaded.status = Then(Number(t, TimeoutRange), Number(q, PollRange))
         /\ loaded.config =
              [timeout |-> t.n, poll |-> q.n, level |-> Defaults.level, file |-> Defaults.file,
               maxBytes |-> Defaults.maxBytes, backups |-> Defaults.backups]
<1> DEFINE raw == [security |-> Single("idle_timeout_seconds", t),
                   runtime  |-> Single("poll_interval_seconds", q)]
<1>1. /\ DOMAIN raw = {"security", "runtime"}
      /\ raw["security"].isTable = TRUE /\ raw["runtime"].isTable = TRUE
      /\ raw["security"].keys = [x \in {"idle_timeout_seconds"} |-> t]
      /\ raw["runtime"].keys = [x \in {"poll_interval_seconds"} |-> q]
  BY DEF Single, Table
<1>2. LoadConfig(AsFile(t, q)) = ReadTables(raw)
  BY DEF LoadConfig, AsFile, File
<1> HIDE DEF raw
<1>3. Tables(raw) = DOMAIN raw
  BY <1>1 DEF Tables
<1>4. DOMAIN AllowedKeys = {"security", "runtime", "logging"}
        /\ AllowedKeys["security"] = {"idle_timeout_seconds"}
        /\ AllowedKeys["runtime"] = {"poll_interval_seconds"}
  BY DEF AllowedKeys
<1>5. RejectUnknownKeys(raw) = "ok"
  BY <1>1, <1>3, <1>4 DEF RejectUnknownKeys, Require
<1>6. /\ \A d : Get(raw, "security", "idle_timeout_seconds", d) = t
      /\ \A d : Get(raw, "runtime", "poll_interval_seconds", d) = q
      /\ \A key, d : Get(raw, "logging", key, d) = d
  BY <1>1, <1>3 DEF Get
<1>7. ReadTables(raw).status = Then(Number(t, TimeoutRange), Number(q, PollRange))
  BY <1>5, <1>6, DefaultsRead DEF ReadTables, Then
<1>8. ReadTables(raw).config =
        [timeout |-> t.n, poll |-> q.n, level |-> Defaults.level, file |-> Defaults.file,
         maxBytes |-> Defaults.maxBytes, backups |-> Defaults.backups]
  BY <1>6, DefaultsReadAs DEF ReadTables
<1>9. QED
  BY <1>2, <1>7, <1>8

\* The overrides have the same outcome as a file with the same values
\* (CONFIGURATION.md:46).
THEOREM OverridesActAsFile ==
  ASSUME NEW t, NEW q, t # NoOverride, q # NoOverride
  PROVE  LET loaded    == LoadConfig(AsFile(t, q))
             effective == Effective(File("toml", <<>>), t, q)
         IN loaded.status = effective.status /\ loaded.config = effective.config
<1>1. Effective(File("toml", <<>>), t, q) = ApplyOverrides(Defaults, t, q)
  BY EmptyFileRead DEF Effective
<1>2. /\ ApplyOverrides(Defaults, t, q).status =
           Then(Number(t, TimeoutRange), Number(q, PollRange))
      /\ ApplyOverrides(Defaults, t, q).config =
           [timeout |-> t.n, poll |-> q.n, level |-> Defaults.level, file |-> Defaults.file,
            maxBytes |-> Defaults.maxBytes, backups |-> Defaults.backups]
  BY DEF ApplyOverrides, Override
<1>3. QED
  BY <1>1, <1>2, TwoValuesRead

\* The invariant OverrideIsFileValue of the run "config".
THEOREM OverrideIsFileValueHolds == Spec => []OverrideIsFileValue
<1>1. ResultInv => OverrideIsFileValue
  BY OverridesActAsFile DEF ResultInv, OverrideIsFileValue
<1>2. QED
  BY <1>1, InputInvHolds, PTL
-----------------------------------------------------------------------------
(* What is accepted is what is documented *)

\* A value with an integer: all that TLC enumerates are, and all of Config's Value
Counted(v) == v.n \in Int

TypedFile(file) ==
  file.kind = "toml" =>
    \A s \in Tables(file.raw) : \A k \in DOMAIN file.raw[s].keys : Counted(file.raw[s].keys[k])

LEMMA TimeoutDocumented ==
  ASSUME NEW v, Counted(v)
  PROVE  Number(v, TimeoutRange) = "ok" <=> InRange(v, 50, 864000)
<1>1. v.n \in Int /\ FloatMax \in Int /\ FloatMax >= 864000
  BY FloatAssumption DEF Counted
<1>2. v.n \in TimeoutRange <=> 50 <= v.n /\ v.n <= 864000
  BY <1>1, SMT DEF TimeoutRange, Between
<1>3. v.n \in TimeoutRange => ~BeyondFloat(v.n)
  BY <1>1, <1>2, SMT DEF BeyondFloat
<1>4. Number(v, TimeoutRange) = "ok" <=>
        v.type \in {"int", "float"} /\ v.n \in TimeoutRange
  BY <1>3 DEF Number, Numeric, IsNumber, IsInt, Then, Require
<1>5. QED
  BY <1>2, <1>4 DEF InRange

LEMMA PollDocumented ==
  ASSUME NEW v, Counted(v)
  PROVE  Number(v, PollRange) = "ok" <=> InRange(v, 1, 600)
<1>1. v.n \in Int /\ FloatMax \in Int /\ FloatMax >= 864000
  BY FloatAssumption DEF Counted
<1>2. v.n \in PollRange <=> 1 <= v.n /\ v.n <= 600
  BY <1>1, SMT DEF PollRange, Between
<1>3. v.n \in PollRange => ~BeyondFloat(v.n)
  BY <1>1, <1>2, SMT DEF BeyondFloat
<1>4. Number(v, PollRange) = "ok" <=>
        v.type \in {"int", "float"} /\ v.n \in PollRange
  BY <1>3 DEF Number, Numeric, IsNumber, IsInt, Then, Require
<1>5. QED
  BY <1>2, <1>4 DEF InRange

LEMMA IntegersDocumented ==
  ASSUME NEW v, Counted(v)
  PROVE  /\ Integer(v, BytesRange) = "ok" <=> v.type = "int" /\ InRange(v, 10240, 1048576000)
         /\ Integer(v, BackupsRange) = "ok" <=> v.type = "int" /\ InRange(v, 0, 200)
<1>1. /\ v.n \in BytesRange <=> 10240 <= v.n /\ v.n <= 1048576000
      /\ v.n \in BackupsRange <=> 0 <= v.n /\ v.n <= 200
  BY SMT DEF Counted, BytesRange, BackupsRange, Between
<1>2. QED
  BY <1>1 DEF Integer, IsInt, Require, InRange

LEMMA TextsDocumented ==
  ASSUME NEW v
  PROVE  /\ LogLevel(v) = "ok" <=> v.type = "str" /\ v.text \in DOMAIN UpperOf \cup Levels
         /\ LogPath(v) = "ok" <=> v.type = "str"
<1>1. Upper(v.text) \in Levels <=> v.text \in DOMAIN UpperOf \cup Levels
  BY DEF Upper, Levels
<1>2. QED
  BY <1>1 DEF LogLevel, LogPath, Require

\* One key: its reading succeeds exactly if it is missing or as documented.
Present(raw, s, key) == s \in Tables(raw) /\ key \in DOMAIN raw[s].keys

KeyDocumented(raw, s, key) == Present(raw, s, key) => DocumentedValue(key, raw[s].keys[key])

LEMMA KeysDocumented ==
  ASSUME NEW raw, \A s \in Tables(raw) : \A k \in DOMAIN raw[s].keys : Counted(raw[s].keys[k])
  PROVE  /\ Number(Get(raw, "security", "idle_timeout_seconds", Num("float", Defaults.timeout)), TimeoutRange) = "ok"
              <=> KeyDocumented(raw, "security", "idle_timeout_seconds")
         /\ Number(Get(raw, "runtime", "poll_interval_seconds", Num("float", Defaults.poll)), PollRange) = "ok"
              <=> KeyDocumented(raw, "runtime", "poll_interval_seconds")
         /\ LogLevel(Get(raw, "logging", "level", Str(Defaults.level))) = "ok"
              <=> KeyDocumented(raw, "logging", "level")
         /\ LogPath(Get(raw, "logging", "file", Str(Defaults.file))) = "ok"
              <=> KeyDocumented(raw, "logging", "file")
         /\ Integer(Get(raw, "logging", "max_bytes", Num("int", Defaults.maxBytes)), BytesRange) = "ok"
              <=> KeyDocumented(raw, "logging", "max_bytes")
         /\ Integer(Get(raw, "logging", "backup_count", Num("int", Defaults.backups)), BackupsRange) = "ok"
              <=> KeyDocumented(raw, "logging", "backup_count")
<1>1. ASSUME NEW s, NEW key, NEW default, ~Present(raw, s, key)
      PROVE  Get(raw, s, key, default) = default /\ KeyDocumented(raw, s, key)
  BY <1>1 DEF Present, KeyDocumented, Get
<1>2. ASSUME NEW s, NEW key, NEW default, Present(raw, s, key)
      PROVE  /\ Get(raw, s, key, default) = raw[s].keys[key]
             /\ Counted(Get(raw, s, key, default))
             /\ KeyDocumented(raw, s, key) <=> DocumentedValue(key, Get(raw, s, key, default))
  BY <1>2 DEF Present, KeyDocumented, Get
<1>3. Number(Get(raw, "security", "idle_timeout_seconds", Num("float", Defaults.timeout)), TimeoutRange) = "ok"
       <=> KeyDocumented(raw, "security", "idle_timeout_seconds")
  <2>1. CASE ~Present(raw, "security", "idle_timeout_seconds")
    BY <1>1, <2>1, DefaultsRead
  <2>2. CASE Present(raw, "security", "idle_timeout_seconds")
    <3> DEFINE v == Get(raw, "security", "idle_timeout_seconds", Num("float", Defaults.timeout))
    <3>1. Counted(v) /\ (KeyDocumented(raw, "security", "idle_timeout_seconds") <=> DocumentedValue("idle_timeout_seconds", v))
      BY <1>2, <2>2
    <3> HIDE DEF v
    <3>2. Number(v, TimeoutRange) = "ok" <=> DocumentedValue("idle_timeout_seconds", v)
      BY <3>1, TimeoutDocumented DEF DocumentedValue
    <3>3. QED
      BY <3>1, <3>2 DEF v
  <2>3. QED
    BY <2>1, <2>2
<1>4. Number(Get(raw, "runtime", "poll_interval_seconds", Num("float", Defaults.poll)), PollRange) = "ok"
       <=> KeyDocumented(raw, "runtime", "poll_interval_seconds")
  <2>1. CASE ~Present(raw, "runtime", "poll_interval_seconds")
    BY <1>1, <2>1, DefaultsRead
  <2>2. CASE Present(raw, "runtime", "poll_interval_seconds")
    <3> DEFINE v == Get(raw, "runtime", "poll_interval_seconds", Num("float", Defaults.poll))
    <3>1. Counted(v) /\ (KeyDocumented(raw, "runtime", "poll_interval_seconds") <=> DocumentedValue("poll_interval_seconds", v))
      BY <1>2, <2>2
    <3> HIDE DEF v
    <3>2. Number(v, PollRange) = "ok" <=> DocumentedValue("poll_interval_seconds", v)
      BY <3>1, PollDocumented DEF DocumentedValue
    <3>3. QED
      BY <3>1, <3>2 DEF v
  <2>3. QED
    BY <2>1, <2>2
<1>5. LogLevel(Get(raw, "logging", "level", Str(Defaults.level))) = "ok"
       <=> KeyDocumented(raw, "logging", "level")
  <2>1. CASE ~Present(raw, "logging", "level")
    BY <1>1, <2>1, DefaultsRead
  <2>2. CASE Present(raw, "logging", "level")
    <3> DEFINE v == Get(raw, "logging", "level", Str(Defaults.level))
    <3>1. Counted(v) /\ (KeyDocumented(raw, "logging", "level") <=> DocumentedValue("level", v))
      BY <1>2, <2>2
    <3> HIDE DEF v
    <3>2. LogLevel(v) = "ok" <=> DocumentedValue("level", v)
      BY <3>1, TextsDocumented DEF DocumentedValue
    <3>3. QED
      BY <3>1, <3>2 DEF v
  <2>3. QED
    BY <2>1, <2>2
<1>6. LogPath(Get(raw, "logging", "file", Str(Defaults.file))) = "ok"
       <=> KeyDocumented(raw, "logging", "file")
  <2>1. CASE ~Present(raw, "logging", "file")
    BY <1>1, <2>1, DefaultsRead
  <2>2. CASE Present(raw, "logging", "file")
    <3> DEFINE v == Get(raw, "logging", "file", Str(Defaults.file))
    <3>1. Counted(v) /\ (KeyDocumented(raw, "logging", "file") <=> DocumentedValue("file", v))
      BY <1>2, <2>2
    <3> HIDE DEF v
    <3>2. LogPath(v) = "ok" <=> DocumentedValue("file", v)
      BY <3>1, TextsDocumented DEF DocumentedValue
    <3>3. QED
      BY <3>1, <3>2 DEF v
  <2>3. QED
    BY <2>1, <2>2
<1>7. Integer(Get(raw, "logging", "max_bytes", Num("int", Defaults.maxBytes)), BytesRange) = "ok"
       <=> KeyDocumented(raw, "logging", "max_bytes")
  <2>1. CASE ~Present(raw, "logging", "max_bytes")
    BY <1>1, <2>1, DefaultsRead
  <2>2. CASE Present(raw, "logging", "max_bytes")
    <3> DEFINE v == Get(raw, "logging", "max_bytes", Num("int", Defaults.maxBytes))
    <3>1. Counted(v) /\ (KeyDocumented(raw, "logging", "max_bytes") <=> DocumentedValue("max_bytes", v))
      BY <1>2, <2>2
    <3> HIDE DEF v
    <3>2. Integer(v, BytesRange) = "ok" <=> DocumentedValue("max_bytes", v)
      BY <3>1, IntegersDocumented DEF DocumentedValue
    <3>3. QED
      BY <3>1, <3>2 DEF v
  <2>3. QED
    BY <2>1, <2>2
<1>8. Integer(Get(raw, "logging", "backup_count", Num("int", Defaults.backups)), BackupsRange) = "ok"
       <=> KeyDocumented(raw, "logging", "backup_count")
  <2>1. CASE ~Present(raw, "logging", "backup_count")
    BY <1>1, <2>1, DefaultsRead
  <2>2. CASE Present(raw, "logging", "backup_count")
    <3> DEFINE v == Get(raw, "logging", "backup_count", Num("int", Defaults.backups))
    <3>1. Counted(v) /\ (KeyDocumented(raw, "logging", "backup_count") <=> DocumentedValue("backup_count", v))
      BY <1>2, <2>2
    <3> HIDE DEF v
    <3>2. Integer(v, BackupsRange) = "ok" <=> DocumentedValue("backup_count", v)
      BY <3>1, IntegersDocumented DEF DocumentedValue
    <3>3. QED
      BY <3>1, <3>2 DEF v
  <2>3. QED
    BY <2>1, <2>2
<1>9. QED
  BY <1>3, <1>4, <1>5, <1>6, <1>7, <1>8

LEMMA ReadTablesDocumented ==
  ASSUME NEW file, file.kind = "toml", TypedFile(file)
  PROVE  ReadTables(file.raw).status = "ok" <=> DocumentedFile(file)
<1> DEFINE raw      == file.raw
           timeout  == Get(raw, "security", "idle_timeout_seconds", Num("float", Defaults.timeout))
           poll     == Get(raw, "runtime", "poll_interval_seconds", Num("float", Defaults.poll))
           level    == Get(raw, "logging", "level", Str(Defaults.level))
           path     == Get(raw, "logging", "file", Str(Defaults.file))
           maxBytes == Get(raw, "logging", "max_bytes", Num("int", Defaults.maxBytes))
           backups  == Get(raw, "logging", "backup_count", Num("int", Defaults.backups))
<1>1. ReadTables(raw).status =
        Then(RejectUnknownKeys(raw),
        Then(Number(timeout, TimeoutRange),
        Then(Number(poll, PollRange),
        Then(LogLevel(level), Then(LogPath(path),
        Then(Integer(maxBytes, BytesRange), Integer(backups, BackupsRange)))))))
  BY DEF ReadTables
<1>2. /\ Number(timeout, TimeoutRange) = "ok"
           <=> KeyDocumented(raw, "security", "idle_timeout_seconds")
      /\ Number(poll, PollRange) = "ok"
           <=> KeyDocumented(raw, "runtime", "poll_interval_seconds")
      /\ LogLevel(level) = "ok" <=> KeyDocumented(raw, "logging", "level")
      /\ LogPath(path) = "ok" <=> KeyDocumented(raw, "logging", "file")
      /\ Integer(maxBytes, BytesRange) = "ok" <=> KeyDocumented(raw, "logging", "max_bytes")
      /\ Integer(backups, BackupsRange) = "ok" <=> KeyDocumented(raw, "logging", "backup_count")
  BY KeysDocumented DEF TypedFile
<1> HIDE DEF raw, timeout, poll, level, path, maxBytes, backups
<1> DEFINE AllKeys == /\ KeyDocumented(raw, "security", "idle_timeout_seconds")
                      /\ KeyDocumented(raw, "runtime", "poll_interval_seconds")
                      /\ KeyDocumented(raw, "logging", "level")
                      /\ KeyDocumented(raw, "logging", "file")
                      /\ KeyDocumented(raw, "logging", "max_bytes")
                      /\ KeyDocumented(raw, "logging", "backup_count")
           Known   == /\ DOMAIN raw \subseteq DOMAIN AllowedKeys
                      /\ Tables(raw) = DOMAIN raw
                      /\ \A s \in DOMAIN raw : DOMAIN raw[s].keys \subseteq AllowedKeys[s]
<1>3. ReadTables(raw).status = "ok" <=> RejectUnknownKeys(raw) = "ok" /\ AllKeys
  BY <1>1, <1>2 DEF Then
<1>4. RejectUnknownKeys(raw) = "ok" <=> Known
  BY DEF RejectUnknownKeys, Require
<1>5. /\ DOMAIN AllowedKeys = {"security", "runtime", "logging"}
      /\ AllowedKeys["security"] = {"idle_timeout_seconds"}
      /\ AllowedKeys["runtime"] = {"poll_interval_seconds"}
      /\ AllowedKeys["logging"] = {"level", "file", "max_bytes", "backup_count"}
  BY DEF AllowedKeys
<1>6. DocumentedFile(file) <=>
        \A s \in DOMAIN raw :
          /\ raw[s].isTable /\ s \in {"security", "runtime", "logging"}
          /\ \A k \in DOMAIN raw[s].keys :
               k \in AllowedKeys[s] /\ DocumentedValue(k, raw[s].keys[k])
  BY DEF DocumentedFile, raw
<1>7. Known /\ AllKeys => DocumentedFile(file)
  <2> SUFFICES ASSUME Known, AllKeys, NEW s \in DOMAIN raw
               PROVE  /\ raw[s].isTable /\ s \in {"security", "runtime", "logging"}
                      /\ \A k \in DOMAIN raw[s].keys :
                           k \in AllowedKeys[s] /\ DocumentedValue(k, raw[s].keys[k])
    BY <1>6
  <2>1. s \in {"security", "runtime", "logging"}
    BY <1>5
  <2>2. s \in Tables(raw) /\ raw[s].isTable
    BY DEF Tables
  <2>3. ASSUME NEW k \in DOMAIN raw[s].keys
        PROVE  k \in AllowedKeys[s] /\ DocumentedValue(k, raw[s].keys[k])
    <3>1. k \in AllowedKeys[s]
      OBVIOUS
    <3>2. KeyDocumented(raw, s, k)
      BY <1>5, <2>1, <3>1
    <3>3. QED
      BY <2>2, <3>1, <3>2 DEF KeyDocumented, Present
  <2>4. QED
    BY <2>1, <2>2, <2>3
<1>8. DocumentedFile(file) => Known
  BY <1>5, <1>6 DEF Tables
<1>9. DocumentedFile(file) => AllKeys
  <2> SUFFICES ASSUME DocumentedFile(file), NEW s, NEW k PROVE KeyDocumented(raw, s, k)
    OBVIOUS
  <2>1. QED
    BY <1>6 DEF KeyDocumented, Present, Tables
<1>10. QED
  BY <1>3, <1>4, <1>7, <1>8, <1>9 DEF raw

LEMMA OverridesDocumented ==
  ASSUME NEW o, o = NoOverride \/ Counted(o)
  PROVE  /\ Override(o, TimeoutRange) = "ok" <=> (o = NoOverride \/ InRange(o, 50, 864000))
         /\ Override(o, PollRange) = "ok" <=> (o = NoOverride \/ InRange(o, 1, 600))
  BY TimeoutDocumented, PollDocumented DEF Override

\* A file and overrides are accepted exactly if every part of them is as
\* CONFIGURATION.md:6-46 says (config.py:53-145).
THEOREM AcceptedExactlyAsDocumented ==
  ASSUME NEW file, TypedFile(file),
         NEW timeout, timeout = NoOverride \/ Counted(timeout),
         NEW poll, poll = NoOverride \/ Counted(poll)
  PROVE  Effective(file, timeout, poll).status = "ok" <=>
           /\ DocumentedFile(file)
           /\ timeout = NoOverride \/ InRange(timeout, 50, 864000)
           /\ poll = NoOverride \/ InRange(poll, 1, 600)
<1>1. LoadConfig(file).status = "ok" <=> DocumentedFile(file)
  <2>1. CASE file.kind = "no path"
    BY <2>1 DEF LoadConfig, DocumentedFile
  <2>2. CASE file.kind = "toml"
    <3>1. LoadConfig(file) = ReadTables(file.raw)
      BY <2>2 DEF LoadConfig
    <3>2. QED
      BY <2>2, <3>1, ReadTablesDocumented
  <2>3. CASE file.kind \notin {"no path", "toml"}
    BY <2>3 DEF LoadConfig, ReadFailure, DocumentedFile
  <2>4. QED
    BY <2>1, <2>2, <2>3
<1>2. CASE LoadConfig(file).status # "ok"
  BY <1>1, <1>2 DEF Effective
<1>3. CASE LoadConfig(file).status = "ok"
  <2>1. Effective(file, timeout, poll).status =
          Then(Override(timeout, TimeoutRange), Override(poll, PollRange))
    BY <1>3 DEF Effective, ApplyOverrides
  <2>2. QED
    BY <1>1, <1>3, <2>1, OverridesDocumented DEF Then
<1>4. QED
  BY <1>2, <1>3
-----------------------------------------------------------------------------
(* The inputs of the run "config" are typed *)

TypedTable(table) == \A k \in DOMAIN table.keys : Counted(table.keys[k])

LEMMA NumCounted == ASSUME NEW t, NEW n \in Int PROVE Counted(Num(t, n))
  BY DEF Counted, Num

LEMMA StrCounted == ASSUME NEW text PROVE Counted(Str(text))
  BY DEF Counted, Str

LEMMA SingleTyped ==
  ASSUME NEW k, NEW v, Counted(v)
  PROVE  TypedTable(Single(k, v))
  BY DEF TypedTable, Single, Table

LEMMA ValuesCounted ==
  ASSUME NEW v \in TimeoutValues \cup PollValues
  PROVE  Counted(v)
<1>1. FloatMax + 1 \in Int /\ -FloatMax - 1 \in Int
  BY FloatAssumption
<1>2. \A w \in Odd : Counted(w)
  BY <1>1, NumCounted, StrCounted DEF Odd, Huge
<1>3. QED
  BY <1>2, NumCounted DEF TimeoutValues, PollValues

LEMMA EmptyTyped == TypedTable(Table(<<>>)) /\ TypedTable(NoTable)
  BY DEF TypedTable, Table, NoTable

LEMMA SecuritiesTyped == \A t \in Securities : TypedTable(t)
<1>1. \A v \in TimeoutValues : TypedTable(Single("idle_timeout_seconds", v))
  BY ValuesCounted, SingleTyped
<1>2. TypedTable(Single("idle_timeout", Num("int", 50)))
  BY NumCounted, SingleTyped
<1>3. TypedTable(Single("idle_timeout", Huge))
  <2>1. Huge \in TimeoutValues
    BY DEF TimeoutValues, Odd
  <2>2. QED
    BY <2>1, ValuesCounted, SingleTyped
<1>4. QED
  BY <1>1, <1>2, <1>3, EmptyTyped DEF Securities

LEMMA RuntimesTyped == \A t \in Runtimes : TypedTable(t)
<1>1. \A v \in PollValues : TypedTable(Single("poll_interval_seconds", v))
  BY ValuesCounted, SingleTyped
<1>2. QED
  BY <1>1, EmptyTyped DEF Runtimes

LEMMA LoggingsTyped == \A t \in Loggings : TypedTable(t)
<1> DEFINE levels  == {Single("level", Str(t)) : t \in {"info", "Info", "DEBUG", "trace", ""}}
           paths   == {Single("file", Str(t)) : t \in {"", " ", "a.log"}}
           bytes   == {Single("max_bytes", Num("int", n)) : n \in {10230, 10240, FloatMax + 1}}
           Odds(k) == {Single(k, Num(t, 10)) : t \in {"bool", "float"}}
           keys    == {"max_bytes", "backup_count", "level", "file", "size"}
           odds    == UNION {Odds(k) : k \in keys}
           Both(n) == [isTable |-> TRUE, keys |->
                        [level |-> Str("error"), backup_count |-> Num("int", n)]]
           boths   == {Both(n) : n \in {-10, 0, 200, 210}}
<1>1. Loggings = levels \cup paths \cup bytes \cup odds \cup boths
  BY DEF Loggings
<1>2. \A t \in levels : TypedTable(t)
  BY StrCounted, SingleTyped
<1>3. \A t \in paths : TypedTable(t)
  BY StrCounted, SingleTyped
<1>4. \A t \in bytes : TypedTable(t)
  <2>1. FloatMax + 1 \in Int
    BY FloatAssumption
  <2>2. QED
    BY <2>1, NumCounted, SingleTyped
<1>5. \A t \in odds : TypedTable(t)
  <2>1. ASSUME NEW k \in keys, NEW t \in Odds(k) PROVE TypedTable(t)
    <3>1. \A type : TypedTable(Single(k, Num(type, 10)))
      BY NumCounted, SingleTyped
    <3>2. QED
      BY <2>1, <3>1
  <2> HIDE DEF Odds, keys
  <2>2. QED
    BY <2>1
<1>6. \A t \in boths : TypedTable(t)
  <2>1. ASSUME NEW n \in Int PROVE TypedTable(Both(n))
    BY NumCounted, StrCounted DEF TypedTable
  <2>2. \A n \in {-10, 0, 200, 210} : n \in Int
    OBVIOUS
  <2> HIDE DEF Both
  <2>3. QED
    BY <2>1, <2>2
<1> HIDE DEF levels, paths, bytes, odds, boths
<1>7. QED
  BY <1>1, <1>2, <1>3, <1>4, <1>5, <1>6

\* Raws by what their sections are
LEMMA RawsTyped ==
  ASSUME NEW raw \in Raws, NEW s \in DOMAIN raw
  PROVE  TypedTable(raw[s])
<1>1. CASE raw = <<>>
  BY <1>1
<1>2. CASE raw \in [{"security"} -> Securities]
  BY <1>2, SecuritiesTyped
<1>3. CASE raw \in [{"runtime"} -> Runtimes]
  BY <1>3, RuntimesTyped
<1>4. CASE raw \in [{"logging"} -> Loggings]
  BY <1>4, LoggingsTyped
<1>5. CASE raw \in [{"display"} -> {Table(<<>>)}]
  BY <1>5, EmptyTyped
<1>6. CASE raw \in [security : Securities, runtime : Runtimes]
  BY <1>6, SecuritiesTyped, RuntimesTyped
<1>7. CASE raw \in [security : Securities, logging : Loggings]
  BY <1>7, SecuritiesTyped, LoggingsTyped
<1>8. QED
  BY <1>1, <1>2, <1>3, <1>4, <1>5, <1>6, <1>7 DEF Raws

LEMMA FilesTyped == ASSUME NEW file \in Files PROVE TypedFile(file)
<1>1. CASE file.kind # "toml"
  BY <1>1 DEF TypedFile
<1>2. CASE file.kind = "toml"
  <2> DEFINE kinds == {"no path"} \cup DOMAIN Raises
  <2>a. \A k \in kinds : File(k, <<>>).kind # "toml"
    BY DEF File, Raises
  <2>b. \/ \E k \in kinds : file = File(k, <<>>)
        \/ \E raw \in Raws : file = File("toml", raw)
    BY DEF Files
  <2>1. PICK raw \in Raws : file = File("toml", raw)
    BY <1>2, <2>a, <2>b
  <2>2. file.raw = raw
    BY <2>1 DEF File
  <2>3. QED
    BY <2>2, RawsTyped DEF TypedFile, TypedTable, Tables
<1>3. QED
  BY <1>1, <1>2

TypedInput ==
  /\ TypedFile(input.file)
  /\ input.timeout = NoOverride \/ Counted(input.timeout)
  /\ input.poll = NoOverride \/ Counted(input.poll)

LEMMA TypedInputHolds == Spec => []TypedInput
<1>1. Init => TypedInput
  BY FilesTyped, ValuesCounted DEF Init, Overrides, TypedInput
<1>2. TypedInput /\ [Next]_vars => TypedInput'
  BY DEF Next, Load, vars, TypedInput
<1>3. QED
  BY <1>1, <1>2, PTL DEF Spec

\* The invariant AcceptsDocumented of the run "config".
THEOREM AcceptsDocumentedHolds == Spec => []AcceptsDocumented
<1>1. TypedInput /\ ResultInv => AcceptsDocumented
  BY AcceptedExactlyAsDocumented DEF TypedInput, ResultInv, AcceptsDocumented
<1>2. QED
  BY <1>1, TypedInputHolds, InputInvHolds, PTL
=============================================================================
