------------------------------- MODULE Config -------------------------------
(***************************************************************************)
(* load_config and apply_overrides (config.py): what a TOML file and the   *)
(* command line make of the configuration, and the detection gap app.py    *)
(* derives from it.  Numbers are tenths, so that 0.1 is 1 and an integer   *)
(* is a multiple of 10.                                                    *)
(***************************************************************************)
EXTENDS Integers

CONSTANT FloatMax     \* the largest number float() can represent

ASSUME FloatAssumption == FloatMax \in Nat /\ FloatMax >= 864000

\* A value as tomllib returns it: a bool is an int to isinstance, "nan" is the
\* float that is in no range, "other" a date, a list or a table.
Type  == {"bool", "int", "float", "nan", "str", "other"}
Value == [type : Type, n : Int, text : STRING]

IsInt(v)    == v.type \in {"int", "bool"}
IsNumber(v) == IsInt(v) \/ v.type \in {"float", "nan"}

Num(type, n) == [type |-> type, n |-> n, text |-> ""]
Str(text)    == [type |-> "str", n |-> 0, text |-> text]

\* What a reader does: it returns ("ok"), or raises; the first to raise counts.
Then(first, second)  == IF first = "ok" THEN second ELSE first
Require(test, error) == IF test THEN "ok" ELSE error
-----------------------------------------------------------------------------
Between(lo, hi) == {n \in Int : lo <= n /\ n <= hi}

TimeoutRange == Between(50, 864000)
PollRange    == Between(1, 600)
BytesRange   == Between(10240, 1048576000)
BackupsRange == Between(0, 200)

\* What upper() makes of the texts that are not in capitals: "Info" stands for
\* those in mixed case.
UpperOf == [debug |-> "DEBUG", info |-> "INFO", Info |-> "INFO", warning |-> "WARNING",
            error |-> "ERROR", critical |-> "CRITICAL"]
Levels  == {UpperOf[t] : t \in DOMAIN UpperOf}
Upper(text) == IF text \in DOMAIN UpperOf THEN UpperOf[text] ELSE text

Defaults == [timeout |-> 3000, poll |-> 10, level |-> "INFO",
             file |-> "logs/sentinel-lock.log", maxBytes |-> 10485760, backups |-> 30]

AllowedKeys == [security |-> {"idle_timeout_seconds"},
                runtime  |-> {"poll_interval_seconds"},
                logging  |-> {"level", "file", "max_bytes", "backup_count"}]

BoolIsNumber(v) == IsNumber(v)     \* mutant: the test for bool is dropped
Numeric(v)      == IsNumber(v) /\ v.type # "bool"

BeyondFloat(n) == n > FloatMax \/ n < -FloatMax

NumberUntested(v, range) ==     \* mutant: float() comes before the test of the type
  Then(Require(v.type # "other", "TypeError"),
       Require(v.type # "nan" /\ v.n \in range, "ConfigError"))

\* _number: float() of an int beyond every float raises, before the test.
Number(v, range) ==
  Then(Require(Numeric(v), "ConfigError"),
  Then(Require(~(IsInt(v) /\ BeyondFloat(v.n)), "OverflowError"),
       Require(v.type # "nan" /\ v.n \in range, "ConfigError")))

\* _integer
Integer(v, range) == Require(v.type # "bool" /\ IsInt(v) /\ v.n \in range, "ConfigError")

\* _log_level
LogLevel(v) == Require(v.type = "str" /\ Upper(v.text) \in Levels, "ConfigError")

\* _log_path: a text of blanks stands for no file.
LogPath(v) == Require(v.type = "str", "ConfigError")
NoFile     == ""
Strip(text) == IF text = " " THEN NoFile ELSE text
-----------------------------------------------------------------------------
(* A file: that it cannot be read as one, or the tables in it, by section *)

\* The sections that are tables, with values under some keys
Tables(raw) == {s \in DOMAIN raw : raw[s].isTable}

\* _reject_unknown_keys, and the tests for a table that _table repeats
RejectUnknownKeys(raw) ==
  Require(/\ DOMAIN raw \subseteq DOMAIN AllowedKeys
          /\ Tables(raw) = DOMAIN raw
          /\ \A s \in DOMAIN raw : DOMAIN raw[s].keys \subseteq AllowedKeys[s],
          "ConfigError")

Get(raw, s, key, default) ==
  IF s \in Tables(raw) /\ key \in DOMAIN raw[s].keys THEN raw[s].keys[key] ELSE default

\* The readings of the six keys, in the order of load_config
ReadTables(raw) ==
  LET timeout  == Get(raw, "security", "idle_timeout_seconds", Num("float", Defaults.timeout))
      poll     == Get(raw, "runtime", "poll_interval_seconds", Num("float", Defaults.poll))
      level    == Get(raw, "logging", "level", Str(Defaults.level))
      path     == Get(raw, "logging", "file", Str(Defaults.file))
      maxBytes == Get(raw, "logging", "max_bytes", Num("int", Defaults.maxBytes))
      backups  == Get(raw, "logging", "backup_count", Num("int", Defaults.backups))
  IN [status |-> Then(RejectUnknownKeys(raw),
                 Then(Number(timeout, TimeoutRange),
                 Then(Number(poll, PollRange),
                 Then(LogLevel(level), Then(LogPath(path),
                 Then(Integer(maxBytes, BytesRange),
                      Integer(backups, BackupsRange))))))),
      config |-> [timeout |-> timeout.n, poll |-> poll.n, level |-> Upper(level.text),
                  file |-> Strip(path.text), maxBytes |-> maxBytes.n, backups |-> backups.n]]

\* What open and tomllib.load raise for a file that is no TOML: missing, not to be
\* read, malformed, in another encoding than UTF-8, nested too deep for the
\* parser's recursion, or with a decimal integer of more digits than int() takes
Raises == [missing   |-> "FileNotFoundError", unreadable |-> "OSError",
           malformed |-> "TOMLDecodeError",   encoding   |-> "UnicodeDecodeError",
           nesting   |-> "RecursionError",    digits     |-> "ValueError"]

\* The except clauses of load_config
Caught == {"FileNotFoundError", "OSError", "TOMLDecodeError"}

ReadFailure(kind) == IF Raises[kind] \in Caught THEN "ConfigError" ELSE "uncaught"

\* load_config: no path gives the defaults.
LoadConfig(file) ==
  IF file.kind = "no path" THEN [status |-> "ok", config |-> Defaults]
  ELSE IF file.kind = "toml" THEN ReadTables(file.raw)
  ELSE [status |-> ReadFailure(file.kind), config |-> Defaults]

-----------------------------------------------------------------------------
(* apply_overrides: each override is None or a value *)

NoOverride == Num("other", 0)

WideRange(o, range) ==     \* mutant: an override has no lower bound of its own
  IF o = NoOverride THEN "ok" ELSE Number(o, Between(0, 864000))

Override(o, range) == IF o = NoOverride THEN "ok" ELSE Number(o, range)

ApplyOverrides(config, timeout, poll) ==
  [status |-> Then(Override(timeout, TimeoutRange),
                   Override(poll, PollRange)),
   config |-> [timeout  |-> IF timeout = NoOverride THEN config.timeout ELSE timeout.n,
               poll     |-> IF poll = NoOverride THEN config.poll ELSE poll.n,
               level    |-> config.level,    file    |-> config.file,
               maxBytes |-> config.maxBytes, backups |-> config.backups]]

\* main: load_config, then apply_overrides
Effective(file, timeout, poll) ==
  LET loaded == LoadConfig(file) IN
  IF loaded.status = "ok" THEN ApplyOverrides(loaded.config, timeout, poll) ELSE loaded

\* gap_seconds of the resume detector
EqualGap(config) == IF 100 >= config.poll THEN 100 ELSE config.poll     \* mutant: no factor
GapOf(config) == IF 100 >= 4 * config.poll THEN 100 ELSE 4 * config.poll
=============================================================================
