------------------------------ MODULE MCConfig ------------------------------
(***************************************************************************)
(* Config for TLC.  The functions of Config keep no state: an initial      *)
(* state is one input of main (a file and two overrides), and the one step *)
(* is load_config followed by apply_overrides.                             *)
(***************************************************************************)
EXTENDS Config

VARIABLES input, result

vars == <<input, result>>

Huge == Num("int", FloatMax + 1)
Odd  == {Huge, Num("int", -FloatMax - 1), Num("nan", 0), Num("bool", 10), Num("other", 0), Str("30")}

TimeoutValues == Odd \cup {Num("int", 40), Num("int", 50), Num("float", 49),
                           Num("float", 864000), Num("int", 864010)}
PollValues    == Odd \cup {Num("int", 0), Num("float", 1), Num("float", 25),
                           Num("int", 600), Num("float", 601)}

Table(keys)  == [isTable |-> TRUE, keys |-> keys]
NoTable      == [isTable |-> FALSE, keys |-> <<>>]
Single(k, v) == Table([x \in {k} |-> v])

Securities == {Single("idle_timeout_seconds", v) : v \in TimeoutValues}
                \cup {Table(<<>>), NoTable, Single("idle_timeout", Num("int", 50)),
                      Single("idle_timeout", Huge)}
Runtimes   == {Single("poll_interval_seconds", v) : v \in PollValues} \cup {NoTable}
Loggings   ==
  {Single("level", Str(t)) : t \in {"info", "Info", "DEBUG", "trace", ""}}
    \cup {Single("file", Str(t)) : t \in {"", " ", "a.log"}}
    \cup {Single("max_bytes", Num("int", n)) : n \in {10230, 10240, FloatMax + 1}}
    \cup (UNION {{Single(k, Num(t, 10)) : t \in {"bool", "float"}} :
                   k \in {"max_bytes", "backup_count", "level", "file", "size"}})
    \cup {[isTable |-> TRUE, keys |-> [level |-> Str("error"), backup_count |-> Num("int", n)]] :
            n \in {-10, 0, 200, 210}}

\* At most two sections differ from an empty file.
Raws ==
  {<<>>} \cup [{"security"} -> Securities] \cup [{"runtime"} -> Runtimes]
    \cup [{"logging"} -> Loggings] \cup [{"display"} -> {Table(<<>>)}]
    \cup [security : Securities, runtime : Runtimes]
    \cup [security : Securities, logging : Loggings]

File(kind, raw) == [kind |-> kind, raw |-> raw]
Files == {File(k, <<>>) : k \in {"no path"} \cup DOMAIN Raises}
           \cup {File("toml", raw) : raw \in Raws}

\* argparse makes a float of an override, which is never beyond FloatMax.
Overrides(values) == {NoOverride} \cup {v \in values : v.type \in {"float", "nan"}}

NotLoaded == [status |-> "none", config |-> Defaults]

Init ==
  /\ input \in [file : Files, timeout : Overrides(TimeoutValues), poll : Overrides(PollValues)]
  /\ result = NotLoaded

Load ==
  /\ result = NotLoaded
  /\ result' = Effective(input.file, input.timeout, input.poll)
  /\ UNCHANGED input

Next == Load

Spec == Init /\ [][Next]_vars
-----------------------------------------------------------------------------
InRange(v, lo, hi) == v.type \in {"int", "float"} /\ lo <= v.n /\ v.n <= hi

\* The table of CONFIGURATION.md:6-38, key by key
DocumentedValue(key, v) ==
  \/ key = "idle_timeout_seconds"  /\ InRange(v, 50, 864000)
  \/ key = "poll_interval_seconds" /\ InRange(v, 1, 600)
  \/ key = "level"        /\ v.type = "str" /\ v.text \in DOMAIN UpperOf \cup Levels
  \/ key = "file"         /\ v.type = "str"
  \/ key = "max_bytes"    /\ v.type = "int" /\ InRange(v, 10240, 1048576000)
  \/ key = "backup_count" /\ v.type = "int" /\ InRange(v, 0, 200)

DocumentedFile(file) ==
  \/ file.kind = "no path"
  \/ /\ file.kind = "toml"
     /\ \A s \in DOMAIN file.raw :
          /\ file.raw[s].isTable /\ s \in {"security", "runtime", "logging"}
          /\ \A k \in DOMAIN file.raw[s].keys :
               /\ k \in AllowedKeys[s] /\ DocumentedValue(k, file.raw[s].keys[k])

\* An input is accepted exactly if every part of it is as documented, so one bad
\* key is neither outweighed by the others nor repaired by an override.
AcceptsDocumented ==
  result # NotLoaded =>
    (result.status = "ok" <=>
       /\ DocumentedFile(input.file)
       /\ input.timeout = NoOverride \/ InRange(input.timeout, 50, 864000)
       /\ input.poll = NoOverride \/ InRange(input.poll, 1, 600))

AsFile(t, p) ==
  File("toml", [security |-> Single("idle_timeout_seconds", t),
                runtime  |-> Single("poll_interval_seconds", p)])

\* CONFIGURATION.md:46: the overrides "use the same range validation as TOML
\* values": a file with the two values gives the same configuration, or fails
\* as the overrides do.
OverrideIsFileValue ==
  result # NotLoaded /\ input.file = File("toml", <<>>)
    /\ input.timeout # NoOverride /\ input.poll # NoOverride =>
      LET loaded == LoadConfig(AsFile(input.timeout, input.poll)) IN
      /\ loaded.status = result.status
      /\ result.status = "ok" => loaded.config = result.config

\* What the other modules take for granted of their constants: the controller
\* is not constructed with a timeout or an interval it refuses (idle.py:63-66),
\* and a wait of one interval, even of two, is never taken for a resume
\* (app.py:51-53), so that a turn does not re-base the idle time by itself.
AcceptedIsUsable ==
  result.status = "ok" =>
    LET c == result.config IN
    /\ c.timeout > 0 /\ c.poll > 0 /\ c.level \in Levels
    /\ GapOf(c) > 2 * c.poll

\* An integer beyond every float under a key of a table
HugeAt(raw, s, key) ==
  /\ s \in Tables(raw) /\ key \in DOMAIN raw[s].keys
  /\ LET v == raw[s].keys[key] IN v.type = "int" /\ BeyondFloat(v.n)

\* Once a file parses, everything that is wrong with it, or with an override,
\* reaches the user as a ConfigError whatever the types under its keys are: the
\* one exception is an integer that float() cannot take, under one of the two
\* keys that are floats (config.py:171-177), and not elsewhere.
ParsedFailsCleanly ==
  input.file.kind \in {"no path", "toml"} /\ result.status \notin {"none", "ok", "ConfigError"} =>
    /\ input.file.kind = "toml" /\ result.status = "OverflowError"
    /\ \/ HugeAt(input.file.raw, "security", "idle_timeout_seconds")
       \/ HugeAt(input.file.raw, "runtime", "poll_interval_seconds")

\* config.py:18: ConfigError is "raised when configuration cannot be parsed or
\* validated", and it is what main catches.
FailuresAreConfigErrors == result.status \in {"none", "ok", "ConfigError"}
=============================================================================
