------------------------------ MODULE MCLaunch ------------------------------
(* Launch for TLC: commands with a file given either way, an override, a dry  *)
(* run, an override out of range, and the startup actions.                    *)
EXTENDS Launch, TLC

\* A file with another interval and no log
Edited  == [kind |-> "toml", raw |->
             [runtime |-> [isTable |-> TRUE,
                           keys |-> [poll_interval_seconds |-> Num("int", 20)]],
              logging |-> [isTable |-> TRUE, keys |-> [file |-> Str("")]]]]
Missing == [kind |-> "missing"]
Utf16   == [kind |-> "encoding"]
NulLog  == [kind |-> "toml", raw |->
             [logging |-> [isTable |-> TRUE, keys |-> [file |-> Str("NUL")]]]]

MCConfigFiles  == {Edited, Utf16, NulLog}
MCMissingFiles == {Edited, Missing}

MCCommands ==
  {[Run EXCEPT !.action = a] : a \in {"remove", "status", "run", "install"}}
    \cup {[Run EXCEPT !.action = "install", !.config = c, !.poll = Num("float", 5),
                      !.dryRun = (c = "absolute")] : c \in {"relative", "absolute"}}
    \cup {[Run EXCEPT !.action = "install", !.timeout = Num("nan", 0)]}

MCSymmetry == Permutations(Processes)
=============================================================================
