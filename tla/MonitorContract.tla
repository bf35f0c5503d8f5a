-------------------------- MODULE MonitorContract --------------------------
(***************************************************************************)
(* What the application and its supervisor may rely on in an InputMonitor  *)
(* (monitors/base.py), and the monitor in them: only a monitor that was    *)
(* found dead or never came up gets a new listener, only while the runtime *)
(* does not leave; a monitor is stopped only when it leaves, and a stopped *)
(* one does not come back.                                                 *)
(***************************************************************************)

VARIABLES
  health,    \* what the listener of the monitor is, if it has one
  leaving    \* the cleanup of the runtime has begun

contractVars == <<health, leaving>>

ContractInit == health = "none" /\ leaving = FALSE

\* start, and restart after a failed probe: either may fail and leave the
\* monitor without a listener, and a new listener may be dead when it returns.
Renew ==
  /\ ~leaving /\ health \in {"none", "dead"}
  /\ health' \in {"none", "alive", "dead"}
  /\ UNCHANGED leaving

\* The listener ends by itself, or because it was stopped.
Die ==
  /\ health \in {"alive", "stopping"}
  /\ health' = "dead"
  /\ UNCHANGED leaving

\* The cleanup begins; an interrupt may have cut a restart short.
Leave ==
  /\ ~leaving /\ leaving' = TRUE
  /\ health' \in IF health = "dead" THEN {"dead", "none"} ELSE {health}

Stop ==
  /\ leaving /\ health = "alive"
  /\ health' = "stopping"
  /\ UNCHANGED leaving

ContractNext == Renew \/ Die \/ Leave \/ Stop

ContractSpec == ContractInit /\ [][ContractNext]_contractVars
=============================================================================
