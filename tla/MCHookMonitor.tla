--------------------------- MODULE MCHookMonitor ---------------------------
(* HookMonitor for TLC: three failures, so four listeners one after another.   *)
EXTENDS HookMonitor

MCMaxFaults  == 3
MCMaxPresses == 2
=============================================================================
