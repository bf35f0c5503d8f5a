----------------------------- MODULE MCIdleLock -----------------------------
(* IdleLock for TLC: durations in polls.  Horizon equals the largest          *)
(* duration compared, so saturation loses nothing the guards can see.         *)
EXTENDS IdleLock

\* As shipped: the idle timeout is longer than the gap of the detector.
MCTimeout == 5
MCGap     == 3
MCHorizon == 5

\* A supervisor pass that finds the hooks alive, or restarts one.
MCMaintenanceDelays == {0, 1}

\* A start that is quick, and one the first poll takes for a resume.
MCStartupDelays == {0, 3}

\* A hiccup the detector must ignore, and the shortest stall it must see.
MCStallLengths == {1, 3}

\* For single counterexamples: a prompt start, and one suspend that is
\* longer than the timeout.
MCPromptStart == {0}
MCLongSuspend == {5}

\* A timeout that the configuration allows to be shorter than the gap.
MCShortTimeout       == 3
MCLongGap            == 4
MCShortHorizon       == 4
MCShortStartupDelays == {0, 4}
MCShortStallLengths  == {1, 4}

\* Both hook listeners fail to come up in time, in every supervisor pass.
MCSlowRecovery == {4}
=============================================================================
