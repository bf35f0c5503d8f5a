------------------------- MODULE MCActivityManager -------------------------
(* ActivityManager for TLC: a hook thread and the controller, or two hooks.   *)
EXTENDS ActivityManager

MCThreads == {"hook", "controller"}
MCKinds   == {"keyboard", "mouse_move"}
=============================================================================
