--------------------------- MODULE MCMouseMonitor ---------------------------
(* MouseMonitor for TLC, in units of a quarter of a second, while a hook that  *)
(* is being replaced still has a callback under way.                           *)
EXTENDS MouseMonitor

MCTwoHooks == {"old", "new"}
MCMessages == {"WM_MOUSEMOVE", "WM_LBUTTONDOWN", "WM_LBUTTONUP", "WM_MOUSEWHEEL"}
=============================================================================
