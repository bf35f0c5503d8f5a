--------------------------- MODULE MCTrayRuntime ---------------------------
(* TrayRuntime for TLC: two failures, one menu and three locks, inputs or     *)
(* resumes, enough for a lock, its rearming and the next one.                  *)
EXTENDS TrayRuntime

MCMaxFaults  == 2
MCMaxEvents  == 3
MCMaxChoices == 1
=============================================================================
