--------------------------- MODULE MCAppLifecycle ---------------------------
(* AppLifecycle for TLC: keyboard and mouse, one of which never recovers, and *)
(* a custom monitor without a probe between them.                             *)
EXTENDS AppLifecycle

MCRecoverable == {1, 3}
MCReliable    == {3}
=============================================================================
