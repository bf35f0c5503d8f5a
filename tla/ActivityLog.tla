---------------------------- MODULE ActivityLog ----------------------------
(***************************************************************************)
(* What ActivityManager promises its callers: one event after the other,   *)
(* each with a sequence number of its own, and a time that never moves     *)
(* backwards.  IdleLock uses it in this form.                              *)
(***************************************************************************)
EXTENDS Naturals

CONSTANTS Kinds, Times, NoKind

VARIABLE view   \* the latest event

View == [last : Times, at : Times, kind : Kinds \cup {NoKind}, sequence : Nat]

LogInit ==
  /\ view \in View
  /\ view.kind = NoKind /\ view.sequence = 0

Append ==
  /\ view' \in [last : {t \in Times : t >= view.last}, at : Times, kind : Kinds,
                sequence : {view.sequence + 1}]

LogSpec == LogInit /\ [][Append]_view
=============================================================================
