---------------------------- MODULE MouseMonitor ----------------------------
(***************************************************************************)
(* MouseMonitor's callbacks and its movement filter (monitors/mouse.py),   *)
(* driven by the messages the mouse hook passes on (win32_input.py): a     *)
(* movement counts as activity when another came shortly before it, and    *)
(* not more often than the refresh interval.  A callback reads the clock   *)
(* before it takes the lock of the filter, so a click, the reset of a      *)
(* restart, or the callback of the hook that is being replaced may come in *)
(* between.                                                                *)
(***************************************************************************)
EXTENDS Integers, Sequences

CONSTANTS
  Hooks,      \* hook threads that deliver to this monitor
  Messages,   \* window messages of a mouse hook
  Window,     \* MOVEMENT_CONFIRMATION_WINDOW_SECONDS
  Refresh,    \* MOVEMENT_REFRESH_INTERVAL_SECONDS
  MaxTime,    \* bound on the clock
  None

ASSUME MouseAssumption ==
  /\ Window \in Nat /\ Refresh \in Nat \ {0} /\ MaxTime \in Nat
  /\ None \notin Int

Times == 0 .. MaxTime

VARIABLES
  now,            \* the monotonic clock
  filter,         \* _last_move_at and _last_refresh_at of _MouseMovementFilter
  hooks,          \* per hook thread: place, and the clock reading of accepts_move
  taken,          \* history: movements the filter took and accepted since its reset
  refreshedAt     \* history: the last reading it ever accepted

vars == <<now, filter, hooks, taken, refreshedAt>>

TypeOK ==
  /\ now \in Times
  /\ filter \in [moveAt : Times \cup {None}, refreshAt : Times \cup {None}]
  /\ hooks \in [Hooks -> [pc : {"out", "move", "record"}, reading : Times]]
  /\ taken \in [moves : SUBSET Times, accepted : Seq(Times)]
  /\ refreshedAt \in Times \cup {None}

Tick ==
  /\ now < MaxTime
  /\ now' = now + 1
  /\ UNCHANGED <<filter, hooks, taken, refreshedAt>>

\* Win32MouseListener._handle_message: a movement, a press of any button, and
\* nothing for releases and the wheel.
ButtonDown == {"WM_LBUTTONDOWN", "WM_RBUTTONDOWN", "WM_MBUTTONDOWN", "WM_XBUTTONDOWN"}

Callback(message) == CASE message = "WM_MOUSEMOVE" -> "on_move"
                       [] message \in ButtonDown   -> "on_click"
                       [] OTHER                    -> "none"

\* _on_move calls accepts_move, which reads the clock.
Move(h) ==
  /\ hooks[h].pc = "out" /\ \E m \in Messages : Callback(m) = "on_move"
  /\ hooks' = [hooks EXCEPT ![h] = [pc |-> "move", reading |-> now]]
  /\ UNCHANGED <<now, filter, taken, refreshedAt>>

\* move_gap within the confirmation window
Confirmed(at) == filter.moveAt # None /\ at - filter.moveAt \in 0 .. Window

\* mutant: the confirmation window is taken for the refresh interval
RestedAfter(at) == filter.refreshAt = None \/ at - filter.refreshAt \notin 0 .. Window - 1

\* refresh_gap negative, or not below the refresh interval
Rested(at) == filter.refreshAt = None \/ at - filter.refreshAt \notin 0 .. Refresh - 1

Accepts(at) == Confirmed(at) /\ Rested(at)

\* mutant: a movement that is refused restarts the interval
RefreshAtAlways(at) == IF Confirmed(at) THEN at ELSE filter.refreshAt
RefreshAt(at)       == IF Accepts(at) THEN at ELSE filter.refreshAt

\* The part of accepts_move under its lock.
FilterMove(h) ==
  LET at == hooks[h].reading
      ok == Accepts(at)
  IN
  /\ hooks[h].pc = "move"
  /\ hooks' = [hooks EXCEPT ![h].pc = IF ok THEN "record" ELSE "out"]
  /\ filter' = [moveAt |-> at, refreshAt |-> RefreshAt(at)]
  /\ taken' = [moves    |-> taken.moves \cup {at},
               accepted |-> IF ok THEN Append(taken.accepted, at) ELSE taken.accepted]
  /\ refreshedAt' = IF ok THEN at ELSE refreshedAt
  /\ UNCHANGED now

\* ActivityManager.record (module ActivityManager); what it raises is caught.
Record(h) ==
  /\ hooks[h].pc = "record"
  /\ hooks' = [hooks EXCEPT ![h].pc = "out"]
  /\ UNCHANGED <<now, filter, taken, refreshedAt>>

ClearedRefresh == [filter EXCEPT !.refreshAt = None]     \* mutant: the candidate burst survives
Cleared == [moveAt |-> None, refreshAt |-> None]

Reset ==
  /\ filter' = Cleared
  /\ taken' = [moves |-> {}, accepted |-> <<>>]

\* _on_click, pressed: reset, then record.
Click(h) ==
  /\ hooks[h].pc = "out" /\ \E m \in Messages : Callback(m) = "on_click"
  /\ hooks' = [hooks EXCEPT ![h].pc = "record"]
  /\ Reset
  /\ UNCHANGED <<now, refreshedAt>>

\* restart, on the main thread (module HookMonitor), resets the filter.
Restart == Reset /\ UNCHANGED <<now, hooks, refreshedAt>>

Init ==
  /\ now = 0
  /\ filter = [moveAt |-> None, refreshAt |-> None]
  /\ hooks = [h \in Hooks |-> [pc |-> "out", reading |-> 0]]
  /\ taken = [moves |-> {}, accepted |-> <<>>] /\ refreshedAt = None

Next ==
  \/ Tick
  \/ Restart
  \/ \E h \in Hooks : Move(h) \/ FilterMove(h) \/ Record(h) \/ Click(h)

Spec == Init /\ [][Next]_vars

-----------------------------------------------------------------------------
(* Properties *)

\* ARCHITECTURE.md:60-61: an isolated movement is not activity.  What the
\* filter accepts came within the window after another movement that it took
\* since the last click or restart, whatever came between reading and lock.
IsolatedMovementIgnored ==
  [][\A h \in Hooks :
       hooks[h].pc = "move" /\ hooks'[h].pc = "record"
         => \E m \in taken.moves : hooks[h].reading - m \in 0 .. Window]_vars

\* ARCHITECTURE.md:62: continuous movement refreshes at most once per interval.
RefreshesAreSpaced ==
  \A i \in 1 .. Len(taken.accepted) - 1 :
    taken.accepted[i + 1] - taken.accepted[i] >= Refresh

\* Somebody who keeps moving the mouse is never idle for long: a movement that
\* continues a burst is accepted, or one was accepted less than Refresh before.
SustainedMovementRefreshes ==
  [][\A h \in Hooks :
       hooks[h].pc = "move" /\ hooks'[h].pc # "move" /\ Confirmed(hooks[h].reading)
         => refreshedAt' # None /\ hooks[h].reading - refreshedAt' < Refresh]_vars
=============================================================================
