-------------------------- MODULE ActivityManager --------------------------
(***************************************************************************)
(* ActivityManager (activity.py), one statement at a time: hook threads    *)
(* call record, the controller calls snapshot, and idle_seconds may be     *)
(* called by anyone.  All of them share four fields and one Lock.          *)
(*                                                                         *)
(* Both clocks are injected, and record keeps the newer of two readings,   *)
(* so a reading may be any time, also an earlier one.                      *)
(***************************************************************************)
EXTENDS Integers, SequencesExt

CONSTANTS
  Threads,    \* the calling threads
  Kinds,      \* ActivityKind
  Untyped,    \* an argument that is no ActivityKind
  MaxTime,    \* bound on clock readings
  MaxCalls,   \* bound on calls
  None

ASSUME ManagerAssumption ==
  /\ Untyped \notin Kinds /\ None \notin Kinds /\ None # Untyped
  /\ MaxTime \in Nat /\ MaxCalls \in Nat
  /\ None \notin Threads

Times == 0 .. MaxTime

VARIABLES
  now,        \* what the monotonic clock shows
  holder,     \* the thread that holds _lock
  view,       \* _last_activity_monotonic, _last_activity_at, _last_kind, _sequence
  thr,        \* per thread: place, local values, results of its last calls
  calls,
  published   \* history: the views at the ends of the records

vars == <<now, holder, view, thr, calls, published>>

View == [last : Times, at : Times, kind : Kinds \cup {None}, sequence : Nat]

Place == {"out", "record", "clock", "wall", "last", "at", "kind", "sequence",
          "return", "snapshot", "copy", "idle", "measure"}

TypeOK ==
  /\ now \in Times
  /\ holder \in Threads \cup {None}
  /\ view \in View
  /\ thr \in [Threads -> [pc : Place, kind : Kinds \cup {None}, time : Times, wall : Times,
                          sequence : Nat, snap : View \cup {None}, idle : Int]]
  /\ calls \in 0 .. MaxCalls
  /\ published \in Seq(View)

\* The clock is read, and shows something else, whenever it likes.
ClockMoves ==
  /\ now' \in Times \ {now}
  /\ UNCHANGED <<holder, view, thr, calls, published>>

Becomes(t, local) == thr' = [thr EXCEPT ![t] = local]

Call(t, local) ==
  /\ thr[t].pc = "out" /\ calls < MaxCalls /\ calls' = calls + 1
  /\ Becomes(t, local)
  /\ UNCHANGED <<now, holder, view, published>>

\* A statement of the thread that holds the lock
Locked(t, from, local, fields) ==
  /\ thr[t].pc = from
  /\ Becomes(t, local) /\ view' = fields
  /\ UNCHANGED <<now, holder, calls, published>>

\* The end of the with block
Release(t, from, local) ==
  /\ thr[t].pc = from
  /\ Becomes(t, local) /\ holder' = None
  /\ UNCHANGED <<now, view, calls>>

Reentered == TRUE     \* mutant: the lock excludes nobody
Free      == holder = None

-----------------------------------------------------------------------------
(* record *)

\* An argument that is no ActivityKind raises TypeError at once.
CallRecord(t, k) ==
  Call(t, IF k \in Kinds THEN [thr[t] EXCEPT !.pc = "record", !.kind = k] ELSE thr[t])

\* The first statement of each method's with block
Entered == [record |-> "clock", snapshot |-> "copy", idle |-> "measure"]

\* with self._lock, in all three methods
Acquire(t) ==
  /\ thr[t].pc \in {"record", "snapshot", "idle"} /\ Free
  /\ holder' = t
  /\ Becomes(t, [thr[t] EXCEPT !.pc = Entered[@]])
  /\ UNCHANGED <<now, view, calls, published>>

ReadClock(t) == Locked(t, "clock", [thr[t] EXCEPT !.pc = "wall", !.time = now], view)

ReadWallClock(t, w) == Locked(t, "wall", [thr[t] EXCEPT !.pc = "last", !.wall = w], view)

\* A clock raises: with releases the lock, the hook logs the exception.
ClockRaises(t) ==
  \E from \in {"clock", "wall"} :
    Release(t, from, [thr[t] EXCEPT !.pc = "out"]) /\ UNCHANGED published

NewestAsRead(event) == event                     \* mutant: no max with the previous time
Newest(event) == IF event > view.last THEN event ELSE view.last

WriteLast(t) ==
  Locked(t, "last", [thr[t] EXCEPT !.pc = "at"], [view EXCEPT !.last = Newest(thr[t].time)])

WriteAt(t) ==
  Locked(t, "at", [thr[t] EXCEPT !.pc = "kind"], [view EXCEPT !.at = thr[t].wall])

\* The kind is stored, and _sequence read for the += that follows.
WriteKind(t) ==
  Locked(t, "kind", [thr[t] EXCEPT !.pc = "sequence", !.sequence = view.sequence],
         [view EXCEPT !.kind = thr[t].kind])

WriteSequence(t) ==
  Locked(t, "sequence", [thr[t] EXCEPT !.pc = "return"],
         [view EXCEPT !.sequence = thr[t].sequence + 1])

ReturnRecord(t) ==
  /\ Release(t, "return", [thr[t] EXCEPT !.pc = "out", !.snap = view])
  /\ published' = Append(published, view)

-----------------------------------------------------------------------------
(* snapshot and idle_seconds *)

CallSnapshot(t) == Call(t, [thr[t] EXCEPT !.pc = "snapshot", !.kind = None])

ReturnSnapshot(t) ==
  /\ Release(t, "copy", [thr[t] EXCEPT !.pc = "out", !.snap = view])
  /\ UNCHANGED published

\* idle_seconds reads the clock before it takes the lock.
CallIdleSeconds(t) == Call(t, [thr[t] EXCEPT !.pc = "idle", !.time = now])

\* max(0.0, now - last_activity_monotonic)
IdleSeconds(from, to) == IF to > from THEN to - from ELSE 0

ReturnIdleSeconds(t) ==
  /\ Release(t, "measure",
       [thr[t] EXCEPT !.pc = "out", !.idle = IdleSeconds(view.last, thr[t].time)])
  /\ UNCHANGED published

-----------------------------------------------------------------------------
Init ==
  /\ now \in Times
  /\ holder = None
  /\ view \in [last : {now}, at : Times, kind : {None}, sequence : {0}]
  /\ thr = [t \in Threads |-> [pc |-> "out", kind |-> None, time |-> 0, wall |-> 0,
                               sequence |-> 0, snap |-> None, idle |-> 0]]
  /\ calls = 0
  /\ published = <<view>>

Step(t) ==
  \/ \E k \in Kinds \cup {Untyped} : CallRecord(t, k)
  \/ Acquire(t)
  \/ ReadClock(t)
  \/ \E w \in Times : ReadWallClock(t, w)
  \/ ClockRaises(t)
  \/ WriteLast(t) \/ WriteAt(t) \/ WriteKind(t) \/ WriteSequence(t)
  \/ ReturnRecord(t)
  \/ CallSnapshot(t) \/ ReturnSnapshot(t)
  \/ CallIdleSeconds(t) \/ ReturnIdleSeconds(t)

Next == ClockMoves \/ \E t \in Threads : Step(t)

Spec == Init /\ [][Next]_vars

-----------------------------------------------------------------------------
(* Properties *)

\* ACTIVITY_MANAGER.md: "snapshots never expose partially updated state".
\* What snapshot and record return is the initial view or the view some record
\* left behind, with all four fields of the same event.
SnapshotConsistent ==
  \A t \in Threads : thr[t].snap # None => Contains(published, thr[t].snap)

\* record returns the view of the event it recorded and not of another
\* thread's, numbered next, and never older than its own clock reading.
RecordReturnsOwnEvent ==
  \A t \in Threads :
    thr[t].pc = "return" => /\ view.kind = thr[t].kind /\ view.at = thr[t].wall
                            /\ view.last >= thr[t].time
                            /\ view.sequence = Len(published)

\* The fields as the lock makes them visible.
Committed == IF holder = None THEN view ELSE published[Len(published)]

Log == INSTANCE ActivityLog WITH view <- Committed, NoKind <- None

\* Every record, failed ones included, is all or nothing; each takes one new
\* sequence number, and the last activity time never moves backwards.
RecordsAreAtomic == Log!LogSpec
=============================================================================
