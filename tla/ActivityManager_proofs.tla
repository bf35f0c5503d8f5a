----------------------- MODULE ActivityManager_proofs -----------------------
(***************************************************************************)
(* Proofs about ActivityManager for any number of threads, calls and clock *)
(* readings: what is read under the lock is whole, record returns its own  *)
(* event, and the assignments of record implement the one step of          *)
(* ActivityLog.                                                            *)
(***************************************************************************)
EXTENDS ActivityManager, TLAPS

Writing == {"at", "kind", "sequence", "return"}
Inside  == {"clock", "wall", "last", "copy", "measure"} \cup Writing

Latest == published[Len(published)]

\* A thread is inside a with block exactly while it holds the lock.
Exclusion == \A t \in Threads : thr[t].pc \in Inside <=> holder = t

\* Between the records, and until the first assignment of one, the fields are as
\* the last record left them.
Whole == (\A t \in Threads : thr[t].pc \notin Writing) => view = Latest

\* How far the record of a thread has come, field by field.
Progress(l, fields, latest) ==
  /\ l.pc \in {"record", "clock", "wall", "last"} \cup Writing => l.kind \in Kinds
  /\ l.pc \in Writing => fields.last >= l.time /\ fields.last >= latest.last
  /\ l.pc \in {"kind", "sequence", "return"} => fields.at = l.wall
  /\ l.pc \in {"sequence", "return"} => fields.kind = l.kind
  /\ l.pc \in {"at", "kind", "sequence"} => fields.sequence = latest.sequence
  /\ l.pc = "sequence" => l.sequence = fields.sequence
  /\ l.pc = "return" => fields.sequence = latest.sequence + 1

Numbered == Len(published) > 0 /\ Latest.sequence = Len(published) - 1

Inv ==
  /\ TypeOK /\ Exclusion /\ Whole /\ Numbered
  /\ \A t \in Threads : Progress(thr[t], view, Latest)
  /\ SnapshotConsistent

\* Types of one thread's locals
Local == [pc : Place, kind : Kinds \cup {None}, time : Times, wall : Times,
          sequence : Nat, snap : View \cup {None}, idle : Int]

LEMMA Constants == None \notin Threads /\ None \notin Kinds /\ Times \subseteq Int
  BY ManagerAssumption DEF Times

LEMMA InvInit == Init => Inv
<1> SUFFICES ASSUME Init PROVE Inv
  OBVIOUS
<1> USE ManagerAssumption
<1>1. view \in View /\ view.sequence = 0
  BY DEF Init, View, Times
<1>2. published = <<view>> /\ Len(published) = 1 /\ Latest = view
  BY DEF Init, Latest
<1>3. published \in Seq(View)
  BY <1>1, <1>2
<1>4. TypeOK
  <2>1. thr \in [Threads -> Local]
    BY SMT DEF Init, Local, Place, Times
  <2>2. QED
    BY <1>1, <1>3, <2>1, SMT DEF Init, TypeOK, Local
<1>5. \A t \in Threads : thr[t].pc = "out" /\ thr[t].snap = None
  BY DEF Init
<1>6. Exclusion
  BY <1>5, Constants DEF Init, Exclusion, Inside, Writing
<1>7. Whole /\ Numbered
  BY <1>1, <1>2 DEF Whole, Numbered
<1>8. \A t \in Threads : Progress(thr[t], view, Latest)
  BY <1>5 DEF Progress, Writing
<1>9. SnapshotConsistent
  BY <1>5 DEF SnapshotConsistent
<1>10. QED
  BY <1>4, <1>6, <1>7, <1>8, <1>9 DEF Inv

\* Two threads are never inside at once.
LEMMA OneInside ==
  ASSUME Inv, NEW t \in Threads, NEW u \in Threads, u # t, thr[t].pc \in Inside
  PROVE  thr[u].pc \notin Inside
  BY DEF Inv, Exclusion

\* What is published stays so.
LEMMA AppendKeeps ==
  ASSUME NEW S, NEW s \in Seq(S), NEW e \in S
  PROVE  /\ Append(s, e) \in Seq(S) /\ Len(Append(s, e)) = Len(s) + 1
         /\ Append(s, e)[Len(s) + 1] = e
         /\ \A i \in 1 .. Len(s) : Append(s, e)[i] = s[i]
  OBVIOUS

-----------------------------------------------------------------------------
(* The steps, by what they may change *)

\* The other threads keep what they had if the fields they have begun to write,
\* and the records published, are as before.
Others(t) == \A u \in Threads \ {t} : thr'[u] = thr[u]

LEMMA BecomesOthers ==
  ASSUME TypeOK, NEW t \in Threads, NEW l, Becomes(t, l)
  PROVE  thr'[t] = l /\ Others(t) /\ DOMAIN thr' = Threads
  BY DEF TypeOK, Becomes, Others

LEMMA BecomesTyped ==
  ASSUME TypeOK, NEW t \in Threads, NEW l \in Local, Becomes(t, l)
  PROVE  thr' \in [Threads -> Local]
<1>1. thr \in [Threads -> Local]
  BY DEF TypeOK, Local
<1>2. QED
  BY <1>1 DEF Becomes

LEMMA LocalTyped == ASSUME TypeOK, NEW t \in Threads PROVE thr[t] \in Local
  BY DEF TypeOK, Local

\* A step that leaves the fields and the publications alone, outside the lock.
LEMMA OutsideStep ==
  ASSUME Inv, NEW t \in Threads, NEW l \in Local, Becomes(t, l),
         UNCHANGED <<now, holder, view, published>>, calls' \in 0 .. MaxCalls,
         thr[t].pc \notin Inside, l.pc \notin Inside,
         l.pc = "record" => l.kind \in Kinds, l.snap = thr[t].snap
  PROVE  Inv'
<1>1. thr' \in [Threads -> Local] /\ thr'[t] = l /\ Others(t)
  BY BecomesTyped, BecomesOthers DEF Inv
<1>2. TypeOK'
  BY <1>1 DEF Inv, TypeOK, Local
<1>3. Exclusion'
  BY <1>1 DEF Inv, Exclusion, Others
<1>4. Whole'
  BY <1>1 DEF Inv, Whole, Others, Latest, Inside
<1>5. Numbered'
  BY DEF Inv, Numbered, Latest
<1>6. ASSUME NEW u \in Threads PROVE Progress(thr[u], view, Latest)'
  <2>1. CASE u = t
    BY <1>1, <2>1 DEF Progress, Inside, Writing
  <2>2. CASE u # t
    <3>1. thr'[u] = thr[u] /\ Progress(thr[u], view, Latest)
      BY <1>1, <2>2 DEF Others, Inv
    <3>2. QED
      BY <3>1 DEF Progress, Latest
  <2>3. QED
    BY <2>1, <2>2
<1>7. SnapshotConsistent'
  BY <1>1 DEF Inv, SnapshotConsistent, Others, Contains
<1>8. QED
  BY <1>2, <1>3, <1>4, <1>5, <1>6, <1>7 DEF Inv

\* A step of a thread inside the lock that writes a field, or only its locals.
LEMMA LockedStep ==
  ASSUME Inv, NEW t \in Threads, NEW l \in Local, NEW fields \in View,
         Becomes(t, l), view' = fields, UNCHANGED <<now, holder, calls, published>>,
         thr[t].pc \in Inside, l.pc \in Inside, l.snap = thr[t].snap,
         Progress(l, fields, Latest), l.pc \notin Writing => fields = view /\ thr[t].pc \notin Writing
  PROVE  Inv'
<1>1. thr' \in [Threads -> Local] /\ thr'[t] = l /\ Others(t)
  BY BecomesTyped, BecomesOthers DEF Inv
<1>2. TypeOK'
  BY <1>1 DEF Inv, TypeOK, Local
<1>3. Exclusion'
  BY <1>1 DEF Inv, Exclusion, Others
<1>4. \A u \in Threads \ {t} : thr[u].pc \notin Inside
  BY OneInside
<1>5. Whole'
  BY <1>1, <1>4 DEF Inv, Whole, Others, Latest, Inside
<1>6. Numbered'
  BY DEF Inv, Numbered, Latest
<1>7. ASSUME NEW u \in Threads PROVE Progress(thr[u], view, Latest)'
  <2>1. CASE u = t
    BY <1>1, <2>1 DEF Progress, Latest
  <2>2. CASE u # t
    <3>1. thr'[u] = thr[u] /\ Progress(thr[u], view, Latest) /\ thr[u].pc \notin Inside
      BY <1>1, <1>4, <2>2 DEF Others, Inv
    <3>2. QED
      BY <3>1 DEF Progress, Inside, Writing
  <2>3. QED
    BY <2>1, <2>2
<1>8. SnapshotConsistent'
  BY <1>1 DEF Inv, SnapshotConsistent, Others, Contains
<1>9. QED
  BY <1>2, <1>3, <1>5, <1>6, <1>7, <1>8 DEF Inv

\* A step that takes the lock.
LEMMA AcquireStep == ASSUME Inv, NEW t \in Threads, Acquire(t) PROVE Inv'
<1> DEFINE l == [thr[t] EXCEPT !.pc = Entered[thr[t].pc]]
<1>1. /\ thr[t].pc \in {"record", "snapshot", "idle"} /\ holder = None /\ holder' = t
      /\ Becomes(t, l) /\ UNCHANGED <<now, view, calls, published>>
  BY DEF Acquire, Free
<1>2. thr[t] \in Local
  BY LocalTyped DEF Inv
<1>3. /\ Entered[thr[t].pc] \in {"clock", "copy", "measure"}
      /\ Entered[thr[t].pc] = "clock" => thr[t].pc = "record"
  BY <1>1 DEF Entered
<1>4. /\ l \in Local /\ l.pc \in {"clock", "copy", "measure"} /\ l.snap = thr[t].snap
      /\ l.kind = thr[t].kind /\ (l.pc = "clock" => thr[t].pc = "record")
  BY <1>2, <1>3, SMT DEF Local, Place
<1> HIDE DEF l
<1>5. thr' \in [Threads -> Local] /\ thr'[t] = l /\ Others(t)
  BY <1>1, <1>4, BecomesTyped, BecomesOthers DEF Inv
<1>6. \A u \in Threads : thr[u].pc \notin Inside
  BY <1>1, Constants DEF Inv, Exclusion
<1>7. TypeOK'
  BY <1>1, <1>5 DEF Inv, TypeOK, Local
<1>8. Exclusion'
  BY <1>1, <1>4, <1>5, <1>6 DEF Exclusion, Others, Inside
<1>9. Whole'
  BY <1>1, <1>4, <1>5, <1>6 DEF Inv, Whole, Others, Latest, Inside
<1>10. Numbered'
  BY <1>1 DEF Inv, Numbered, Latest
<1>11. ASSUME NEW u \in Threads PROVE Progress(thr[u], view, Latest)'
  <2>1. CASE u = t
    <3>1. thr[t].pc = "record" => thr[t].kind \in Kinds
      BY DEF Inv, Progress
    <3>2. QED
      BY <1>4, <1>5, <2>1, <3>1 DEF Progress, Writing
  <2>2. CASE u # t
    <3>1. thr'[u] = thr[u] /\ Progress(thr[u], view, Latest) /\ thr[u].pc \notin Inside
      BY <1>5, <1>6, <2>2 DEF Others, Inv
    <3>2. QED
      BY <3>1 DEF Progress, Inside, Writing
  <2>3. QED
    BY <2>1, <2>2
<1>12. SnapshotConsistent'
  BY <1>1, <1>4, <1>5 DEF Inv, SnapshotConsistent, Others, Contains
<1>13. QED
  BY <1>7, <1>8, <1>9, <1>10, <1>11, <1>12 DEF Inv

\* A step that leaves the lock without having written anything.
LEMMA ReleaseStep ==
  ASSUME Inv, NEW t \in Threads, NEW l \in Local, Becomes(t, l), holder' = None,
         UNCHANGED <<now, view, calls, published>>,
         thr[t].pc \in Inside \ Writing, l.pc = "out",
         l.snap = thr[t].snap \/ l.snap = view
  PROVE  Inv'
<1>1. thr' \in [Threads -> Local] /\ thr'[t] = l /\ Others(t)
  BY BecomesTyped, BecomesOthers DEF Inv
<1>2. \A u \in Threads \ {t} : thr[u].pc \notin Inside
  BY OneInside
<1>3. TypeOK'
  BY <1>1 DEF Inv, TypeOK, Local
<1>4. Exclusion'
  BY <1>1, <1>2, Constants DEF Exclusion, Others, Inside, Writing
<1>5. view = Latest
  BY <1>2 DEF Inv, Whole, Inside
<1>6. Whole' /\ Numbered'
  BY <1>5 DEF Inv, Whole, Numbered, Latest
<1>7. ASSUME NEW u \in Threads PROVE Progress(thr[u], view, Latest)'
  <2>1. CASE u = t
    BY <1>1, <2>1 DEF Progress, Writing
  <2>2. CASE u # t
    <3>1. thr'[u] = thr[u] /\ Progress(thr[u], view, Latest)
      BY <1>1, <2>2 DEF Others, Inv
    <3>2. QED
      BY <3>1 DEF Progress, Latest
  <2>3. QED
    BY <2>1, <2>2
<1>8. Contains(published, view)
  <2>1. Len(published) \in 1 .. Len(published) /\ published[Len(published)] = view
    BY <1>5 DEF Inv, Numbered, TypeOK, Latest
  <2>2. QED
    BY <2>1 DEF Contains
<1>9. SnapshotConsistent'
  BY <1>1, <1>8 DEF Inv, SnapshotConsistent, Others
<1>10. QED
  BY <1>3, <1>4, <1>6, <1>7, <1>9 DEF Inv

\* record returns: what it has written is published.
LEMMA ReturnRecordStep == ASSUME Inv, NEW t \in Threads, ReturnRecord(t) PROVE Inv'
<1> DEFINE l1 == [thr[t] EXCEPT !.pc = "out"]
           l  == [l1 EXCEPT !.snap = view]
<1>1. /\ thr[t].pc = "return"
      /\ Becomes(t, [thr[t] EXCEPT !.pc = "out", !.snap = view]) /\ holder' = None
      /\ UNCHANGED <<now, view, calls>> /\ published' = Append(published, view)
  BY DEF ReturnRecord, Release
<1>2. thr[t] \in Local /\ view \in View /\ published \in Seq(View)
  BY LocalTyped DEF Inv, TypeOK
<1>3. l \in Local /\ l.pc = "out" /\ l.snap = view /\ Becomes(t, l)
  <2>1. l = [thr[t] EXCEPT !.pc = "out", !.snap = view]
    BY <1>2, SMT DEF Local
  <2>2. l1 \in Local /\ l1.pc = "out"
    BY <1>2, SMT DEF Local, Place
  <2> HIDE DEF l1
  <2>3. l \in Local /\ l.pc = "out" /\ l.snap = view
    BY <1>2, <2>2, SMT DEF Local
  <2>4. QED
    BY <1>1, <2>1, <2>3
<1> HIDE DEF l
<1>4. thr' \in [Threads -> Local] /\ thr'[t] = l /\ Others(t)
  BY <1>1, <1>3, BecomesTyped, BecomesOthers DEF Inv
<1>5. \A u \in Threads \ {t} : thr[u].pc \notin Inside
  BY <1>1, OneInside DEF Inside, Writing
<1>6. /\ published' \in Seq(View) /\ Len(published') = Len(published) + 1
      /\ published'[Len(published) + 1] = view /\ Len(published) \in Nat
      /\ \A i \in 1 .. Len(published) : published'[i] = published[i]
  BY <1>1, <1>2, AppendKeeps
<1>7. Latest' = view
  BY <1>6 DEF Latest
<1>8. TypeOK'
  BY <1>1, <1>4, <1>6 DEF Inv, TypeOK, Local
<1>9. Exclusion'
  BY <1>1, <1>3, <1>4, <1>5, Constants DEF Exclusion, Others, Inside, Writing
<1>10. Whole'
  BY <1>1, <1>7 DEF Whole
<1>11. Numbered'
  <2>1. view.sequence = Latest.sequence + 1 /\ Latest.sequence = Len(published) - 1
    BY <1>1 DEF Inv, Progress, Numbered
  <2>2. QED
    BY <1>6, <1>7, <2>1, SMT DEF Numbered
<1>12. ASSUME NEW u \in Threads PROVE Progress(thr[u], view, Latest)'
  <2>1. CASE u = t
    BY <1>3, <1>4, <2>1 DEF Progress, Writing
  <2>2. CASE u # t
    <3>1. thr'[u] = thr[u] /\ Progress(thr[u], view, Latest) /\ thr[u].pc \notin Inside
      BY <1>4, <1>5, <2>2 DEF Others, Inv
    <3>2. QED
      BY <3>1 DEF Progress, Inside, Writing
  <2>3. QED
    BY <2>1, <2>2
<1>13. SnapshotConsistent'
  <2>1. ASSUME NEW e, Contains(published, e) \/ e = view PROVE Contains(published', e)
    BY <1>6, <2>1, SMT DEF Contains
  <2>2. \A u \in Threads : thr'[u].snap # None =>
            Contains(published, thr'[u].snap) \/ thr'[u].snap = view
    BY <1>3, <1>4 DEF Inv, SnapshotConsistent, Others
  <2>3. QED
    BY <2>1, <2>2 DEF SnapshotConsistent
<1>14. QED
  BY <1>8, <1>9, <1>10, <1>11, <1>12, <1>13 DEF Inv
-----------------------------------------------------------------------------
(* The five assignments of record *)

\* What a thread that writes has so far.
LEMMA Written ==
  ASSUME Inv, NEW t \in Threads
  PROVE  thr[t] \in Local /\ view \in View /\ Progress(thr[t], view, Latest) /\ Latest \in View
<1>1. Len(published) \in 1 .. Len(published) /\ published \in Seq(View)
  BY DEF Inv, Numbered, TypeOK
<1>2. Latest \in View
  BY <1>1 DEF Latest
<1>3. QED
  BY <1>2, LocalTyped DEF Inv, TypeOK

\* The fields are as the last record left them when a record starts to write.
LEMMA FirstWrite ==
  ASSUME Inv, NEW t \in Threads, thr[t].pc \in Inside \ Writing
  PROVE  view = Latest
<1>1. \A u \in Threads : thr[u].pc \notin Writing
  BY OneInside DEF Inside
<1>2. QED
  BY <1>1 DEF Inv, Whole

LEMMA WriteLastStep == ASSUME Inv, NEW t \in Threads, WriteLast(t) PROVE Inv'
<1> DEFINE l == [thr[t] EXCEPT !.pc = "at"]
           n == Newest(thr[t].time)
           f == [view EXCEPT !.last = n]
<1>1. /\ thr[t].pc = "last" /\ Becomes(t, l) /\ view' = f
      /\ UNCHANGED <<now, holder, calls, published>>
  BY DEF WriteLast, Locked
<1>2. view = Latest
  BY <1>1, FirstWrite DEF Inside, Writing
<1>3. thr[t] \in Local /\ view \in View /\ thr[t].kind \in Kinds
  BY <1>1, Written DEF Progress
<1>4. n \in Times /\ n >= thr[t].time /\ n >= view.last
  BY <1>3, SMT DEF Newest, Local, View, Times
<1> HIDE DEF n
<1>5. f \in View /\ f.last = n /\ f.sequence = view.sequence
  BY <1>3, <1>4, SMT DEF View
<1>6. /\ l \in Local /\ l.pc = "at" /\ l.snap = thr[t].snap /\ l.kind = thr[t].kind
      /\ l.time = thr[t].time
  BY <1>3, SMT DEF Local, Place
<1> HIDE DEF l, f
<1>7. Progress(l, f, Latest)
  BY <1>1, <1>2, <1>3, <1>4, <1>5, <1>6 DEF Progress, Writing, Latest
<1>8. QED
  BY <1>1, <1>5, <1>6, <1>7, LockedStep DEF Inside, Writing

LEMMA WriteAtStep == ASSUME Inv, NEW t \in Threads, WriteAt(t) PROVE Inv'
<1> DEFINE l == [thr[t] EXCEPT !.pc = "kind"]
           f == [view EXCEPT !.at = thr[t].wall]
<1>1. /\ thr[t].pc = "at" /\ Becomes(t, l) /\ view' = f
      /\ UNCHANGED <<now, holder, calls, published>>
  BY DEF WriteAt, Locked
<1>2. thr[t] \in Local /\ view \in View /\ Progress(thr[t], view, Latest)
  BY Written
<1>3. f \in View /\ f.last = view.last /\ f.sequence = view.sequence /\ f.at = thr[t].wall
  BY <1>2, SMT DEF View, Local
<1>4. /\ l \in Local /\ l.pc = "kind" /\ l.snap = thr[t].snap /\ l.kind = thr[t].kind
      /\ l.time = thr[t].time /\ l.wall = thr[t].wall
  BY <1>2, SMT DEF Local, Place
<1> HIDE DEF l, f
<1>5. Progress(l, f, Latest)
  BY <1>1, <1>2, <1>3, <1>4 DEF Progress, Writing, Latest
<1>6. QED
  BY <1>1, <1>3, <1>4, <1>5, LockedStep DEF Inside, Writing

LEMMA WriteKindStep == ASSUME Inv, NEW t \in Threads, WriteKind(t) PROVE Inv'
<1> DEFINE l1 == [thr[t] EXCEPT !.pc = "sequence"]
           l  == [l1 EXCEPT !.sequence = view.sequence]
           f  == [view EXCEPT !.kind = thr[t].kind]
<1>1. /\ thr[t].pc = "kind" /\ view' = f /\ UNCHANGED <<now, holder, calls, published>>
      /\ Becomes(t, [thr[t] EXCEPT !.pc = "sequence", !.sequence = view.sequence])
  BY DEF WriteKind, Locked
<1>2. thr[t] \in Local /\ view \in View /\ Progress(thr[t], view, Latest)
  BY Written
<1>3. /\ f \in View /\ f.last = view.last /\ f.sequence = view.sequence
      /\ f.at = view.at /\ f.kind = thr[t].kind
  BY <1>2, SMT DEF View, Local
<1>4. l = [thr[t] EXCEPT !.pc = "sequence", !.sequence = view.sequence]
  BY <1>2, SMT DEF Local
<1>5. /\ l1 \in Local /\ l1.pc = "sequence" /\ l1.snap = thr[t].snap
      /\ l1.kind = thr[t].kind /\ l1.time = thr[t].time /\ l1.wall = thr[t].wall
  BY <1>2, SMT DEF Local, Place
<1>6. Becomes(t, l)
  BY <1>1, <1>4
<1> HIDE DEF l1
<1>7. /\ l \in Local /\ l.pc = "sequence" /\ l.snap = thr[t].snap
      /\ l.kind = thr[t].kind /\ l.time = thr[t].time /\ l.wall = thr[t].wall
      /\ l.sequence = view.sequence
  BY <1>2, <1>5, SMT DEF Local, View
<1> HIDE DEF l, f
<1>8. Progress(l, f, Latest)
  BY <1>1, <1>2, <1>3, <1>7 DEF Progress, Writing, Latest
<1>9. QED
  BY <1>1, <1>3, <1>6, <1>7, <1>8, LockedStep DEF Inside, Writing

LEMMA WriteSequenceStep == ASSUME Inv, NEW t \in Threads, WriteSequence(t) PROVE Inv'
<1> DEFINE l == [thr[t] EXCEPT !.pc = "return"]
           f == [view EXCEPT !.sequence = thr[t].sequence + 1]
<1>1. /\ thr[t].pc = "sequence" /\ Becomes(t, l) /\ view' = f
      /\ UNCHANGED <<now, holder, calls, published>>
  BY DEF WriteSequence, Locked
<1>2. thr[t] \in Local /\ view \in View /\ Progress(thr[t], view, Latest)
  BY Written
<1>3. /\ f \in View /\ f.last = view.last /\ f.at = view.at /\ f.kind = view.kind
      /\ f.sequence = thr[t].sequence + 1
  BY <1>2, SMT DEF View, Local
<1>4. /\ l \in Local /\ l.pc = "return" /\ l.snap = thr[t].snap /\ l.kind = thr[t].kind
      /\ l.time = thr[t].time /\ l.wall = thr[t].wall
  BY <1>2, SMT DEF Local, Place
<1> HIDE DEF l, f
<1>5. Progress(l, f, Latest)
  BY <1>1, <1>2, <1>3, <1>4 DEF Progress, Writing, Latest
<1>6. QED
  BY <1>1, <1>3, <1>4, <1>5, LockedStep DEF Inside, Writing

-----------------------------------------------------------------------------
(* Every step *)

LEMMA CallStep ==
  ASSUME Inv, NEW t \in Threads, NEW l \in Local, Call(t, l),
         l.pc \in {"record", "snapshot", "idle", "out"},
         l.pc = "record" => l.kind \in Kinds, l.snap = thr[t].snap
  PROVE  Inv'
<1>1. /\ thr[t].pc = "out" /\ Becomes(t, l)
      /\ UNCHANGED <<now, holder, view, published>>
  BY DEF Call
<1>2. calls' \in 0 .. MaxCalls
  BY ManagerAssumption, SMT DEF Call, Inv, TypeOK
<1>3. QED
  BY <1>1, <1>2, OutsideStep DEF Inside, Writing

LEMMA StepKeepsInv == ASSUME Inv, NEW t \in Threads, Step(t) PROVE Inv'
<1> DEFINE o == thr[t]
<1>1. o \in Local /\ view \in View
  BY Written
<1>2. ASSUME NEW k \in Kinds \cup {Untyped}, CallRecord(t, k) PROVE Inv'
  <2>1. CASE k \in Kinds
    <3> DEFINE l1 == [o EXCEPT !.pc = "record"]
               l  == [l1 EXCEPT !.kind = k]
    <3>1. l = [o EXCEPT !.pc = "record", !.kind = k]
      BY <1>1, SMT DEF Local
    <3>2. l1 \in Local /\ l1.pc = "record" /\ l1.snap = o.snap
      BY <1>1, SMT DEF Local, Place
    <3> HIDE DEF l1
    <3>3. l \in Local /\ l.pc = "record" /\ l.snap = o.snap /\ l.kind = k
      BY <2>1, <3>2, SMT DEF Local
    <3>4. Call(t, l)
      BY <1>2, <2>1, <3>1 DEF CallRecord
    <3> HIDE DEF l
    <3>5. QED
      BY <2>1, <3>3, <3>4, CallStep
  <2>2. CASE k \notin Kinds
    <3>1. Call(t, o)
      BY <1>2, <2>2 DEF CallRecord
    <3>2. o.pc = "out"
      BY <3>1 DEF Call
    <3>3. QED
      BY <1>1, <3>1, <3>2, CallStep
  <2>3. QED
    BY <2>1, <2>2
<1>3. CASE ReadClock(t)
  <2> DEFINE l1 == [o EXCEPT !.pc = "wall"]
             l  == [l1 EXCEPT !.time = now]
  <2>1. /\ o.pc = "clock" /\ view' = view /\ UNCHANGED <<now, holder, calls, published>>
        /\ Becomes(t, [o EXCEPT !.pc = "wall", !.time = now])
    BY <1>3 DEF ReadClock, Locked
  <2>2. l = [o EXCEPT !.pc = "wall", !.time = now]
    BY <1>1, SMT DEF Local
  <2>3. l1 \in Local /\ l1.pc = "wall" /\ l1.snap = o.snap /\ l1.kind = o.kind
    BY <1>1, SMT DEF Local, Place
  <2>4. now \in Times
    BY DEF Inv, TypeOK
  <2>5. Becomes(t, l)
    BY <2>1, <2>2
  <2> HIDE DEF l1
  <2>6. l \in Local /\ l.pc = "wall" /\ l.snap = o.snap /\ l.kind = o.kind
    BY <2>3, <2>4, SMT DEF Local
  <2> HIDE DEF l
  <2>7. Progress(l, view, Latest)
    BY <2>1, <2>6, Written DEF Progress, Writing
  <2>8. QED
    BY <1>1, <2>1, <2>5, <2>6, <2>7, LockedStep DEF Inside, Writing
<1>4. ASSUME NEW w \in Times, ReadWallClock(t, w) PROVE Inv'
  <2> DEFINE l1 == [o EXCEPT !.pc = "last"]
             l  == [l1 EXCEPT !.wall = w]
  <2>1. /\ o.pc = "wall" /\ view' = view /\ UNCHANGED <<now, holder, calls, published>>
        /\ Becomes(t, [o EXCEPT !.pc = "last", !.wall = w])
    BY <1>4 DEF ReadWallClock, Locked
  <2>2. l = [o EXCEPT !.pc = "last", !.wall = w]
    BY <1>1, SMT DEF Local
  <2>3. l1 \in Local /\ l1.pc = "last" /\ l1.snap = o.snap /\ l1.kind = o.kind
    BY <1>1, SMT DEF Local, Place
  <2>4. Becomes(t, l)
    BY <2>1, <2>2
  <2> HIDE DEF l1
  <2>5. l \in Local /\ l.pc = "last" /\ l.snap = o.snap /\ l.kind = o.kind
    BY <2>3, SMT DEF Local
  <2> HIDE DEF l
  <2>6. Progress(l, view, Latest)
    BY <2>1, <2>5, Written DEF Progress, Writing
  <2>7. QED
    BY <1>1, <2>1, <2>4, <2>5, <2>6, LockedStep DEF Inside, Writing
<1>5. CASE ClockRaises(t)
  <2> DEFINE l == [o EXCEPT !.pc = "out"]
  <2>1. /\ o.pc \in {"clock", "wall"} /\ Becomes(t, l) /\ holder' = None
        /\ UNCHANGED <<now, view, calls, published>>
    BY <1>5 DEF ClockRaises, Release
  <2>2. l \in Local /\ l.pc = "out" /\ l.snap = o.snap
    BY <1>1, SMT DEF Local, Place
  <2> HIDE DEF l
  <2>3. QED
    BY <2>1, <2>2, ReleaseStep DEF Inside, Writing
<1>6. CASE CallSnapshot(t)
  <2> DEFINE l1 == [o EXCEPT !.pc = "snapshot"]
             l  == [l1 EXCEPT !.kind = None]
  <2>1. l = [o EXCEPT !.pc = "snapshot", !.kind = None]
    BY <1>1, SMT DEF Local
  <2>2. l1 \in Local /\ l1.pc = "snapshot" /\ l1.snap = o.snap
    BY <1>1, SMT DEF Local, Place
  <2>3. Call(t, l)
    BY <1>6, <2>1 DEF CallSnapshot
  <2> HIDE DEF l1
  <2>4. l \in Local /\ l.pc = "snapshot" /\ l.snap = o.snap
    BY <2>2, SMT DEF Local
  <2> HIDE DEF l
  <2>5. QED
    BY <2>3, <2>4, CallStep
<1>7. CASE ReturnSnapshot(t)
  <2> DEFINE l1 == [o EXCEPT !.pc = "out"]
             l  == [l1 EXCEPT !.snap = view]
  <2>1. /\ o.pc = "copy" /\ holder' = None /\ UNCHANGED <<now, view, calls, published>>
        /\ Becomes(t, [o EXCEPT !.pc = "out", !.snap = view])
    BY <1>7 DEF ReturnSnapshot, Release
  <2>2. l = [o EXCEPT !.pc = "out", !.snap = view]
    BY <1>1, SMT DEF Local
  <2>3. l1 \in Local /\ l1.pc = "out"
    BY <1>1, SMT DEF Local, Place
  <2>4. Becomes(t, l)
    BY <2>1, <2>2
  <2> HIDE DEF l1
  <2>5. l \in Local /\ l.pc = "out" /\ l.snap = view
    BY <1>1, <2>3, SMT DEF Local
  <2> HIDE DEF l
  <2>6. QED
    BY <2>1, <2>4, <2>5, ReleaseStep DEF Inside, Writing
<1>8. CASE CallIdleSeconds(t)
  <2> DEFINE l1 == [o EXCEPT !.pc = "idle"]
             l  == [l1 EXCEPT !.time = now]
  <2>1. l = [o EXCEPT !.pc = "idle", !.time = now]
    BY <1>1, SMT DEF Local
  <2>2. l1 \in Local /\ l1.pc = "idle" /\ l1.snap = o.snap
    BY <1>1, SMT DEF Local, Place
  <2>3. Call(t, l) /\ now \in Times
    BY <1>8, <2>1 DEF CallIdleSeconds, Inv, TypeOK
  <2> HIDE DEF l1
  <2>4. l \in Local /\ l.pc = "idle" /\ l.snap = o.snap
    BY <2>2, <2>3, SMT DEF Local
  <2> HIDE DEF l
  <2>5. QED
    BY <2>3, <2>4, CallStep
<1>9. CASE ReturnIdleSeconds(t)
  <2> DEFINE n  == IdleSeconds(view.last, o.time)
             l1 == [o EXCEPT !.pc = "out"]
             l  == [l1 EXCEPT !.idle = n]
  <2>1. /\ o.pc = "measure" /\ holder' = None /\ UNCHANGED <<now, view, calls, published>>
        /\ Becomes(t, [o EXCEPT !.pc = "out", !.idle = n])
    BY <1>9 DEF ReturnIdleSeconds, Release
  <2>2. n \in Int
    BY <1>1, SMT DEF IdleSeconds, Local, View, Times
  <2> HIDE DEF n
  <2>3. l = [o EXCEPT !.pc = "out", !.idle = n]
    BY <1>1, SMT DEF Local
  <2>4. l1 \in Local /\ l1.pc = "out" /\ l1.snap = o.snap
    BY <1>1, SMT DEF Local, Place
  <2>5. Becomes(t, l)
    BY <2>1, <2>3
  <2> HIDE DEF l1
  <2>6. l \in Local /\ l.pc = "out" /\ l.snap = o.snap
    BY <2>2, <2>4, SMT DEF Local
  <2> HIDE DEF l
  <2>7. QED
    BY <2>1, <2>5, <2>6, ReleaseStep DEF Inside, Writing
<1>10. QED
  BY <1>2, <1>3, <1>4, <1>5, <1>6, <1>7, <1>8, <1>9, AcquireStep, WriteLastStep,
     WriteAtStep, WriteKindStep, WriteSequenceStep, ReturnRecordStep DEF Step

LEMMA NextKeepsInv == Inv /\ [Next]_vars => Inv'
<1> SUFFICES ASSUME Inv, [Next]_vars PROVE Inv'
  OBVIOUS
<1>1. ASSUME NEW t \in Threads, Step(t) PROVE Inv'
  BY <1>1, StepKeepsInv
<1>2. CASE ClockMoves \/ UNCHANGED vars
  <2>1. now' \in Times /\ UNCHANGED <<holder, view, thr, calls, published>>
    BY <1>2 DEF ClockMoves, vars, Inv, TypeOK
  <2>2. QED
    BY <2>1 DEF Inv, TypeOK, Exclusion, Whole, Numbered, Progress, SnapshotConsistent,
                Latest, Contains
<1>3. QED
  BY <1>1, <1>2 DEF Next

LEMMA InvHolds == Spec => []Inv
  BY InvInit, NextKeepsInv, PTL DEF Spec

\* Every variable keeps its type, for any threads, clocks and number of calls.
THEOREM TypeCorrect == Spec => []TypeOK
<1>1. Inv => TypeOK
  BY DEF Inv
<1>2. QED
  BY <1>1, InvHolds, PTL

\* Snapshots never show a record in the middle.
THEOREM SnapshotConsistentHolds == Spec => []SnapshotConsistent
<1>1. Inv => SnapshotConsistent
  BY DEF Inv
<1>2. QED
  BY <1>1, InvHolds, PTL

\* record returns the view of its own event.
THEOREM RecordReturnsOwnEventHolds == Spec => []RecordReturnsOwnEvent
<1>1. Inv => RecordReturnsOwnEvent
  <2> SUFFICES ASSUME Inv, NEW t \in Threads, thr[t].pc = "return"
               PROVE  /\ view.kind = thr[t].kind /\ view.at = thr[t].wall
                      /\ view.last >= thr[t].time /\ view.sequence = Len(published)
    BY DEF RecordReturnsOwnEvent
  <2>1. Progress(thr[t], view, Latest)
    BY Written
  <2>2. Latest.sequence = Len(published) - 1 /\ Len(published) \in Nat
    BY DEF Inv, Numbered, TypeOK
  <2>3. QED
    BY <2>1, <2>2, SMT DEF Progress, Writing
<1>2. QED
  BY <1>1, InvHolds, PTL
-----------------------------------------------------------------------------
(* Refinement of ActivityLog *)

LEMMA CommittedIsLatest == Inv => Committed = Latest
<1> SUFFICES ASSUME Inv, holder = None PROVE view = Latest
  BY DEF Committed, Latest
<1>1. \A t \in Threads : thr[t].pc \notin Writing
  BY Constants DEF Inv, Exclusion, Inside
<1>2. QED
  BY <1>1 DEF Inv, Whole

LEMMA LogInitial == Init => Log!LogInit
  BY SMT DEF Init, Committed, Log!LogInit, Log!View, Times

LEMMA LogStep == Inv /\ Inv' /\ [Next]_vars => [Log!Append]_Committed
<1> SUFFICES ASSUME Inv, Inv', [Next]_vars PROVE [Log!Append]_Committed
  OBVIOUS
<1>0. (Inv => Committed = Latest)'
  BY CommittedIsLatest, PTL
<1>1. Committed = Latest /\ Committed' = Latest'
  BY <1>0, CommittedIsLatest
<1>2. CASE published' = published
  BY <1>1, <1>2 DEF Latest
<1>3. ASSUME NEW t \in Threads, ReturnRecord(t) PROVE Log!Append
  <2>1. thr[t].pc = "return" /\ published' = Append(published, view)
    BY <1>3 DEF ReturnRecord, Release
  <2>2. published \in Seq(View) /\ view \in View
    BY DEF Inv, TypeOK
  <2>3. Latest' = view
    BY <2>1, <2>2, AppendKeeps DEF Latest
  <2>4. Progress(thr[t], view, Latest)
    BY Written
  <2>5. /\ view.last \in Times /\ view.last >= Latest.last
        /\ view.at \in Times /\ view.kind \in Kinds
        /\ view.sequence = Latest.sequence + 1
    BY <2>1, <2>2, <2>4 DEF Progress, Writing, View
  <2>6. view \in [last : {x \in Times : x >= Latest.last}, at : Times, kind : Kinds,
                  sequence : {Latest.sequence + 1}]
    BY <2>2, <2>5 DEF View
  <2>7. QED
    BY <1>1, <2>3, <2>6 DEF Log!Append
<1>4. published' = published \/ \E t \in Threads : ReturnRecord(t)
  BY DEF Next, vars, ClockMoves, Step, CallRecord, Call, Acquire, ReadClock, ReadWallClock,
         Locked, ClockRaises, Release, WriteLast, WriteAt, WriteKind, WriteSequence,
         CallSnapshot, ReturnSnapshot, CallIdleSeconds, ReturnIdleSeconds
<1>5. QED
  BY <1>2, <1>3, <1>4

\* The assignments of record, in any interleaving with other threads and with
\* clocks that raise or run backwards, implement the atomic log that IdleLock
\* relies on: every event whole, numbered next, the time never moving back.
THEOREM ImplementsActivityLog == Spec => RecordsAreAtomic
<1>1. QED
  BY LogInitial, LogStep, InvHolds, PTL DEF Spec, RecordsAreAtomic, Log!LogSpec
-----------------------------------------------------------------------------
(* What the controller relies on: a sequence number stands for its event     *)

\* The views are numbered in the order of their publication, and their times
\* follow it.
InOrder ==
  /\ \A i \in 1 .. Len(published) : published[i].sequence = i - 1
  /\ \A i, j \in 1 .. Len(published) : i <= j => published[i].last <= published[j].last

\* evaluate_once compares nothing but sequence numbers (idle.py:106).  Equal
\* numbers are one and the same event, whichever threads took the snapshots, and
\* of two events the one with the greater number is not the older one.
SequenceIdentifies ==
  \A t, u \in Threads :
    LET s == thr[t].snap
        r == thr[u].snap
    IN  s # None /\ r # None =>
          /\ s.sequence = r.sequence => s = r
          /\ s.sequence <= r.sequence => s.last <= r.last

\* A thread that takes one snapshot after the other never goes back, so a number
\* that differs from the last one observed always is newer input.
SnapshotsAdvance ==
  [][\A t \in Threads :
       thr[t].snap # None =>
         /\ thr[t].snap.sequence <= thr'[t].snap.sequence
         /\ thr[t].snap.last <= thr'[t].snap.last]_vars

\* So many statements are left of a with block.
Left(place) ==
  IF place = "clock" THEN 7
  ELSE IF place = "wall" THEN 6
  ELSE IF place = "last" THEN 5
  ELSE IF place = "at" THEN 4
  ELSE IF place = "kind" THEN 3
  ELSE IF place = "sequence" THEN 2
  ELSE IF place \in {"return", "copy", "measure"} THEN 1 ELSE 0

\* The lock passes from its holder to nobody and never straight to another thread,
\* and the holder waits for nothing: each step of its own brings the release
\* nearer, also with clocks that raise, and no other thread's step concerns it.
HolderAdvances ==
  [][\A t \in Threads : holder = t =>
       \/ holder' = t /\ thr'[t] = thr[t]
       \/ holder' = t /\ Left(thr'[t].pc) < Left(thr[t].pc)
       \/ holder' = None /\ thr'[t].pc = "out"]_vars

LEMMA InOrderInit == Init => InOrder
BY SMT DEF Init, InOrder, Times

\* A step publishes nothing or one view, the next one.
LEMMA Publishes ==
  ASSUME Inv, [Next]_vars
  PROVE  \/ published' = published
         \/ /\ published' = Append(published, view) /\ view \in View
            /\ view.sequence = Len(published) /\ view.last >= Latest.last
<1>1. published' = published \/ \E t \in Threads : ReturnRecord(t)
  BY DEF Next, vars, ClockMoves, Step, CallRecord, Call, Acquire, ReadClock, ReadWallClock,
         Locked, ClockRaises, Release, WriteLast, WriteAt, WriteKind, WriteSequence,
         CallSnapshot, ReturnSnapshot, CallIdleSeconds, ReturnIdleSeconds
<1>2. ASSUME NEW t \in Threads, ReturnRecord(t)
      PROVE  /\ published' = Append(published, view) /\ view \in View
             /\ view.sequence = Len(published) /\ view.last >= Latest.last
  <2>1. thr[t].pc = "return" /\ published' = Append(published, view)
    BY <1>2 DEF ReturnRecord, Release
  <2>2. view.sequence = Latest.sequence + 1 /\ view.last >= Latest.last /\ view \in View
    BY <2>1, Written DEF Progress, Writing
  <2>3. Latest.sequence = Len(published) - 1 /\ Len(published) \in Nat
    BY DEF Inv, Numbered, TypeOK
  <2>4. QED
    BY <2>1, <2>2, <2>3, SMT
<1>3. QED
  BY <1>1, <1>2

LEMMA InOrderStep == Inv /\ InOrder /\ [Next]_vars => InOrder'
<1> SUFFICES ASSUME Inv, InOrder, [Next]_vars PROVE InOrder'
  OBVIOUS
<1>1. CASE published' = published
  BY <1>1 DEF InOrder
<1>2. CASE /\ published' = Append(published, view) /\ view \in View
           /\ view.sequence = Len(published) /\ view.last >= Latest.last
  <2> DEFINE n == Len(published)
  <2>1. /\ published \in Seq(View) /\ n \in Nat /\ n > 0
        /\ \A i \in 1 .. n : published[i].last \in Int /\ published[i].last <= Latest.last
    <3>1. published \in Seq(View) /\ n \in Nat /\ n > 0
      BY DEF Inv, TypeOK, Numbered
    <3>2. ASSUME NEW i \in 1 .. n
          PROVE  published[i].last \in Int /\ published[i].last <= Latest.last
      <4>1. published[i] \in View /\ n \in 1 .. n /\ i <= n
        BY <3>1
      <4>2. QED
        BY <4>1, SMT DEF View, Times, InOrder, Latest
    <3>3. QED
      BY <3>1, <3>2
  <2>2. /\ Len(published') = n + 1 /\ published'[n + 1] = view
        /\ \A i \in 1 .. n : published'[i] = published[i]
    BY <1>2, <2>1, AppendKeeps
  <2>3. view.last \in Int /\ \A i \in 1 .. n : published[i].last <= view.last
    <3>1. view.last \in Int /\ Latest.last \in Int
      <4>1. n \in 1 .. n
        BY <2>1
      <4>2. view.last \in Int
        BY <1>2, SMT DEF View, Times
      <4>3. Latest.last \in Int
        BY <2>1, <4>1 DEF Latest
      <4>4. QED
        BY <4>2, <4>3
    <3>2. QED
      BY <1>2, <2>1, <3>1, SMT
  <2>4. \A i \in 1 .. n + 1 : published'[i].sequence = i - 1
    <3>1. \A i \in 1 .. n : published[i].sequence = i - 1
      BY DEF InOrder
    <3>2. QED
      BY <1>2, <2>1, <2>2, <3>1, SMT
  <2>5. ASSUME NEW i \in 1 .. n + 1, NEW j \in 1 .. n + 1, i <= j
        PROVE  published'[i].last <= published'[j].last
    <3>1. CASE j \in 1 .. n
      <4>1. i \in 1 .. n
        BY <2>1, <2>5, <3>1
      <4>2. QED
        BY <2>2, <2>5, <3>1, <4>1 DEF InOrder
    <3>2. CASE j = n + 1 /\ i \in 1 .. n
      BY <2>2, <2>3, <3>2
    <3>3. CASE j = n + 1 /\ i = n + 1
      BY <2>2, <2>3, <3>3
    <3>4. QED
      BY <2>1, <2>5, <3>1, <3>2, <3>3
  <2>6. QED
    BY <2>2, <2>4, <2>5 DEF InOrder
<1>3. QED
  BY <1>1, <1>2, Publishes

LEMMA InOrderHolds == Spec => []InOrder
  BY InOrderInit, InOrderStep, InvHolds, PTL DEF Spec

\* What holds of any two published views
LEMMA NumberIdentifies ==
  ASSUME Inv, InOrder, NEW s, NEW r, Contains(published, s), Contains(published, r)
  PROVE  /\ s.sequence = r.sequence => s = r
         /\ s.sequence <= r.sequence => s.last <= r.last
<1>1. PICK i \in 1 .. Len(published) : published[i] = s
  BY DEF Contains
<1>2. PICK j \in 1 .. Len(published) : published[j] = r
  BY DEF Contains
<1>3. Len(published) \in Nat
  BY DEF Inv, TypeOK
<1>4. s.sequence = i - 1 /\ r.sequence = j - 1
  BY <1>1, <1>2 DEF InOrder
<1>5. i <= j => s.last <= r.last
  BY <1>1, <1>2 DEF InOrder
<1>6. s.sequence = r.sequence => i = j
  BY <1>3, <1>4
<1>7. s.sequence <= r.sequence => i <= j
  BY <1>3, <1>4
<1>8. QED
  BY <1>1, <1>2, <1>5, <1>6, <1>7

\* Equal sequence numbers are the same event, over all threads and all time
\* (activity.py, idle.py:106).
THEOREM SequenceIdentifiesHolds == Spec => []SequenceIdentifies
<1>1. Inv /\ InOrder => SequenceIdentifies
  <2> SUFFICES ASSUME Inv, InOrder, NEW t \in Threads, NEW u \in Threads,
                      thr[t].snap # None, thr[u].snap # None
               PROVE  /\ thr[t].snap.sequence = thr[u].snap.sequence => thr[t].snap = thr[u].snap
                      /\ thr[t].snap.sequence <= thr[u].snap.sequence
                           => thr[t].snap.last <= thr[u].snap.last
    BY DEF SequenceIdentifies
  <2>1. Contains(published, thr[t].snap) /\ Contains(published, thr[u].snap)
    BY DEF Inv, SnapshotConsistent
  <2>2. QED
    BY <2>1, NumberIdentifies
<1>2. QED
  BY <1>1, InvHolds, InOrderHolds, PTL

\* What a call returns is the latest view at that moment.
LEMMA SnapIsLatest ==
  ASSUME Inv, [Next]_vars, NEW t \in Threads
  PROVE  thr'[t].snap = thr[t].snap \/ thr'[t].snap = Latest'
<1>1. thr \in [Threads -> Local] /\ published \in Seq(View) /\ view \in View
  BY DEF Inv, TypeOK, Local
<1>2. CASE ClockMoves \/ UNCHANGED vars
  BY <1>2 DEF ClockMoves, vars
<1>3. ASSUME NEW u \in Threads, Step(u), u # t PROVE thr'[t] = thr[t]
  <2>1. \E l : Becomes(u, l)
    BY <1>3 DEF Step, CallRecord, Call, Acquire, ReadClock, ReadWallClock, Locked, ClockRaises,
           Release, WriteLast, WriteAt, WriteKind, WriteSequence, ReturnRecord, CallSnapshot,
           ReturnSnapshot, CallIdleSeconds, ReturnIdleSeconds
  <2>2. QED
    BY <1>1, <1>3, <2>1 DEF Becomes
<1>4. ASSUME Step(t) PROVE thr'[t].snap = thr[t].snap \/ thr'[t].snap = Latest'
  <2> DEFINE o == thr[t]
  <2>1. o \in Local
    BY <1>1
  <2>2. CASE ReturnRecord(t)
    <3>1. Becomes(t, [o EXCEPT !.pc = "out", !.snap = view])
          /\ published' = Append(published, view)
      BY <2>2 DEF ReturnRecord, Release
    <3>2. thr'[t] = [o EXCEPT !.pc = "out", !.snap = view]
      BY <1>1, <3>1 DEF Becomes
    <3>3. Latest' = view
      BY <1>1, <3>1, AppendKeeps DEF Latest
    <3>4. QED
      BY <2>1, <3>2, <3>3, SMT DEF Local
  <2>3. CASE ReturnSnapshot(t)
    <3>1. o.pc = "copy" /\ Becomes(t, [o EXCEPT !.pc = "out", !.snap = view])
          /\ published' = published
      BY <2>3 DEF ReturnSnapshot, Release
    <3>2. thr'[t] = [o EXCEPT !.pc = "out", !.snap = view]
      BY <1>1, <3>1 DEF Becomes
    <3>3. \A v \in Threads : thr[v].pc \notin Writing
      BY <3>1, OneInside DEF Inside, Writing
    <3>4. Latest' = view
      BY <3>1, <3>3 DEF Inv, Whole, Latest
    <3>5. QED
      BY <2>1, <3>2, <3>4, SMT DEF Local
  <2>4. CASE ~ReturnRecord(t) /\ ~ReturnSnapshot(t)
    <3>1. CASE \E k \in Kinds \cup {Untyped} : CallRecord(t, k)
      BY <1>1, <2>1, <3>1, SMT DEF CallRecord, Call, Becomes, Local
    <3>2. CASE Acquire(t)
      BY <1>1, <2>1, <3>2, SMT DEF Acquire, Becomes, Local
    <3>3. CASE ReadClock(t)
      BY <1>1, <2>1, <3>3, SMT DEF ReadClock, Locked, Becomes, Local
    <3>4. CASE \E w \in Times : ReadWallClock(t, w)
      BY <1>1, <2>1, <3>4, SMT DEF ReadWallClock, Locked, Becomes, Local
    <3>5. CASE ClockRaises(t)
      BY <1>1, <2>1, <3>5, SMT DEF ClockRaises, Release, Becomes, Local
    <3>6. CASE WriteLast(t) \/ WriteAt(t)
      BY <1>1, <2>1, <3>6, SMT DEF WriteLast, WriteAt, Locked, Becomes, Local
    <3>7. CASE WriteKind(t)
      BY <1>1, <2>1, <3>7, SMT DEF WriteKind, Locked, Becomes, Local
    <3>8. CASE WriteSequence(t)
      BY <1>1, <2>1, <3>8, SMT DEF WriteSequence, Locked, Becomes, Local
    <3>9. CASE CallSnapshot(t)
      BY <1>1, <2>1, <3>9, SMT DEF CallSnapshot, Call, Becomes, Local
    <3>10. CASE CallIdleSeconds(t)
      BY <1>1, <2>1, <3>10, SMT DEF CallIdleSeconds, Call, Becomes, Local
    <3>11. CASE ReturnIdleSeconds(t)
      BY <1>1, <2>1, <3>11, SMT DEF ReturnIdleSeconds, Release, Becomes, Local
    <3>12. QED
      BY <1>4, <2>4, <3>1, <3>2, <3>3, <3>4, <3>5, <3>6, <3>7, <3>8, <3>9, <3>10, <3>11 DEF Step
  <2>5. QED
    BY <2>2, <2>3, <2>4
<1>5. QED
  BY <1>2, <1>3, <1>4 DEF Next

LEMMA AdvanceStep ==
  ASSUME Inv, Inv', InOrder', [Next]_vars, NEW t \in Threads, thr[t].snap # None
  PROVE  /\ thr[t].snap.sequence <= thr'[t].snap.sequence
         /\ thr[t].snap.last <= thr'[t].snap.last
<1>1. published \in Seq(View) /\ published' \in Seq(View) /\ thr[t].snap \in View
  BY DEF Inv, TypeOK
<1>2. \A v \in View : v.sequence \in Nat /\ v.last \in Int
  BY DEF View, Times
<1>3. Len(published') \in Nat /\ Len(published') > 0
  BY DEF Inv, TypeOK, Numbered
<1>4. CASE thr'[t].snap = thr[t].snap
  BY <1>1, <1>2, <1>4
<1>5. CASE thr'[t].snap = Latest'
  <2>1. PICK i \in 1 .. Len(published) : published[i] = thr[t].snap
    BY DEF Inv, SnapshotConsistent, Contains
  <2>2. i \in 1 .. Len(published') /\ published'[i] = thr[t].snap
    <3>1. CASE published' = published
      BY <2>1, <3>1
    <3>2. CASE published' = Append(published, view) /\ view \in View
      BY <1>1, <2>1, <3>2, AppendKeeps
    <3>3. QED
      BY <3>1, <3>2, Publishes
  <2>3. Latest' = published'[Len(published')] /\ Len(published') \in 1 .. Len(published')
        /\ i <= Len(published')
    BY <1>3, <2>2 DEF Latest
  <2>4. /\ thr[t].snap.sequence = i - 1 /\ Latest'.sequence = Len(published') - 1
        /\ thr[t].snap.last <= Latest'.last
    BY <2>2, <2>3 DEF InOrder
  <2>5. Latest' \in View
    BY <1>1, <2>3
  <2>6. QED
    BY <1>2, <1>3, <1>5, <2>2, <2>3, <2>4, <2>5
<1>6. QED
  BY <1>4, <1>5, SnapIsLatest

\* The controller never sees the log go back (activity.py; idle.py:105-109).
THEOREM SnapshotsAdvanceHolds == Spec => SnapshotsAdvance
<1>1. Inv /\ Inv' /\ InOrder' /\ [Next]_vars =>
        [\A t \in Threads :
           thr[t].snap # None =>
             /\ thr[t].snap.sequence <= thr'[t].snap.sequence
             /\ thr[t].snap.last <= thr'[t].snap.last]_vars
  BY AdvanceStep
<1>2. QED
  BY <1>1, InvHolds, InOrderHolds, PTL DEF Spec, SnapshotsAdvance

LEMMA HolderStep ==
  ASSUME Inv, [Next]_vars, NEW t \in Threads, holder = t
  PROVE  \/ holder' = t /\ thr'[t] = thr[t]
         \/ holder' = t /\ Left(thr'[t].pc) < Left(thr[t].pc)
         \/ holder' = None /\ thr'[t].pc = "out"
<1> DEFINE o == thr[t]
<1>1. thr \in [Threads -> Local] /\ o \in Local /\ t # None
  BY Constants DEF Inv, TypeOK, Local
<1>2. CASE ClockMoves \/ UNCHANGED vars
  BY <1>2 DEF ClockMoves, vars
<1>3. ASSUME NEW u \in Threads, Step(u), u # t PROVE holder' = t /\ thr'[t] = thr[t]
  <2>1. thr[u].pc \notin Inside
    BY <1>3 DEF Inv, Exclusion
  <2>2. PICK l : Becomes(u, l) /\ holder' = holder
    BY <1>1, <1>3, <2>1 DEF Step, CallRecord, Call, Acquire, Free, ReadClock, ReadWallClock,
           Locked, ClockRaises, Release, WriteLast, WriteAt, WriteKind, WriteSequence,
           ReturnRecord, CallSnapshot, ReturnSnapshot, CallIdleSeconds, ReturnIdleSeconds,
           Inside, Writing
  <2>3. QED
    BY <1>1, <1>3, <2>2 DEF Becomes
<1>4. ASSUME Step(t)
      PROVE  \/ holder' = t /\ Left(thr'[t].pc) < Left(thr[t].pc)
             \/ holder' = None /\ thr'[t].pc = "out"
  <2>1. o.pc \in Inside
    BY DEF Inv, Exclusion
  <2>2. CASE ReadClock(t)
    BY <1>1, <2>2, SMT DEF ReadClock, Locked, Becomes, Local, Left
  <2>3. CASE \E w \in Times : ReadWallClock(t, w)
    BY <1>1, <2>3, SMT DEF ReadWallClock, Locked, Becomes, Local, Left
  <2>4. CASE WriteLast(t)
    BY <1>1, <2>4, SMT DEF WriteLast, Locked, Becomes, Local, Left
  <2>5. CASE WriteAt(t)
    BY <1>1, <2>5, SMT DEF WriteAt, Locked, Becomes, Local, Left
  <2>6. CASE WriteKind(t)
    BY <1>1, <2>6, SMT DEF WriteKind, Locked, Becomes, Local, Left
  <2>7. CASE WriteSequence(t)
    BY <1>1, <2>7, SMT DEF WriteSequence, Locked, Becomes, Local, Left
  <2>8. CASE ClockRaises(t)
    BY <1>1, <2>8, SMT DEF ClockRaises, Release, Becomes, Local
  <2>9. CASE ReturnRecord(t) \/ ReturnSnapshot(t)
    <3>1. Becomes(t, [o EXCEPT !.pc = "out", !.snap = view]) /\ holder' = None
      BY <2>9 DEF ReturnRecord, ReturnSnapshot, Release
    <3>2. thr'[t] = [o EXCEPT !.pc = "out", !.snap = view]
      BY <1>1, <3>1 DEF Becomes
    <3>3. QED
      BY <1>1, <3>1, <3>2, SMT DEF Local
  <2>10. CASE ReturnIdleSeconds(t)
    BY <1>1, <2>10, SMT DEF ReturnIdleSeconds, Release, Becomes, Local
  <2>11. ~(\/ \E k \in Kinds \cup {Untyped} : CallRecord(t, k)
           \/ Acquire(t) \/ CallSnapshot(t) \/ CallIdleSeconds(t))
    BY <2>1 DEF CallRecord, Call, Acquire, CallSnapshot, CallIdleSeconds, Inside, Writing
  <2>12. QED
    BY <1>4, <2>2, <2>3, <2>4, <2>5, <2>6, <2>7, <2>8, <2>9, <2>10, <2>11 DEF Step
<1>5. QED
  BY <1>2, <1>3, <1>4 DEF Next

\* Whoever waits for the lock waits for at most seven statements of one thread
\* and for nothing that thread waits for (activity.py, the three with blocks).
THEOREM HolderAdvancesHolds == Spec => HolderAdvances
<1>1. Inv /\ [Next]_vars =>
        [\A t \in Threads : holder = t =>
           \/ holder' = t /\ thr'[t] = thr[t]
           \/ holder' = t /\ Left(thr'[t].pc) < Left(thr[t].pc)
           \/ holder' = None /\ thr'[t].pc = "out"]_vars
  BY HolderStep
<1>2. QED
  BY <1>1, InvHolds, PTL DEF Spec, HolderAdvances
=============================================================================
