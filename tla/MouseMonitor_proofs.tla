------------------------- MODULE MouseMonitor_proofs -------------------------
(***************************************************************************)
(* Proofs about MouseMonitor for any clock, window and interval, and any   *)
(* number of hook threads; the spacing of the refreshes for two of them,   *)
(* the hook that is being replaced and its replacement.                    *)
(***************************************************************************)
EXTENDS MouseMonitor, TLAPS

Reading == [pc : {"out", "move", "record"}, reading : Times]

\* The filter's memory is that of movements it really took and accepted.
Memory ==
  /\ filter.moveAt # None => filter.moveAt \in taken.moves
  /\ filter.refreshAt # None => refreshedAt = filter.refreshAt

Inv == TypeOK /\ Memory

LEMMA Constants ==
  /\ \A x \in Times : x \in Int /\ x # None
  /\ Window \in Nat /\ Refresh \in Nat /\ Refresh > 0
  BY MouseAssumption DEF Times

LEMMA TimeTyped == Inv => now \in Times
  BY DEF Inv, TypeOK

\* What a callback leaves behind is of its type, whatever the filter decides.
LEMMA FilterTyped ==
  ASSUME Inv, NEW h \in Hooks, FilterMove(h)
  PROVE  /\ hooks[h].reading \in Times
         /\ filter'.moveAt = hooks[h].reading
         /\ filter'.refreshAt = RefreshAt(hooks[h].reading)
         /\ RefreshAt(hooks[h].reading) \in Times \cup {None}
         /\ TypeOK'
<1>1. hooks[h].reading \in Times
  BY DEF Inv, TypeOK
<1>2. RefreshAt(hooks[h].reading) \in Times \cup {None}
  BY <1>1 DEF RefreshAt, Inv, TypeOK
<1>3. /\ filter' = [moveAt |-> hooks[h].reading, refreshAt |-> RefreshAt(hooks[h].reading)]
      /\ filter' \in [moveAt : Times \cup {None}, refreshAt : Times \cup {None}]
  BY <1>1, <1>2 DEF FilterMove
<1>4. hooks' \in [Hooks -> Reading]
  <2>1. hooks \in [Hooks -> Reading]
    BY DEF Inv, TypeOK, Reading
  <2>2. \E p \in {"out", "record"} : hooks' = [hooks EXCEPT ![h].pc = p]
    BY DEF FilterMove
  <2>3. QED
    BY <2>1, <2>2 DEF Reading
<1>5. taken' \in [moves : SUBSET Times, accepted : Seq(Times)]
  <2>1. taken.moves \cup {hooks[h].reading} \in SUBSET Times
    BY <1>1 DEF Inv, TypeOK
  <2>2. taken.accepted \in Seq(Times) /\ Append(taken.accepted, hooks[h].reading) \in Seq(Times)
    BY <1>1 DEF Inv, TypeOK
  <2>3. QED
    BY <2>1, <2>2 DEF FilterMove
<1>6. refreshedAt' \in Times \cup {None} /\ now' \in Times
  BY <1>1 DEF FilterMove, Inv, TypeOK
<1>7. QED
  BY <1>1, <1>2, <1>3, <1>4, <1>5, <1>6 DEF TypeOK, Reading

LEMMA ResetTyped ==
  ASSUME Reset
  PROVE  /\ filter'.moveAt = None /\ filter'.refreshAt = None
         /\ filter' \in [moveAt : Times \cup {None}, refreshAt : Times \cup {None}]
         /\ taken'.accepted = <<>>
         /\ taken' \in [moves : SUBSET Times, accepted : Seq(Times)]
  BY DEF Reset, Cleared

LEMMA InvInit == Init => Inv
<1> SUFFICES ASSUME Init PROVE Inv
  OBVIOUS
<1>1. now \in Times
  BY MouseAssumption DEF Init, Times
<1>2. filter.moveAt = None /\ filter.refreshAt = None
  BY DEF Init
<1>3. hooks \in [Hooks -> Reading]
  BY <1>1 DEF Init, Reading
<1>4. QED
  BY <1>1, <1>2, <1>3 DEF Init, Inv, TypeOK, Memory, Reading

LEMMA InvStep == Inv /\ [Next]_vars => Inv'
<1> SUFFICES ASSUME Inv, [Next]_vars PROVE Inv'
  OBVIOUS
<1>0. hooks \in [Hooks -> Reading] /\ now \in Times
  BY DEF Inv, TypeOK, Reading
<1>1. CASE UNCHANGED vars
  BY <1>1 DEF Inv, TypeOK, Memory, vars
<1>2. CASE Tick
  <2>1. now' \in Times
    BY <1>0, <1>2, MouseAssumption DEF Tick, Times
  <2>2. QED
    BY <1>2, <2>1 DEF Tick, Inv, TypeOK, Memory
<1>3. CASE Restart
  BY <1>3, ResetTyped DEF Restart, Inv, TypeOK, Memory
<1>4. ASSUME NEW h \in Hooks, Move(h) PROVE Inv'
  <2>1. hooks' \in [Hooks -> Reading]
    BY <1>0, <1>4 DEF Move, Reading
  <2>2. QED
    BY <1>4, <2>1 DEF Move, Inv, TypeOK, Memory, Reading
<1>5. ASSUME NEW h \in Hooks, FilterMove(h) PROVE Inv'
  <2> DEFINE at == hooks[h].reading
  <2>1. TypeOK' /\ filter'.moveAt = at /\ filter'.refreshAt = RefreshAt(at)
    BY <1>5, FilterTyped
  <2>2. at \in taken'.moves /\ refreshedAt' = IF Accepts(at) THEN at ELSE refreshedAt
    BY <1>5 DEF FilterMove
  <2>3. Memory'
    BY <2>1, <2>2 DEF Memory, RefreshAt, Inv
  <2>4. QED
    BY <2>1, <2>3 DEF Inv
<1>6. ASSUME NEW h \in Hooks, Record(h) PROVE Inv'
  <2>1. hooks' \in [Hooks -> Reading]
    BY <1>0, <1>6 DEF Record, Reading
  <2>2. QED
    BY <1>6, <2>1 DEF Record, Inv, TypeOK, Memory, Reading
<1>7. ASSUME NEW h \in Hooks, Click(h) PROVE Inv'
  <2>1. hooks' \in [Hooks -> Reading]
    BY <1>0, <1>7 DEF Click, Reading
  <2>2. QED
    BY <1>7, <2>1, ResetTyped DEF Click, Inv, TypeOK, Memory, Reading
<1>8. QED
  BY <1>1, <1>2, <1>3, <1>4, <1>5, <1>6, <1>7 DEF Next

THEOREM InvHolds == Spec => []Inv
<1>1. QED
  BY InvInit, InvStep, PTL DEF Spec

\* Every variable keeps its type.
THEOREM TypeCorrect == Spec => []TypeOK
<1>1. Inv => TypeOK
  BY DEF Inv
<1>2. QED
  BY <1>1, InvHolds, PTL

\* Only the filter's step turns a movement into a record.
LEMMA MoveEnds ==
  ASSUME Inv, [Next]_vars, NEW h \in Hooks, hooks[h].pc = "move", hooks'[h].pc # "move"
  PROVE  FilterMove(h)
<1>1. hooks \in [Hooks -> Reading]
  BY DEF Inv, TypeOK, Reading
<1>2. ASSUME NEW g \in Hooks, Move(g) \/ Record(g) \/ Click(g) PROVE FALSE
  <2>1. g # h
    BY <1>2 DEF Move, Record, Click
  <2>2. QED
    BY <1>1, <1>2, <2>1 DEF Move, Record, Click
<1>3. ASSUME NEW g \in Hooks, FilterMove(g), g # h PROVE FALSE
  BY <1>1, <1>3 DEF FilterMove
<1>4. QED
  BY <1>2, <1>3 DEF Next, vars, Tick, Restart

\* An isolated movement never counts, whatever comes between the reading of the
\* clock and the lock: what is accepted follows a movement taken since the reset.
THEOREM IsolatedMovementIgnoredHolds == Spec => IsolatedMovementIgnored
<1>1. Inv /\ [Next]_vars
        => [\A h \in Hooks :
              hooks[h].pc = "move" /\ hooks'[h].pc = "record"
                => \E m \in taken.moves : hooks[h].reading - m \in 0 .. Window]_vars
  <2> SUFFICES ASSUME Inv, [Next]_vars, NEW h \in Hooks,
                      hooks[h].pc = "move", hooks'[h].pc = "record"
               PROVE  \E m \in taken.moves : hooks[h].reading - m \in 0 .. Window
    OBVIOUS
  <2>1. FilterMove(h)
    BY MoveEnds
  <2>2. Accepts(hooks[h].reading)
    BY <2>1 DEF FilterMove, Inv, TypeOK
  <2>3. QED
    BY <2>2 DEF Accepts, Confirmed, Inv, Memory
<1>2. QED
  BY <1>1, InvHolds, PTL DEF Spec, IsolatedMovementIgnored

\* A burst that continues is accepted, or one was less than the interval before.
THEOREM SustainedMovementRefreshesHolds == Spec => SustainedMovementRefreshes
<1>1. Inv /\ [Next]_vars
        => [\A h \in Hooks :
              hooks[h].pc = "move" /\ hooks'[h].pc # "move" /\ Confirmed(hooks[h].reading)
                => refreshedAt' # None /\ hooks[h].reading - refreshedAt' < Refresh]_vars
  <2> SUFFICES ASSUME Inv, [Next]_vars, NEW h \in Hooks,
                      hooks[h].pc = "move", hooks'[h].pc # "move",
                      Confirmed(hooks[h].reading)
               PROVE  refreshedAt' # None /\ hooks[h].reading - refreshedAt' < Refresh
    OBVIOUS
  <2> DEFINE at == hooks[h].reading
  <2>1. FilterMove(h)
    BY MoveEnds
  <2>2. at \in Times /\ refreshedAt' = IF Accepts(at) THEN at ELSE refreshedAt
    BY <2>1, FilterTyped DEF FilterMove
  <2>3. CASE Accepts(at)
    BY <2>2, <2>3, Constants
  <2>4. CASE ~Accepts(at)
    <3>1. /\ filter.refreshAt # None /\ refreshedAt' = filter.refreshAt
          /\ filter.refreshAt \in Times
          /\ at - filter.refreshAt \in 0 .. Refresh - 1
      BY <2>2, <2>4 DEF Accepts, Rested, Inv, Memory, TypeOK
    <3>2. QED
      BY <2>2, <3>1, Constants
  <2>5. QED
    BY <2>3, <2>4
<1>2. QED
  BY <1>1, InvHolds, PTL DEF Spec, SustainedMovementRefreshes

-----------------------------------------------------------------------------
(* Spacing *)

\* The old hook and its replacement
TwoHooks == \A f, g, h \in Hooks : f = g \/ g = h \/ f = h

\* A callback that read the clock before the last refresh was accepted
Stale(h) == hooks[h].pc = "move" /\ hooks[h].reading < filter.refreshAt

\* Nobody has read a later time than the clock shows.
PastReadings ==
  /\ \A h \in Hooks : hooks[h].reading <= now
  /\ filter.refreshAt # None => filter.refreshAt <= now

\* The refreshes are spaced, the filter remembers the last, and a movement older
\* than it can be taken once only, so two such never confirm each other.
Spaced ==
  /\ RefreshesAreSpaced
  /\ taken.accepted = <<>> => filter.refreshAt = None
  /\ taken.accepted # <<>> => /\ filter.refreshAt = taken.accepted[Len(taken.accepted)]
                              /\ filter.moveAt # None
  /\ filter.refreshAt # None =>
       /\ \A g, h \in Hooks : Stale(g) /\ Stale(h) => g = h
       /\ filter.moveAt < filter.refreshAt => \A h \in Hooks : ~Stale(h)

SpacedInv == Inv /\ PastReadings /\ Spaced

LEMMA SpacedInit == Init => PastReadings /\ Spaced
  BY DEF Init, PastReadings, Spaced, RefreshesAreSpaced

LEMMA PastStep == Inv /\ Inv' /\ PastReadings /\ [Next]_vars => PastReadings'
<1> SUFFICES ASSUME Inv, Inv', PastReadings, [Next]_vars PROVE PastReadings'
  OBVIOUS
<1>0. /\ hooks \in [Hooks -> Reading] /\ now \in Int /\ now' \in Int
      /\ \A h \in Hooks : hooks[h].reading \in Int
      /\ filter.refreshAt # None => filter.refreshAt \in Int
  BY Constants DEF Inv, TypeOK, Reading
<1>1. CASE UNCHANGED vars
  BY <1>1 DEF PastReadings, vars
<1>2. CASE Tick
  BY <1>0, <1>2, Constants DEF Tick, PastReadings
<1>3. CASE Restart
  BY <1>0, <1>3, ResetTyped DEF Restart, PastReadings
<1>4. ASSUME NEW h \in Hooks, Move(h) PROVE PastReadings'
  BY <1>0, <1>4 DEF Move, PastReadings, Reading
<1>5. ASSUME NEW h \in Hooks, FilterMove(h) PROVE PastReadings'
  <2>1. filter'.refreshAt = RefreshAt(hooks[h].reading) /\ now' = now
    BY <1>5, FilterTyped DEF FilterMove
  <2>2. \A g \in Hooks : hooks'[g].reading = hooks[g].reading
    BY <1>0, <1>5 DEF FilterMove, Reading
  <2>3. QED
    BY <2>1, <2>2 DEF PastReadings, RefreshAt
<1>6. ASSUME NEW h \in Hooks, Record(h) PROVE PastReadings'
  BY <1>0, <1>6 DEF Record, PastReadings, Reading
<1>7. ASSUME NEW h \in Hooks, Click(h) PROVE PastReadings'
  BY <1>0, <1>7, ResetTyped DEF Click, PastReadings, Reading
<1>8. QED
  BY <1>1, <1>2, <1>3, <1>4, <1>5, <1>6, <1>7 DEF Next

\* A step that leaves the filter alone and makes no callback stale
LEMMA SpacedKept ==
  ASSUME Spaced, UNCHANGED <<filter, taken>>,
         \A h \in Hooks : filter.refreshAt # None /\ Stale(h)' => Stale(h)
  PROVE  Spaced'
  BY DEF Spaced, RefreshesAreSpaced

LEMMA SpacedReset == ASSUME Reset PROVE Spaced'
  BY ResetTyped DEF Spaced, RefreshesAreSpaced

LEMMA AppendKeeps ==
  ASSUME NEW S, NEW s \in Seq(S), NEW e \in S
  PROVE  /\ Len(s) \in Nat /\ Len(Append(s, e)) = Len(s) + 1
         /\ Append(s, e)[Len(s) + 1] = e
         /\ \A i \in 1 .. Len(s) : Append(s, e)[i] = s[i]
  OBVIOUS

\* The filter's step, the only one that accepts
LEMMA SpacedFilter ==
  ASSUME SpacedInv, TwoHooks, NEW h \in Hooks, FilterMove(h)
  PROVE  Spaced'
<1> DEFINE at == hooks[h].reading
           last == filter.refreshAt
<1>1. /\ at \in Times /\ filter'.moveAt = at /\ filter'.refreshAt = RefreshAt(at)
      /\ at \in Int /\ at # None
  BY FilterTyped, Constants DEF SpacedInv
<1>2. \A g \in Hooks : hooks'[g].pc = "move" => g # h /\ hooks[g].pc = "move"
                                              /\ hooks'[g].reading = hooks[g].reading
  <2>1. hooks \in [Hooks -> Reading]
    BY DEF SpacedInv, Inv, TypeOK, Reading
  <2>2. QED
    BY <2>1 DEF FilterMove, Reading
<1>3. /\ last # None => last \in Int
      /\ filter.moveAt # None => filter.moveAt \in Int
      /\ taken.accepted \in Seq(Times)
      /\ \A i \in 1 .. Len(taken.accepted) : taken.accepted[i] \in Int
  <2>1. /\ last \in Times \cup {None} /\ filter.moveAt \in Times \cup {None}
        /\ taken.accepted \in Seq(Times)
    BY DEF SpacedInv, Inv, TypeOK
  <2>2. \A i \in 1 .. Len(taken.accepted) : taken.accepted[i] \in Times
    BY <2>1
  <2>3. QED
    BY <2>1, <2>2, Constants
<1>4. CASE Accepts(at)
  <2>1. taken'.accepted = Append(taken.accepted, at) /\ filter'.refreshAt = at
    BY <1>1, <1>4 DEF FilterMove, RefreshAt
  <2>2. last # None => at - last >= Refresh
    <3> SUFFICES ASSUME last # None PROVE at - last >= Refresh
      OBVIOUS
    <3>1. filter.moveAt # None /\ at >= filter.moveAt
      BY <1>1, <1>3, <1>4, Constants DEF Accepts, Confirmed
    <3>2. at >= last
      <4> SUFFICES ASSUME at < last PROVE FALSE
        BY <1>1, <1>3, Constants
      <4>1. Stale(h)
        BY DEF FilterMove, Stale
      <4>2. filter.moveAt < last
        BY <1>1, <1>3, <3>1, Constants
      <4>3. QED
        BY <4>1, <4>2 DEF SpacedInv, Spaced
    <3>3. QED
      BY <1>1, <1>3, <1>4, <3>2, Constants DEF Accepts, Rested
  <2>3. RefreshesAreSpaced'
    <3> DEFINE a == taken.accepted
    <3>1. /\ Len(a) \in Nat /\ Len(Append(a, at)) = Len(a) + 1
          /\ Append(a, at)[Len(a) + 1] = at
          /\ \A i \in 1 .. Len(a) : Append(a, at)[i] = a[i]
      BY <1>1, <1>3, AppendKeeps
    <3>2. ASSUME NEW i \in 1 .. Len(a) - 1
          PROVE  Append(a, at)[i + 1] - Append(a, at)[i] >= Refresh
      <4>1. i \in 1 .. Len(a) /\ i + 1 \in 1 .. Len(a)
        BY <3>1, <3>2
      <4>2. a[i + 1] - a[i] >= Refresh
        BY <3>2 DEF SpacedInv, Spaced, RefreshesAreSpaced
      <4>3. QED
        BY <3>1, <4>1, <4>2
    <3>3. Len(a) > 0 => Append(a, at)[Len(a) + 1] - Append(a, at)[Len(a)] >= Refresh
      <4> SUFFICES ASSUME Len(a) > 0 PROVE at - a[Len(a)] >= Refresh
        BY <3>1
      <4>1. a # <<>> /\ a[Len(a)] \in Int
        BY <1>3
      <4>2. last = a[Len(a)] /\ last # None
        BY <4>1, MouseAssumption DEF SpacedInv, Spaced
      <4>3. QED
        BY <2>2, <4>2
    <3>4. QED
      BY <2>1, <3>1, <3>2, <3>3 DEF RefreshesAreSpaced
  <2>4. taken'.accepted # <<>> /\ taken'.accepted[Len(taken'.accepted)] = at
    BY <1>1, <1>3, <2>1
  <2>5. \A f, g \in Hooks : Stale(f)' /\ Stale(g)' => f = g
    BY <1>2 DEF Stale, TwoHooks
  <2>6. ~(filter'.moveAt < filter'.refreshAt)
    BY <1>1, <2>1
  <2>7. QED
    BY <1>1, <2>1, <2>3, <2>4, <2>5, <2>6 DEF Spaced
<1>5. CASE ~Accepts(at)
  <2>1. taken'.accepted = taken.accepted /\ filter'.refreshAt = last
    BY <1>1, <1>5 DEF FilterMove, RefreshAt
  <2>2. \A g \in Hooks : Stale(g)' => g # h /\ Stale(g)
    BY <1>2, <2>1 DEF Stale
  <2>3. last # None /\ at < last => Stale(h)
    BY DEF FilterMove, Stale
  <2>4. last # None /\ at < last => \A g \in Hooks : ~Stale(g)'
    BY <2>2, <2>3 DEF SpacedInv, Spaced
  <2>5. RefreshesAreSpaced'
    BY <2>1 DEF SpacedInv, Spaced, RefreshesAreSpaced
  <2>6. last # None => \A f, g \in Hooks : Stale(f)' /\ Stale(g)' => f = g
    BY <2>2 DEF SpacedInv, Spaced
  <2>7. taken.accepted = <<>> => last = None
    BY DEF SpacedInv, Spaced
  <2>8. taken.accepted # <<>> => last = taken.accepted[Len(taken.accepted)]
    BY DEF SpacedInv, Spaced
  <2>9. QED
    BY <1>1, <2>1, <2>4, <2>5, <2>6, <2>7, <2>8 DEF Spaced
<1>6. QED
  BY <1>4, <1>5

LEMMA SpacedStep ==
  TwoHooks => (SpacedInv /\ Inv' /\ PastReadings' /\ [Next]_vars => Spaced')
<1> SUFFICES ASSUME TwoHooks, SpacedInv, [Next]_vars PROVE Spaced'
  OBVIOUS
<1>0. /\ hooks \in [Hooks -> Reading] /\ now \in Int
      /\ filter.refreshAt # None => filter.refreshAt \in Int /\ filter.refreshAt <= now
  BY Constants DEF SpacedInv, Inv, TypeOK, Reading, PastReadings
<1>1. CASE UNCHANGED vars
  BY <1>1, SpacedKept DEF SpacedInv, vars, Stale
<1>2. CASE Tick
  BY <1>2, SpacedKept DEF SpacedInv, Tick, Stale
<1>3. CASE Restart
  BY <1>3, SpacedReset DEF Restart
<1>4. ASSUME NEW h \in Hooks, Move(h) PROVE Spaced'
  <2>1. \A g \in Hooks : filter.refreshAt # None /\ Stale(g)' => Stale(g)
    <3> SUFFICES ASSUME NEW g \in Hooks, filter.refreshAt # None, Stale(g)' PROVE Stale(g)
      OBVIOUS
    <3>1. CASE g = h
      <4>1. hooks'[g].reading = now /\ filter' = filter
        BY <1>0, <1>4, <3>1 DEF Move
      <4>2. QED
        BY <1>0, <4>1 DEF Stale
    <3>2. CASE g # h
      BY <1>0, <1>4, <3>2 DEF Move, Stale
    <3>3. QED
      BY <3>1, <3>2
  <2>2. QED
    BY <1>4, <2>1, SpacedKept DEF Move, SpacedInv
<1>5. ASSUME NEW h \in Hooks, FilterMove(h) PROVE Spaced'
  BY <1>5, SpacedFilter
<1>6. ASSUME NEW h \in Hooks, Record(h) PROVE Spaced'
  <2>1. \A g \in Hooks : Stale(g)' => Stale(g)
    BY <1>0, <1>6 DEF Record, Stale, Reading
  <2>2. QED
    BY <1>6, <2>1, SpacedKept DEF Record, SpacedInv
<1>7. ASSUME NEW h \in Hooks, Click(h) PROVE Spaced'
  BY <1>7, SpacedReset DEF Click
<1>8. QED
  BY <1>1, <1>2, <1>3, <1>4, <1>5, <1>6, <1>7 DEF Next

\* Continuous movement refreshes at most once per interval, also while the old
\* hook and its replacement both deliver.
THEOREM RefreshesAreSpacedHolds == TwoHooks => (Spec => []RefreshesAreSpaced)
<1> SUFFICES ASSUME TwoHooks PROVE Spec => []RefreshesAreSpaced
  OBVIOUS
<1>1. SpacedInv => RefreshesAreSpaced
  BY DEF SpacedInv, Spaced
<1>2. Init => SpacedInv
  BY InvInit, SpacedInit DEF SpacedInv
<1>3. SpacedInv /\ [Next]_vars => SpacedInv'
  BY InvStep, PastStep, SpacedStep DEF SpacedInv
<1>4. QED
  BY <1>1, <1>2, <1>3, PTL DEF Spec
=============================================================================
