---------------------------- MODULE HaltingProofs ----------------------------
(***************************************************************************)
(* Proofs about Halting, for any set of strategies, venues and positions,  *)
(* any rules and any failures: type correctness, that no strategy meeting  *)
(* the documented criteria is forgotten, that no other is pursued, and     *)
(* that Halting implements HaltPromise.                                    *)
(***************************************************************************)
EXTENDS Halting, SharpeLemmas

-----------------------------------------------------------------------------
(***************************************************************************)
(* The rules.                                                              *)
(***************************************************************************)
\* The rows run_cycle wants halted are the rows that are charged.
LEMMA WantedIsCharged == WantedRows = ChargedRows
BY ShouldHaltIsTheCriteria DEF WantedRows, ChargedRows

\* And what a look at a venue puts on halt-fast's list is what is charged there.
LEMMA TrippedIsCharged ==
  ASSUME NEW v
  PROVE  (IF decide_halt_fast(v) THEN fetch_venue_pnl_24h(v).slugs ELSE {}) = ChargedOn(v)
BY DEF decide_halt_fast, fetch_venue_pnl_24h, ChargedOn, VenueBleeds

LEMMA BaseIsSlug == \A r \in Row : Base(r) \in Slug
BY PositionsAssumption DEF Row, RowOf, Base

LEMMA StatsRowsAreRows == StatsRows \subseteq Row
BY DEF StatsRows, Row, ClosedWithin

LEMMA ChargedOnIsSlugs == \A v : ChargedOn(v) \subseteq Slug
BY PositionsAssumption DEF ChargedOn, VenueCloses, ClosedWithin

\* len(stats) is a number: there are finitely many rows.
LEMMA StatsRowsFinite == IsFiniteSet(StatsRows) /\ Cardinality(StatsRows) \in Nat
<1> DEFINE closed == ClosedWithin(WindowDays * Day)
           row    == [p \in closed |-> RowOf(p)]
<1>1. closed \subseteq Slot
  BY DEF ClosedWithin
<1>2. IsFiniteSet(closed)
  BY <1>1, PositionsAssumption, FS_Subset
<1>3. row \in Surjection(closed, StatsRows)
  BY DEF Surjection, StatsRows
<1>4. IsFiniteSet(StatsRows)
  BY <1>2, <1>3, FS_Surjection
<1> QED
  BY <1>4, FS_CardinalityType

-----------------------------------------------------------------------------
(***************************************************************************)
(* Types.                                                                  *)
(***************************************************************************)
LEMMA AgedIsPosition == \A q \in Position : Aged(q) \in Position
<1> SUFFICES ASSUME NEW q \in Position PROVE Aged(q) \in Position
  OBVIOUS
<1>1. \A age \in Age : Older(age) \in Age
  BY PositionsAssumption DEF Age, Older
<1>2. Vacant \in Position
  BY PositionsAssumption DEF Vacant, Position, Age
<1> QED
  BY <1>1, <1>2 DEF Aged, Position

LEMMA TradingType == PositionsTypeOK /\ Trading => PositionsTypeOK'
<1> SUFFICES ASSUME PositionsTypeOK, Trading PROVE PositionsTypeOK'
  OBVIOUS
<1>1. CASE TimePasses
  BY <1>1, AgedIsPosition DEF TimePasses, PositionsTypeOK
<1>2. ASSUME NEW p \in Slot, OpenPosition(p) PROVE PositionsTypeOK'
  BY <1>2 DEF OpenPosition, PositionsTypeOK, Position
<1>3. ASSUME NEW p \in Slot, NEW pnl \in Pnl, ClosePosition(p, pnl) PROVE PositionsTypeOK'
  BY <1>3 DEF ClosePosition, PositionsTypeOK, Position
<1> QED
  BY <1>1, <1>2, <1>3 DEF Trading

LEMMA InitType == Init => TypeOK
<1> SUFFICES ASSUME Init PROVE TypeOK
  OBVIOUS
<1>1. Vacant \in Position
  BY PositionsAssumption DEF Vacant, Position, Age
<1>2. PositionsTypeOK
  BY <1>1 DEF Init, PositionsInit, PositionsTypeOK
<1>3. Zero \in Count
  BY DEF Zero, Count
<1>4. restarts \in 0..MaxRestarts
  BY HaltingAssumption DEF Init
<1>5. charged \in [Loop -> SUBSET Slug] /\ excused \in [Loop -> SUBSET Slug]
  BY DEF Init
<1> QED
  BY <1>2, <1>3, <1>4, <1>5 DEF Init, TypeOK

LEMMA HaltedAfterActuateType ==
  ASSUME NEW s \in Slug, NEW reply, halted \subseteq Slug
  PROVE  HaltedAfterActuate(s, reply) \subseteq Slug
BY DEF HaltedAfterActuate

LEMMA ExcusedType ==
  ASSUME NEW s \in Slug, NEW l \in Loop, NEW reply, excused \in [Loop -> SUBSET Slug]
  PROVE  ExcusedAfterActuate(l, s, reply) \in [Loop -> SUBSET Slug]
BY DEF ExcusedAfterActuate

LEMMA CountedType ==
  ASSUME NEW reply, cycle_count \in Count
  PROVE  Counted(reply) \in Count
BY DEF Counted, Count

LEMMA NextVenueType ==
  ASSUME fast_next \in DOMAIN HaltFastVenues
  PROVE  NextVenue \in DOMAIN HaltFastVenues
<1>1. DOMAIN HaltFastVenues = 1..Len(HaltFastVenues) /\ Len(HaltFastVenues) \in Nat
  BY HaltingAssumption
<1> QED
  BY <1>1 DEF NextVenue

LEMMA StepType == TypeOK /\ [Next]_vars => TypeOK'
<1> SUFFICES ASSUME TypeOK, [Next]_vars PROVE TypeOK'
  OBVIOUS
<1> USE DEF TypeOK
<1>1. CASE FetchStats
  <2>1. StatsRows \subseteq Row /\ WantedRows \subseteq StatsRows
    BY StatsRowsAreRows DEF WantedRows
  <2>2. {Base(r) : r \in ChargedRows} \subseteq Slug
    BY StatsRowsAreRows, BaseIsSlug DEF ChargedRows
  <2>3. cycle_count' \in Count
    BY <1>1, StatsRowsFinite DEF FetchStats, Count, Zero
  <2> QED
    BY <1>1, <2>1, <2>2, <2>3 DEF FetchStats, fastVars, PositionsTypeOK, Loop
<1>2. ASSUME NEW reply \in Reply, NEW r \in Row, CheckRow(r, reply) PROVE TypeOK'
  BY <1>2 DEF CheckRow, fastVars, PositionsTypeOK
<1>3. ASSUME NEW reply \in Reply, ActuateRow(reply) PROVE TypeOK'
  <2>1. Base(cycle_row) \in Slug
    BY <1>3, BaseIsSlug DEF ActuateRow
  <2>2. halted' \subseteq Slug
    BY <1>3, <2>1, HaltedAfterActuateType DEF ActuateRow
  <2>3. excused' \in [Loop -> SUBSET Slug]
    BY <1>3, <2>1, ExcusedType DEF ActuateRow, Loop
  <2>4. cycle_count' \in Count
    BY <1>3, CountedType DEF ActuateRow
  <2> QED
    BY <1>3, <2>2, <2>3, <2>4 DEF ActuateRow, fastVars, PositionsTypeOK
<1>4. CASE FinishCycle
  BY <1>4 DEF FinishCycle, fastVars, PositionsTypeOK, Count, Zero
<1>5. CASE FetchVenue
  <2>1. fast_todo' = ChargedOn(VenueToCheck)
    BY <1>5, TrippedIsCharged DEF FetchVenue
  <2>2. fast_next' \in DOMAIN HaltFastVenues
    BY <1>5, NextVenueType DEF FetchVenue
  <2> QED
    BY <1>5, <2>1, <2>2, ChargedOnIsSlugs DEF FetchVenue, cycleVars, PositionsTypeOK, Loop
<1>6. CASE FetchVenueFails
  BY <1>6, NextVenueType DEF FetchVenueFails, cycleVars, PositionsTypeOK
<1>7. ASSUME NEW s \in Slug, NEW reply \in Reply, ActuateSlug(s, reply) PROVE TypeOK'
  <2>1. halted' \subseteq Slug
    BY <1>7, HaltedAfterActuateType DEF ActuateSlug
  <2>2. excused' \in [Loop -> SUBSET Slug]
    BY <1>7, ExcusedType DEF ActuateSlug, Loop
  <2> QED
    BY <1>7, <2>1, <2>2 DEF ActuateSlug, SlugsLeft, cycleVars, PositionsTypeOK
<1>8. CASE World
  BY <1>8, TradingType DEF World, cycleVars, fastVars
<1>9. ASSUME NEW s \in Slug, Release(s) PROVE TypeOK'
  BY <1>9 DEF Release, cycleVars, fastVars, PositionsTypeOK
<1>10. CASE Restart
  <2>1. restarts' \in 0..MaxRestarts
    BY <1>10, HaltingAssumption DEF Restart
  <2>2. charged' \in [Loop -> SUBSET Slug] /\ excused' \in [Loop -> SUBSET Slug]
    BY <1>10 DEF Restart
  <2>3. cycle_count' \in Count /\ last_cycle' \in Count
    BY <1>10 DEF Restart, Count, Zero
  <2> QED
    BY <1>10, <2>1, <2>2, <2>3 DEF Restart, PositionsTypeOK
<1>11. CASE UNCHANGED vars
  BY <1>11 DEF vars, cycleVars, fastVars, PositionsTypeOK
<1> QED
  BY <1>1, <1>2, <1>3, <1>4, <1>5, <1>6, <1>7, <1>8, <1>9, <1>10, <1>11
     DEF Next, CycleStep, FastStep

\* Every variable keeps its type, and a cycle its shape.
THEOREM TypeCorrect == Spec => []TypeOK
BY InitType, StepType, PTL DEF Spec

-----------------------------------------------------------------------------
(***************************************************************************)
(* The report of a cycle adds up.  With the type, which says that the row  *)
(* being actuated is no longer to do, the property is inductive: a row     *)
(* leaves the unfinished ones before or as it is counted, and only once.   *)
(***************************************************************************)
LEMMA RowFinite == IsFiniteSet(Row)
<1> DEFINE row == [p \in Slot |-> RowOf(p)]
<1>1. row \in Surjection(Slot, Row)
  BY DEF Surjection, Row
<1> QED
  BY <1>1, PositionsAssumption, FS_Surjection

Unfinished == cycle_todo \cup ({cycle_row} \ {None})

LEMMA UnfinishedFinite ==
  ASSUME TypeOK
  PROVE  IsFiniteSet(Unfinished) /\ Cardinality(Unfinished) \in Nat
<1>1. Unfinished \subseteq Row
  BY DEF TypeOK, Unfinished
<1>2. IsFiniteSet(Row)
  BY RowFinite
<1> QED
  BY <1>1, <1>2, FS_Subset, FS_CardinalityType

\* What is part of a finite set has no more elements.
LEMMA FewerUnfinished ==
  ASSUME NEW old, NEW new, IsFiniteSet(old), new \subseteq old
  PROVE  /\ Cardinality(new) \in Nat /\ Cardinality(old) \in Nat
         /\ Cardinality(new) <= Cardinality(old)
BY FS_Subset, FS_CardinalityType

\* An actuated row is counted once, as a halt or as a would-be halt.
LEMMA CountedOnce ==
  ASSUME NEW reply, cycle_count \in Count
  PROVE  /\ Counted(reply).n_evaluated = cycle_count.n_evaluated
         /\ Counted(reply).n_halted + Counted(reply).n_would_halt
              = cycle_count.n_halted + cycle_count.n_would_halt + 1
BY DEF Counted, Count

LEMMA StepAddsUp == TypeOK /\ ReportAddsUp /\ [Next]_vars => ReportAddsUp'
<1> SUFFICES ASSUME TypeOK, ReportAddsUp, [Next]_vars PROVE ReportAddsUp'
  OBVIOUS
<1> DEFINE counted == cycle_count.n_halted + cycle_count.n_would_halt
           adds    == cycle_on => counted + Cardinality(Unfinished) <= cycle_count.n_evaluated
           total   == last_cycle.n_halted + last_cycle.n_would_halt <= last_cycle.n_evaluated
<1>a. ReportAddsUp <=> total /\ adds
  BY DEF ReportAddsUp, Unfinished
<1>b. ReportAddsUp' <=> total' /\ adds'
  BY DEF ReportAddsUp, Unfinished
<1>c. /\ cycle_count.n_evaluated \in Nat
      /\ cycle_count.n_halted \in Nat /\ cycle_count.n_would_halt \in Nat
  BY DEF TypeOK, Count
<1>d. IsFiniteSet(Unfinished) /\ Cardinality(Unfinished) \in Nat
  BY UnfinishedFinite
<1>1. CASE FetchStats
  <2>1. Unfinished' = StatsRows
    BY <1>1 DEF FetchStats, Unfinished, TypeOK
  <2>2. /\ cycle_count'.n_evaluated = Cardinality(StatsRows)
        /\ cycle_count'.n_halted = 0 /\ cycle_count'.n_would_halt = 0
    BY <1>1 DEF FetchStats, Zero
  <2> QED
    BY <1>1, <1>a, <1>b, <2>1, <2>2, StatsRowsFinite DEF FetchStats
<1>2. ASSUME NEW reply \in Reply, NEW r \in Row, CheckRow(r, reply) PROVE ReportAddsUp'
  <2>1. Unfinished' \subseteq Unfinished
    BY <1>2 DEF CheckRow, Unfinished
  <2>2. Cardinality(Unfinished') \in Nat /\ Cardinality(Unfinished') <= Cardinality(Unfinished)
    BY <1>d, <2>1, FewerUnfinished
  <2> QED
    BY <1>2, <1>a, <1>b, <1>c, <1>d, <2>2 DEF CheckRow
<1>3. ASSUME NEW reply \in Reply, ActuateRow(reply) PROVE ReportAddsUp'
  <2>1. cycle_row \in Unfinished /\ cycle_on
    BY <1>3 DEF ActuateRow, Unfinished, TypeOK
  <2>2. Unfinished' = Unfinished \ {cycle_row}
    BY <1>3 DEF ActuateRow, Unfinished, TypeOK
  <2>3. Cardinality(Unfinished') = Cardinality(Unfinished) - 1
    BY <1>d, <2>1, <2>2, FS_RemoveElement
  <2>4. /\ cycle_count'.n_evaluated = cycle_count.n_evaluated
        /\ cycle_count'.n_halted + cycle_count'.n_would_halt = counted + 1
    BY <1>3, CountedOnce DEF ActuateRow, TypeOK
  <2>5. total'
    BY <1>3, <1>a DEF ActuateRow
  <2>6. adds'
    BY <1>a, <1>c, <1>d, <2>1, <2>3, <2>4
  <2> QED
    BY <1>b, <2>5, <2>6
<1>4. CASE FinishCycle
  <2>1. Cardinality(Unfinished) >= 0 /\ cycle_on
    BY <1>4, <1>d DEF FinishCycle
  <2> QED
    BY <1>4, <1>a, <1>b, <1>c, <1>d, <2>1 DEF FinishCycle
<1>5. UNCHANGED cycleVars => ReportAddsUp'
  BY <1>a, <1>b DEF cycleVars, Unfinished
<1>6. CASE Restart
  BY <1>6, <1>b DEF Restart, Zero
<1> QED
  BY <1>1, <1>2, <1>3, <1>4, <1>5, <1>6
     DEF Next, CycleStep, FastStep, FetchVenue, FetchVenueFails, ActuateSlug, World, Release,
         vars

\* No cycle reports more halts and would-be halts than it has evaluated rows.
THEOREM ReportsAddUp == Spec => []ReportAddsUp
<1>1. Init => ReportAddsUp
  BY DEF Init, ReportAddsUp, Zero
<1> QED
  BY <1>1, StepAddsUp, TypeCorrect, PTL DEF Spec

-----------------------------------------------------------------------------
(***************************************************************************)
(* The counts tell what was done: only ActuateRow raises them.             *)
(***************************************************************************)
CountsAreTrue ==
  /\ cycle_count'.n_halted > cycle_count.n_halted => Base(cycle_row) \in halted' \ halted
  /\ EnforceHalts /\ cycle_count'.n_would_halt > cycle_count.n_would_halt =>
       Base(cycle_row) \in halted' \cup excused'["cycle"]

LEMMA StepCountsTruly == TypeOK /\ [Next]_vars => CountsAreTrue
<1> SUFFICES ASSUME TypeOK, [Next]_vars PROVE CountsAreTrue
  OBVIOUS
<1>1. /\ cycle_count.n_halted \in Nat /\ cycle_count.n_would_halt \in Nat
      /\ excused \in [Loop -> SUBSET Slug] /\ "cycle" \in Loop
  BY DEF TypeOK, Count, Loop
<1>2. UNCHANGED cycle_count => CountsAreTrue
  BY <1>1 DEF CountsAreTrue
<1>3. cycle_count'.n_halted = 0 /\ cycle_count'.n_would_halt = 0 => CountsAreTrue
  BY <1>1 DEF CountsAreTrue
<1>4. CASE FetchStats \/ FinishCycle \/ Restart
  BY <1>3, <1>4 DEF FetchStats, FinishCycle, Restart, Zero
<1>5. ASSUME NEW reply \in Reply, ActuateRow(reply) PROVE CountsAreTrue
  <2>1. CASE ActuateReturns(Base(cycle_row), reply)
    <3>1. cycle_count' = [cycle_count EXCEPT !.n_halted = @ + 1]
      BY <1>5, <2>1 DEF ActuateRow, Counted
    <3>2. cycle_count'.n_would_halt = cycle_count.n_would_halt
      BY <3>1 DEF TypeOK, Count
    <3>3. EnforceHalts /\ reply = "answered" /\ Base(cycle_row) \notin halted
      BY <2>1 DEF ActuateReturns
    <3>4. halted' = halted \cup {Base(cycle_row)}
      BY <1>5, <3>3 DEF ActuateRow, HaltedAfterActuate
    <3> QED
      BY <1>1, <3>2, <3>3, <3>4 DEF CountsAreTrue
  <2>2. CASE ~ActuateReturns(Base(cycle_row), reply)
    <3>1. cycle_count' = [cycle_count EXCEPT !.n_would_halt = @ + 1]
      BY <1>5, <2>2 DEF ActuateRow, Counted
    <3>2. cycle_count'.n_halted = cycle_count.n_halted
      BY <3>1 DEF TypeOK, Count
    <3>3. EnforceHalts => Base(cycle_row) \in halted' \cup excused'["cycle"]
      BY <1>1, <1>5 DEF ActuateRow, HaltedAfterActuate, ExcusedAfterActuate
    <3> QED
      BY <1>1, <3>2, <3>3 DEF CountsAreTrue
  <2> QED
    BY <2>1, <2>2
<1> QED
  BY <1>2, <1>4, <1>5
     DEF Next, CycleStep, FastStep, CheckRow, FetchVenue, FetchVenueFails, ActuateSlug, World,
         Release, vars, cycleVars

\* n_halted grows only with a slug this call added; a row that is counted as a
\* would-be halt under enforcement is halted or lost its request.
THEOREM CountsAreHonest == Spec => CountsTellWhatWasDone
<1>1. TypeOK /\ [Next]_vars => [CountsAreTrue]_vars
  BY StepCountsTruly
<1> QED
  BY <1>1, TypeCorrect, PTL DEF Spec, CountsTellWhatWasDone, CountsAreTrue

-----------------------------------------------------------------------------
(***************************************************************************)
(* No target is forgotten.  The two properties are proved together, for    *)
(* each loop: what a step takes off the list of a loop it puts into the    *)
(* set or finds there, or the history excuses it.                          *)
(***************************************************************************)
Faithful(loop) ==
  /\ Pending(loop) \subseteq charged[loop]
  /\ EnforceHalts => charged[loop] \subseteq Pending(loop) \cup halted \cup excused[loop]

HaltingInv == TypeOK /\ \A l \in Loop : Faithful(l)

LEMMA InvIsTheProperties ==
  HaltingInv <=> TypeOK /\ OnlyTheChargedArePending /\ NoTargetForgotten
BY DEF HaltingInv, Faithful, OnlyTheChargedArePending, NoTargetForgotten

LEMMA PendingOfCycle ==
  Pending("cycle") = {Base(r) : r \in cycle_halt \cup ({cycle_row} \ {None})}
BY DEF Pending

LEMMA PendingOfFast == Pending("halt_fast") = fast_todo
BY DEF Pending

\* actuate puts the slug into the set, or excuses the loop, or is a dry run; it
\* takes nothing away.
LEMMA ActuateAccounts ==
  ASSUME TypeOK, NEW s \in Slug, NEW l \in Loop, NEW reply,
         halted' = HaltedAfterActuate(s, reply),
         excused' = ExcusedAfterActuate(l, s, reply)
  PROVE  /\ halted \subseteq halted'
         /\ \A k \in Loop : excused[k] \subseteq excused'[k]
         /\ EnforceHalts => s \in halted' \cup excused'[l]
BY DEF HaltedAfterActuate, ExcusedAfterActuate, TypeOK

\* A loop that a step leaves alone stays faithful while halted and excused grow.
LEMMA BystanderStaysFaithful ==
  ASSUME NEW l \in Loop, Faithful(l), Pending(l)' = Pending(l),
         charged'[l] = charged[l], excused[l] \subseteq excused'[l],
         halted \subseteq halted' \cup excused'[l]
  PROVE  Faithful(l)'
BY DEF Faithful

LEMMA StepFaithful == HaltingInv /\ [Next]_vars => \A l \in Loop : Faithful(l)'
<1> SUFFICES ASSUME HaltingInv, [Next]_vars PROVE Faithful("cycle")' /\ Faithful("halt_fast")'
  BY DEF Loop
<1>0. TypeOK /\ Faithful("cycle") /\ Faithful("halt_fast")
  BY DEF HaltingInv, Loop
<1>a. "cycle" \in Loop /\ "halt_fast" \in Loop
  BY DEF Loop
<1> DEFINE cycleUntouched == UNCHANGED <<cycle_halt, cycle_row>>
           fastUntouched  == UNCHANGED fast_todo
<1>b. cycleUntouched => Pending("cycle")' = Pending("cycle")
  BY DEF Pending
<1>c. fastUntouched => Pending("halt_fast")' = Pending("halt_fast")
  BY DEF Pending
<1>1. CASE FetchStats
  <2>1. cycle_row' = None
    BY <1>0, <1>1 DEF FetchStats, TypeOK
  <2>2. Pending("cycle")' = {Base(r) : r \in ChargedRows}
    BY <1>1, <2>1, WantedIsCharged DEF FetchStats, Pending
  <2>3. charged'["cycle"] = {Base(r) : r \in ChargedRows}
    BY <1>0, <1>1, <1>a DEF FetchStats, TypeOK
  <2>4. Faithful("cycle")'
    BY <2>2, <2>3 DEF Faithful
  <2>5. Faithful("halt_fast")'
    <3>1. charged'["halt_fast"] = charged["halt_fast"] /\ excused'["halt_fast"] = excused["halt_fast"]
      BY <1>0, <1>1 DEF FetchStats, TypeOK, Loop
    <3> QED
      BY <1>0, <1>1, <1>a, <1>c, <3>1, BystanderStaysFaithful DEF FetchStats, fastVars
  <2> QED
    BY <2>4, <2>5
<1>2. ASSUME NEW reply \in Reply, NEW r \in Row, CheckRow(r, reply)
      PROVE  Faithful("cycle")' /\ Faithful("halt_fast")'
  <2>1. Pending("cycle")' \subseteq Pending("cycle")
    BY <1>2 DEF CheckRow, ShouldActuate, Pending
  <2>2. Pending("cycle") \subseteq Pending("cycle")' \cup halted
    <3>1. Pending("cycle") = {Base(q) : q \in cycle_halt}
      BY <1>2 DEF CheckRow, Pending
    <3>2. {Base(q) : q \in cycle_halt \ {r}} \subseteq Pending("cycle")'
      BY <1>2 DEF CheckRow, Pending
    <3>3. r \in cycle_halt => Base(r) \in Pending("cycle")' \cup halted
      <4>1. CASE ShouldActuate(r, reply)
        <5>1. cycle_row' = r /\ r # None
          BY <1>2, <4>1, HaltingAssumption DEF CheckRow
        <5> QED
          BY <5>1 DEF Pending
      <4>2. CASE ~ShouldActuate(r, reply)
        BY <4>2 DEF ShouldActuate, is_halted
      <4> QED
        BY <4>1, <4>2
    <3> QED
      BY <3>1, <3>2, <3>3
  <2>3. Faithful("cycle")'
    BY <1>0, <1>2, <2>1, <2>2 DEF CheckRow, Faithful
  <2>4. Faithful("halt_fast")'
    BY <1>0, <1>2, <1>a, <1>c, BystanderStaysFaithful DEF CheckRow, fastVars
  <2> QED
    BY <2>3, <2>4
<1>3. ASSUME NEW reply \in Reply, ActuateRow(reply)
      PROVE  Faithful("cycle")' /\ Faithful("halt_fast")'
  <2>1. Base(cycle_row) \in Slug
    BY <1>0, <1>3, BaseIsSlug DEF ActuateRow, TypeOK
  <2>2. /\ halted \subseteq halted'
        /\ \A k \in Loop : excused[k] \subseteq excused'[k]
        /\ EnforceHalts => Base(cycle_row) \in halted' \cup excused'["cycle"]
    BY <1>0, <1>3, <1>a, <2>1, ActuateAccounts DEF ActuateRow
  <2>3. Pending("cycle")' \subseteq Pending("cycle")
    BY <1>3 DEF ActuateRow, Pending
  <2>4. Pending("cycle") \subseteq Pending("cycle")' \cup {Base(cycle_row)}
    BY <1>3 DEF ActuateRow, Pending
  <2>5. Faithful("cycle")'
    BY <1>0, <1>3, <1>a, <2>2, <2>3, <2>4 DEF ActuateRow, Faithful
  <2>6. Faithful("halt_fast")'
    BY <1>0, <1>3, <1>a, <1>c, <2>2, BystanderStaysFaithful DEF ActuateRow, fastVars
  <2> QED
    BY <2>5, <2>6
<1>4. CASE FinishCycle
  BY <1>0, <1>4, <1>a, <1>b, <1>c, BystanderStaysFaithful DEF FinishCycle, fastVars
<1>5. CASE FetchVenue
  <2>1. Pending("halt_fast")' = ChargedOn(VenueToCheck)
    BY <1>5, TrippedIsCharged DEF FetchVenue, Pending
  <2>2. charged'["halt_fast"] = ChargedOn(VenueToCheck)
    BY <1>0, <1>5, <1>a DEF FetchVenue, TypeOK
  <2>3. Faithful("halt_fast")'
    BY <2>1, <2>2 DEF Faithful
  <2>4. Faithful("cycle")'
    <3>1. charged'["cycle"] = charged["cycle"] /\ excused'["cycle"] = excused["cycle"]
      BY <1>0, <1>5 DEF FetchVenue, TypeOK, Loop
    <3> QED
      BY <1>0, <1>5, <1>a, <1>b, <3>1, BystanderStaysFaithful DEF FetchVenue, cycleVars
  <2> QED
    BY <2>3, <2>4
<1>6. CASE FetchVenueFails
  BY <1>0, <1>6, <1>a, <1>b, <1>c, BystanderStaysFaithful DEF FetchVenueFails, cycleVars
<1>7. ASSUME NEW s \in Slug, NEW reply \in Reply, ActuateSlug(s, reply)
      PROVE  Faithful("cycle")' /\ Faithful("halt_fast")'
  <2>1. /\ halted \subseteq halted'
        /\ \A k \in Loop : excused[k] \subseteq excused'[k]
        /\ EnforceHalts => s \in halted' \cup excused'["halt_fast"]
    BY <1>0, <1>7, <1>a, ActuateAccounts DEF ActuateSlug
  <2>2. Pending("halt_fast")' = Pending("halt_fast") \ {s}
    BY <1>7 DEF ActuateSlug, SlugsLeft, Pending
  <2>3. Faithful("halt_fast")'
    BY <1>0, <1>7, <1>a, <2>1, <2>2 DEF ActuateSlug, Faithful
  <2>4. Faithful("cycle")'
    BY <1>0, <1>7, <1>a, <1>b, <2>1, BystanderStaysFaithful DEF ActuateSlug, cycleVars
  <2> QED
    BY <2>3, <2>4
<1>8. CASE World
  BY <1>0, <1>8, <1>a, <1>b, <1>c, BystanderStaysFaithful DEF World, cycleVars, fastVars
<1>9. ASSUME NEW s \in Slug, Release(s) PROVE Faithful("cycle")' /\ Faithful("halt_fast")'
  <2>1. \A l \in Loop : excused'[l] = excused[l] \cup ({s} \cap charged[l])
    BY <1>9 DEF Release
  <2>2. halted' = halted \ {s} /\ charged' = charged
    BY <1>9 DEF Release
  <2>3. Pending("cycle")' = Pending("cycle") /\ Pending("halt_fast")' = Pending("halt_fast")
    BY <1>9, <1>b, <1>c DEF Release, cycleVars, fastVars
  <2> QED
    BY <1>0, <1>a, <2>1, <2>2, <2>3 DEF Faithful
<1>10. CASE Restart
  <2>1. Pending("cycle")' = {} /\ Pending("halt_fast")' = {}
    BY <1>10 DEF Restart, Pending
  <2>2. charged'["cycle"] = {} /\ charged'["halt_fast"] = {}
    BY <1>10, <1>a DEF Restart
  <2> QED
    BY <2>1, <2>2 DEF Faithful
<1>11. CASE UNCHANGED vars
  BY <1>0, <1>11, <1>a, <1>b, <1>c, BystanderStaysFaithful DEF vars, cycleVars, fastVars
<1> QED
  BY <1>1, <1>2, <1>3, <1>4, <1>5, <1>6, <1>7, <1>8, <1>9, <1>10, <1>11
     DEF Next, CycleStep, FastStep

LEMMA InitInv == Init => HaltingInv
<1> SUFFICES ASSUME Init PROVE \A l \in Loop : Faithful(l)
  BY InitType DEF HaltingInv
<1>1. \A l \in Loop : charged[l] = {} /\ Pending(l) = {}
  BY DEF Init, Pending
<1> QED
  BY <1>1 DEF Faithful

LEMMA InvHolds == Spec => []HaltingInv
<1>1. HaltingInv /\ [Next]_vars => HaltingInv'
  BY StepType, StepFaithful DEF HaltingInv
<1> QED
  BY InitInv, <1>1, PTL DEF Spec

\* A strategy that met the documented criteria when a loop last read the trades
\* is about to be halted, halted, or excused.
THEOREM NothingForgotten == Spec => []NoTargetForgotten
<1>1. HaltingInv => NoTargetForgotten
  BY InvIsTheProperties
<1> QED
  BY InvHolds, <1>1, PTL

\* No loop pursues a strategy that the documented criteria spare.
THEOREM NobodyElsePursued == Spec => []OnlyTheChargedArePending
<1>1. HaltingInv => OnlyTheChargedArePending
  BY InvIsTheProperties
<1> QED
  BY InvHolds, <1>1, PTL

-----------------------------------------------------------------------------
(***************************************************************************)
(* Halting implements HaltPromise, with the strategies either loop charges *)
(* as the accused: a SADD is a step Halt, the operator's SREM a Release,   *)
(* and every other step a change of the accused or a stutter.              *)
(***************************************************************************)
LEMMA ActuateKeepsPromise ==
  ASSUME HaltingInv, NEW s \in Slug, NEW l \in Loop, NEW reply,
         s \in Pending(l), halted' = HaltedAfterActuate(s, reply), UNCHANGED charged
  PROVE  [Promise!Next]_(Promise!vars)
<1>1. s \in Accused /\ Accused' = Accused
  BY DEF HaltingInv, Faithful, Accused, Loop
<1>2. CASE EnforceHalts /\ reply # "request_lost"
  BY <1>1, <1>2 DEF HaltedAfterActuate, Promise!Next, Promise!Halt
<1>3. CASE ~(EnforceHalts /\ reply # "request_lost")
  BY <1>1, <1>3 DEF HaltedAfterActuate, Promise!vars
<1> QED
  BY <1>2, <1>3

LEMMA StepKeepsPromise == HaltingInv /\ HaltingInv' /\ [Next]_vars => [Promise!Next]_(Promise!vars)
<1> SUFFICES ASSUME HaltingInv, HaltingInv', [Next]_vars
             PROVE  [Promise!Next]_(Promise!vars)
  OBVIOUS
<1>0. Accused' \in SUBSET Slug /\ TypeOK
  BY DEF HaltingInv, TypeOK, Accused, Loop
<1>1. UNCHANGED halted => [Promise!Next]_(Promise!vars)
  BY <1>0 DEF Promise!Next, Promise!Judge
<1>2. ASSUME NEW reply \in Reply, NEW r \in Row, CheckRow(r, reply) PROVE UNCHANGED halted
  BY <1>2 DEF CheckRow
<1>3. ASSUME NEW reply \in Reply, ActuateRow(reply) PROVE [Promise!Next]_(Promise!vars)
  <2>1. Base(cycle_row) \in Slug
    BY <1>0, <1>3, BaseIsSlug DEF ActuateRow, TypeOK
  <2>2. Base(cycle_row) \in Pending("cycle")
    BY <1>3 DEF ActuateRow, Pending
  <2> QED
    BY <1>3, <2>1, <2>2, ActuateKeepsPromise DEF ActuateRow, Loop
<1>4. ASSUME NEW s \in Slug, NEW reply \in Reply, ActuateSlug(s, reply)
      PROVE  [Promise!Next]_(Promise!vars)
  BY <1>4, PendingOfFast, ActuateKeepsPromise DEF ActuateSlug, Loop
<1>5. ASSUME NEW s \in Slug, Release(s) PROVE [Promise!Next]_(Promise!vars)
  BY <1>5 DEF Release, Accused, Promise!Next, Promise!Release
<1> QED
  BY <1>1, <1>2, <1>3, <1>4, <1>5
     DEF Next, CycleStep, FastStep, FetchStats, FinishCycle, FetchVenue, FetchVenueFails,
         World, Restart, vars

\* The trading stack may rely on the promise: strategies enter the set only
\* accused and enforced, and leave it only by the operator's hand.
THEOREM ImplementsThePromise == Spec => KeepsThePromise
<1>1. Init => Promise!Init
  BY DEF Init, Accused, Loop, Promise!Init
<1> QED
  BY InvHolds, StepKeepsPromise, <1>1, PTL DEF Spec, KeepsThePromise, Promise!Spec
=============================================================================
