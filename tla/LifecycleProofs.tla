--------------------------- MODULE LifecycleProofs ---------------------------
(***************************************************************************)
(* Proofs about Lifecycle, for any finite set of loops: type correctness,  *)
(* that no loop uses a pool after it is closed, and how many pools the     *)
(* race of the first iterations can create and leave open.                 *)
(***************************************************************************)
EXTENDS Lifecycle, FiniteSetTheorems, TLAPS

-----------------------------------------------------------------------------
(***************************************************************************)
(* The inductive invariant.                                                *)
(***************************************************************************)
Creating == {l \in Loops : loop[l] = "creating"}

\* Until main has left the boot there is nothing.
BootIsEmpty ==
  stage = "boot" =>
    /\ created = 0 /\ ~booted /\ server = "starting"
    /\ \A l \in Loops : loop[l] = "waiting"

\* The last pool created is the one known, and none closes before the shutdown.
PoolsOpen == stage # "exited" => open = 1..created /\ pool = created

\* A loop that is about to create a pool counts as having created one.
RaceIsCounted ==
  /\ \A l \in Loops : loop[l] \in {"creating", "using"} => l \notin Idle
  /\ IF booted THEN created = 1 /\ Creating = {}
     ELSE created + Cardinality(Creating) <= Cardinality(Loops \ Idle)

HeldIsCreated == \A l \in Loops : loop[l] = "using" => held[l] \in 1..created

\* The known pool is closed when everybody has finished, or no pool at all.
ClosedAtTheEnd ==
  /\ stage = "closing" => AllFinished
  /\ stage = "exited" =>
       \/ open = 1..created
       \/ open = (1..created) \ {created} /\ \A l \in Loops : loop[l] = "done"

Inv ==
  /\ TypeOK /\ BootIsEmpty /\ PoolsOpen /\ RaceIsCounted
  /\ HeldIsCreated /\ ClosedAtTheEnd

-----------------------------------------------------------------------------
(***************************************************************************)
(* How many loops are creating a pool.                                     *)
(***************************************************************************)
LEMMA CreatingFinite == IsFiniteSet(Creating) /\ Cardinality(Creating) \in Nat
<1>1. Creating \subseteq Loops
  BY DEF Creating
<1> QED
  BY <1>1, LifecycleAssumption, FS_Subset, FS_CardinalityType

\* Every loop that is not idle may be creating one, and no other.
LEMMA CreatingBounded ==
  ASSUME NEW S, S \subseteq Loops \ Idle
  PROVE  Cardinality(S) <= Cardinality(Loops \ Idle)
<1>1. IsFiniteSet(Loops \ Idle)
  BY LifecycleAssumption, FS_Subset
<1> QED
  BY <1>1, FS_Subset

\* One that is done with it is one less.
LEMMA OneLess ==
  ASSUME NEW l \in Loops, loop[l] = "creating"
  PROVE  Cardinality(Creating \ {l}) = Cardinality(Creating) - 1
BY CreatingFinite, FS_RemoveElement DEF Creating

-----------------------------------------------------------------------------
(***************************************************************************)
(* The steps.                                                              *)
(***************************************************************************)
LEMMA InitInv == Init => Inv
<1> SUFFICES ASSUME Init PROVE Inv
  OBVIOUS
<1>1. Creating = {} /\ Cardinality(Creating) = 0
  BY FS_EmptySet DEF Init, Creating
<1>2. Cardinality(Loops \ Idle) \in Nat
  BY LifecycleAssumption, FS_Subset, FS_CardinalityType
<1>3. 1..created = {}
  BY DEF Init
<1>4. TypeOK
  <2>1. created \in Nat /\ open \subseteq 1..created /\ pool \in 0..created
    BY DEF Init
  <2>2. held \in [Loops -> 0..created]
    BY DEF Init
  <2>3. loop \in [Loops -> {"waiting", "creating", "using", "done"}]
    BY DEF Init
  <2> QED
    BY <2>1, <2>2, <2>3 DEF Init, TypeOK
<1>5. RaceIsCounted
  BY <1>1, <1>2 DEF Init, RaceIsCounted
<1>6. BootIsEmpty /\ PoolsOpen /\ HeldIsCreated /\ ClosedAtTheEnd
  BY <1>3 DEF Init, BootIsEmpty, PoolsOpen, HeldIsCreated, ClosedAtTheEnd
<1> QED
  BY <1>4, <1>5, <1>6 DEF Inv

\* The start: until then no loop has moved, so no loop is creating a pool.
LEMMA BootstrapInv ==
  ASSUME Inv, NEW success \in BOOLEAN, Bootstrap(success)
  PROVE  Inv'
<1> USE DEF Inv, Bootstrap, BootIsEmpty
<1>1. TypeOK'
  <2>1. CASE success
    <3>1. created' \in Nat /\ open' \subseteq 1..created' /\ pool' \in 0..created'
      BY <2>1 DEF TypeOK
    <3>2. held' \in [Loops -> 0..created']
      BY <2>1 DEF TypeOK
    <3> QED
      BY <3>1, <3>2 DEF TypeOK
  <2>2. CASE ~success
    BY <2>2 DEF TypeOK
  <2> QED
    BY <2>1, <2>2
<1>2. Creating' = {} /\ Cardinality(Creating') = 0
  BY FS_EmptySet DEF Creating
<1>3. RaceIsCounted'
  <2>1. Cardinality(Loops \ Idle) \in Nat
    BY LifecycleAssumption, FS_Subset, FS_CardinalityType
  <2> QED
    BY <1>2, <2>1 DEF RaceIsCounted
<1>4. PoolsOpen'
  <2>1. CASE success
    <3>1. 1..1 = {1}
      OBVIOUS
    <3>2. created' = 1 /\ pool' = 1 /\ open' = {1}
      BY <2>1
    <3> QED
      BY <3>1, <3>2 DEF PoolsOpen
  <2>2. CASE ~success
    BY <2>2 DEF PoolsOpen
  <2> QED
    BY <2>1, <2>2
<1>5. BootIsEmpty' /\ HeldIsCreated' /\ ClosedAtTheEnd'
  BY DEF HeldIsCreated, ClosedAtTheEnd
<1> QED
  BY <1>1, <1>3, <1>4, <1>5

\* What main, the server and the operator do leaves the loops alone.
LEMMA MainInv ==
  ASSUME Inv, NEW success \in BOOLEAN,
         ServerStarts \/ ServerFails \/ Signal \/ ServerExits \/ Gathered \/ CloseDb(success)
  PROVE  Inv'
<1> USE DEF Inv
<1>1. UNCHANGED <<loop, held, created, booted>>
  BY DEF ServerStarts, ServerFails, Signal, ServerExits, Gathered, CloseDb
<1>2. TypeOK'
  <2>1. CASE ServerStarts \/ ServerExits
    BY <2>1 DEF TypeOK, ServerStarts, ServerExits
  <2>2. CASE ServerFails \/ Gathered
    BY <2>2 DEF TypeOK, ServerFails, Gathered
  <2>3. CASE Signal
    BY <2>3 DEF TypeOK, Signal
  <2>4. CASE CloseDb(success)
    <3>1. pool' \in 0..created' /\ open' \subseteq 1..created'
      BY <2>4 DEF TypeOK, CloseDb
    <3> QED
      BY <2>4, <3>1 DEF TypeOK, CloseDb
  <2> QED
    BY <2>1, <2>2, <2>3, <2>4
<1>3. RaceIsCounted'
  <2>1. Creating' = Creating
    BY <1>1 DEF Creating
  <2> QED
    BY <1>1, <2>1 DEF RaceIsCounted
<1>4. HeldIsCreated'
  BY <1>1 DEF HeldIsCreated
<1>5. BootIsEmpty'
  BY DEF BootIsEmpty, ServerStarts, ServerFails, Signal, ServerExits, Gathered, CloseDb
<1>6. PoolsOpen'
  BY DEF PoolsOpen, ServerStarts, ServerFails, Signal, ServerExits, Gathered, CloseDb
<1>7. ClosedAtTheEnd'
  BY DEF ClosedAtTheEnd, BootIsEmpty, PoolsOpen, AllFinished, TypeOK,
         ServerStarts, ServerFails, Signal, ServerExits, Gathered, CloseDb
<1> QED
  BY <1>2, <1>3, <1>4, <1>5, <1>6, <1>7

\* A loop that finds no pool joins the race only while no pool has been created.
LEMMA WakeInv ==
  ASSUME Inv, NEW l \in Loops, Wake(l)
  PROVE  Inv'
<1> USE DEF Inv
<1>1. TypeOK'
  BY DEF TypeOK, Wake, GetPool
<1>2. RaceIsCounted'
  <2>1. CASE loop'[l] = "creating"
    <3>1. created = 0 /\ ~booted
      BY <2>1 DEF Wake, GetPool, PoolsOpen, RaceIsCounted, TypeOK
    <3>2. \A k \in Loops : loop'[k] \in {"creating", "using"} => k \notin Idle
      BY <2>1 DEF Wake, GetPool, RaceIsCounted, TypeOK
    <3>3. Cardinality(Creating') <= Cardinality(Loops \ Idle)
      <4>1. Creating' \subseteq Loops \ Idle
        BY <3>2 DEF Creating
      <4> QED
        BY <4>1, CreatingBounded
    <3>4. Cardinality(Creating') \in Nat
      <4>1. Creating' \subseteq Loops
        BY DEF Creating
      <4> QED
        BY <4>1, LifecycleAssumption, FS_Subset, FS_CardinalityType
    <3> QED
      BY <3>1, <3>2, <3>3, <3>4 DEF RaceIsCounted, Wake
  <2>2. CASE loop'[l] # "creating"
    <3>1. Creating' = Creating
      BY <2>2 DEF Creating, Wake, GetPool, TypeOK
    <3>2. \A k \in Loops : loop'[k] \in {"creating", "using"} => k \notin Idle
      BY <2>2 DEF Wake, GetPool, RaceIsCounted, TypeOK
    <3> QED
      BY <3>1, <3>2 DEF RaceIsCounted, Wake
  <2> QED
    BY <2>1, <2>2
<1>3. HeldIsCreated'
  BY DEF HeldIsCreated, PoolsOpen, Wake, GetPool, TypeOK
<1>4. BootIsEmpty' /\ PoolsOpen' /\ ClosedAtTheEnd'
  BY DEF BootIsEmpty, PoolsOpen, ClosedAtTheEnd, Wake
<1> QED
  BY <1>1, <1>2, <1>3, <1>4

\* A loop that was counted for the pool it creates leaves the race with it.
LEMMA PoolCreatedInv ==
  ASSUME Inv, NEW l \in Loops, PoolCreated(l)
  PROVE  Inv'
<1> USE DEF Inv, PoolCreated, NextPool
<1>1. TypeOK'
  <2>1. open' \subseteq 1..created' /\ pool' \in 0..created'
    BY DEF TypeOK
  <2>2. held' \in [Loops -> 0..created']
    BY DEF TypeOK
  <2> QED
    BY <2>1, <2>2 DEF TypeOK
<1>2. RaceIsCounted'
  <2>1. ~booted
    BY DEF RaceIsCounted, Creating
  <2>2. Creating' = Creating \ {l}
    BY DEF Creating, TypeOK
  <2>3. created' + Cardinality(Creating') = created + Cardinality(Creating)
    BY <2>2, OneLess, CreatingFinite DEF TypeOK
  <2>4. \A k \in Loops : loop'[k] \in {"creating", "using"} => k \notin Idle
    BY DEF RaceIsCounted, TypeOK
  <2> QED
    BY <2>1, <2>3, <2>4 DEF RaceIsCounted
<1>3. HeldIsCreated'
  BY DEF HeldIsCreated, TypeOK
<1>4. PoolsOpen'
  BY DEF PoolsOpen, TypeOK
<1>5. BootIsEmpty' /\ ClosedAtTheEnd'
  BY DEF BootIsEmpty, ClosedAtTheEnd
<1> QED
  BY <1>1, <1>2, <1>3, <1>4, <1>5

LEMMA IterationEndsInv ==
  ASSUME Inv, NEW l \in Loops, IterationEnds(l)
  PROVE  Inv'
<1> USE DEF Inv, IterationEnds
<1>1. TypeOK'
  BY DEF TypeOK
<1>2. RaceIsCounted'
  <2>1. Creating' = Creating \ {l}
    BY DEF Creating, TypeOK
  <2>2. Cardinality(Creating') \in Nat /\ Cardinality(Creating') <= Cardinality(Creating)
    <3>1. Creating' \subseteq Creating
      BY <2>1
    <3> QED
      BY <3>1, CreatingFinite, FS_Subset, FS_CardinalityType
  <2>3. Cardinality(Loops \ Idle) \in Nat
    BY LifecycleAssumption, FS_Subset, FS_CardinalityType
  <2>4. \A k \in Loops : loop'[k] \in {"creating", "using"} => k \notin Idle
    BY DEF RaceIsCounted, TypeOK
  <2> QED
    BY <2>1, <2>2, <2>3, <2>4, CreatingFinite DEF RaceIsCounted, TypeOK
<1>3. HeldIsCreated'
  BY DEF HeldIsCreated, TypeOK
<1>4. BootIsEmpty' /\ PoolsOpen' /\ ClosedAtTheEnd'
  BY DEF BootIsEmpty, PoolsOpen, ClosedAtTheEnd
<1> QED
  BY <1>1, <1>2, <1>3, <1>4

LEMMA NextInv == Inv /\ [Next]_vars => Inv'
<1> SUFFICES ASSUME Inv, [Next]_vars PROVE Inv'
  OBVIOUS
<1>1. CASE \E success \in BOOLEAN : Bootstrap(success)
  BY <1>1, BootstrapInv
<1>2. CASE \/ \E success \in BOOLEAN : CloseDb(success)
           \/ ServerStarts \/ ServerFails \/ Signal \/ ServerExits \/ Gathered
  BY <1>2, MainInv
<1>3. CASE \E l \in Loops : LoopStep(l)
  BY <1>3, WakeInv, PoolCreatedInv, IterationEndsInv DEF LoopStep
<1>4. CASE UNCHANGED vars
  BY <1>4 DEF vars, Inv, TypeOK, BootIsEmpty, PoolsOpen, RaceIsCounted, Creating,
              HeldIsCreated, ClosedAtTheEnd, AllFinished
<1> QED
  BY <1>1, <1>2, <1>3, <1>4 DEF Next

LEMMA Invariance == Spec => []Inv
BY InitInv, NextInv, PTL DEF Spec

-----------------------------------------------------------------------------
(***************************************************************************)
(* What follows.                                                           *)
(***************************************************************************)
\* Every variable of the process keeps its type (main, db.py).
THEOREM LifecycleTypeCorrect == Spec => []TypeOK
<1>1. Inv => TypeOK
  BY DEF Inv
<1> QED
  BY <1>1, Invariance, PTL

\* Whatever the loops are doing when the signal comes, whichever pools they hold
\* and however main ends, no pool is closed under a loop that uses it.
THEOREM NobodyUsesAClosedPool == Spec => []NoUseAfterClose
<1>1. Inv => NoUseAfterClose
  BY DEF Inv, NoUseAfterClose, HeldIsCreated, PoolsOpen, ClosedAtTheEnd
<1> QED
  BY <1>1, Invariance, PTL

\* However many loops there are, the unguarded _get_pool creates no more than one
\* pool for each that ever asks for one, and close leaves all but one open, or all.
THEOREM TheRaceIsBounded == Spec => []PoolsAreCounted
<1>1. Inv => PoolsAreCounted
  <2> SUFFICES ASSUME Inv PROVE PoolsAreCounted
    OBVIOUS
  <2> USE DEF Inv, TypeOK
  <2>1. created <= IF booted THEN 1 ELSE Cardinality(Loops \ Idle)
    <3>1. Cardinality(Loops \ Idle) \in Nat
      BY LifecycleAssumption, FS_Subset, FS_CardinalityType
    <3> QED
      BY <3>1, CreatingFinite DEF RaceIsCounted
  <2>2. ASSUME stage = "exited" PROVE Cardinality(open) >= created - 1
    <3>1. IsFiniteSet(1..created) /\ Cardinality(1..created) = created
      BY FS_Interval
    <3>2. CASE open = 1..created
      BY <3>1, <3>2
    <3>3. CASE open = (1..created) \ {created} /\ created = 0
      <4>1. open = {}
        BY <3>3
      <4> QED
        BY <3>3, <4>1, FS_EmptySet
    <3>4. CASE open = (1..created) \ {created} /\ created # 0
      <4>1. created \in 1..created
        BY <3>4
      <4>2. Cardinality((1..created) \ {created}) = created - 1
        BY <3>1, <4>1, FS_RemoveElement
      <4> QED
        BY <3>4, <4>2
    <3> QED
      BY <2>2, <3>2, <3>3, <3>4 DEF ClosedAtTheEnd
  <2> QED
    BY <2>1, <2>2 DEF PoolsAreCounted
<1> QED
  BY <1>1, Invariance, PTL
=============================================================================
