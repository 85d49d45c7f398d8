---------------------------- MODULE TuningProofs -----------------------------
(***************************************************************************)
(* Proofs about ParamTuning and ClosedLoop, for any parameters and bounds, *)
(* any trades, any failures and any edits by hand: the registry keeps its  *)
(* type; what the tuner writes is within bounds and a bounded step away;   *)
(* the audit stream tells the truth and, without failures, all of it; and  *)
(* in the closed loop the tuner stays where its evidence lies.             *)
(***************************************************************************)
EXTENDS ClosedLoop, FiniteSetTheorems, TLAPS

-----------------------------------------------------------------------------
(***************************************************************************)
(* The nudge.                                                              *)
(***************************************************************************)
ProperBounds(bounds) ==
  /\ bounds.bound_min \in Int /\ bounds.bound_max \in Int
  /\ bounds.bound_min < bounds.bound_max
  /\ bounds.n_bins \in Nat \ {0}
  /\ bounds.max_step_pct \in Nat

LEMMA ProductOfNats == \A m, n \in Nat : m * n \in Nat
OBVIOUS

LEMMA MaxStepType ==
  ASSUME NEW bounds, ProperBounds(bounds)
  PROVE  MaxStep(bounds) \in Nat
<1>1. Width(bounds) \in Nat
  BY DEF Width, ProperBounds
<1>2. Width(bounds) * bounds.max_step_pct \in Nat
  BY <1>1, ProductOfNats DEF ProperBounds
<1> QED
  BY <1>2 DEF MaxStep

LEMMA CenterType ==
  ASSUME NEW bounds, ProperBounds(bounds), NEW bin \in Bins(bounds)
  PROVE  Center(bin, bounds) \in Int
<1>1. bin \in Nat /\ 2 * bin + 1 \in Nat
  BY DEF Bins, ProperBounds
<1>2. Width(bounds) \in Nat
  BY DEF Width, ProperBounds
<1>3. (2 * bin + 1) * Width(bounds) \in Nat
  BY <1>1, <1>2, ProductOfNats
<1>4. 2 * bounds.n_bins \in Nat \ {0}
  BY DEF ProperBounds
<1>5. \A m \in Nat, n \in Nat \ {0} : m \div n \in Nat
  OBVIOUS
<1>6. ((2 * bin + 1) * Width(bounds)) \div (2 * bounds.n_bins) \in Nat
  BY <1>3, <1>4, <1>5
<1> QED
  BY <1>6 DEF Center, ProperBounds

\* A nudge ends within the bounds, wherever it starts and wherever it is headed,
\* and from within the bounds it is at most MaxStep long.
THEOREM NudgeIsSafe ==
  ASSUME NEW bounds, ProperBounds(bounds), NEW value \in Int, NEW target \in Int
  PROVE  LET new == Nudged(value, target, bounds)
         IN /\ InBounds(new, bounds)
            /\ InBounds(value, bounds) => Magnitude(new - value) <= MaxStep(bounds)
<1> DEFINE step == Capped(value, target, bounds)
<1>1. MaxStep(bounds) \in Nat
  BY MaxStepType
<1>2. step \in Int /\ Magnitude(step) <= MaxStep(bounds)
  BY <1>1 DEF Capped, Magnitude
<1> HIDE DEF step
<1>3. InBounds(Clamp(value + step, bounds), bounds)
  BY <1>2 DEF Clamp, InBounds, ProperBounds
<1>4. InBounds(value, bounds) =>
        Magnitude(Clamp(value + step, bounds) - value) <= MaxStep(bounds)
  BY <1>1, <1>2 DEF Clamp, InBounds, ProperBounds, Magnitude
<1> QED
  BY <1>3, <1>4 DEF step, Nudged

\* So does tune_param, whenever it moves the value at all.
LEMMA DecisionIsSafe ==
  ASSUME NEW bounds, ProperBounds(bounds), NEW value \in Int, NEW closed, NEW n,
         NEW new \in tune_param(bounds, value, closed, n), new # value
  PROVE  /\ new \in Int
         /\ InBounds(new, bounds)
         /\ InBounds(value, bounds) => Magnitude(new - value) <= MaxStep(bounds)
<1>1. PICK b \in BestBins(bounds, closed) : new = Nudged(value, Center(b, bounds), bounds)
  BY DEF tune_param
<1>2. b \in Bins(bounds)
  BY <1>1 DEF BestBins, ScoredBins
<1>3. Center(b, bounds) \in Int
  BY <1>2, CenterType
<1>4. /\ InBounds(new, bounds)
      /\ InBounds(value, bounds) => Magnitude(new - value) <= MaxStep(bounds)
  BY <1>1, <1>3, NudgeIsSafe
<1> QED
  BY <1>4 DEF InBounds, ProperBounds

-----------------------------------------------------------------------------
(***************************************************************************)
(* Types, and the safety of what is about to be written.                   *)
(***************************************************************************)
LEMMA BoundsAreProper == \A p \in Param : ProperBounds(Bounds[p])
BY ParamTuningAssumption DEF ProperBounds

LEMMA StrategiesShape ==
  /\ Len(Strategies) \in Nat \ {0} /\ DOMAIN Strategies = 1..Len(Strategies)
  /\ \A i \in DOMAIN Strategies :
       /\ Strategies[i] \in Seq(Param)
       /\ Len(Strategies[i]) \in Nat \ {0}
       /\ DOMAIN Strategies[i] = 1..Len(Strategies[i])
<1>1. Strategies \in Seq(Seq(Param)) /\ Strategies # <<>>
  BY ParamTuningAssumption
<1>2. \A i \in DOMAIN Strategies : Strategies[i] \in Seq(Param) /\ Strategies[i] # <<>>
  BY <1>1, ParamTuningAssumption
<1> QED
  BY <1>1, <1>2

\* The type of everything but the fetched trades, which come from Recent or, in
\* ClosedLoop, from the table.
CycleTypeOK ==
  /\ params \in [Param -> Value]
  /\ audit \in Seq(Entry)
  /\ phase \in {"fetch", "get", "set", "audit"}
  /\ turn \in DOMAIN Strategies /\ next \in DOMAIN Strategies[turn]
  /\ IF phase \in {"set", "audit"}
     THEN current \in Int /\ proposed \in Int ELSE current = None /\ proposed = None /\ ~blind
  /\ blind \in BOOLEAN
  /\ restarts \in 0..MaxRestarts
  /\ unaudited \subseteq Param

\* A step of the tuner, whatever trades it fetches, of an operator, or a crash.
Move == \/ \E recent : FetchClosed(recent)
        \/ FetchClosedFails
        \/ \E reply \in Reply : Decide(reply) \/ WriteParam(reply) \/ AuditParam(reply)
        \/ \E p \in Param, value \in ManualValues : SetByHand(p, value)
        \/ Restart

LEMMA NextMoves == [Next]_vars => [Move]_vars
BY DEF Next, TuneStep, Move

LEMMA LoopMoves == [LoopNext]_<<vars, tableVars>> => [Move]_vars
BY DEF LoopNext, LearningStep, TunerStep, Move, vars

LEMMA ThisParamIsParam == CycleTypeOK => ThisParam \in Param
BY StrategiesShape DEF CycleTypeOK, ThisParam

LEMMA ReadType ==
  ASSUME CycleTypeOK, NEW p \in Param, NEW reply
  PROVE  get_param(p, reply) \in Int
<1>1. Bounds[p].default \in Int
  BY ParamTuningAssumption DEF InBounds
<1> QED
  BY <1>1 DEF get_param, CycleTypeOK, Value

TuningInv == CycleTypeOK /\ NudgesAreSafe

LEMMA InitTuning == Init => TuningInv
<1> SUFFICES ASSUME Init PROVE TuningInv
  OBVIOUS
<1>1. 1 \in DOMAIN Strategies /\ 1 \in DOMAIN Strategies[1]
  BY StrategiesShape
<1>2. restarts \in 0..MaxRestarts
  BY ParamTuningAssumption DEF Init
<1>3. ~blind /\ blind \in BOOLEAN
  BY Zenon DEF Init
<1> QED
  BY <1>1, <1>2, <1>3 DEF Init, TuningInv, CycleTypeOK, NudgesAreSafe, Value

\* The cursor of the cycle.
LEMMA NextStrategyType ==
  ASSUME CycleTypeOK, NextStrategy
  PROVE  /\ phase' = "fetch"
         /\ turn' \in DOMAIN Strategies /\ next' \in DOMAIN Strategies[turn']
<1>1. turn' \in DOMAIN Strategies
  BY StrategiesShape DEF CycleTypeOK, NextStrategy, FollowingTurn
<1> QED
  BY <1>1, StrategiesShape DEF NextStrategy

LEMMA ContinueType ==
  ASSUME CycleTypeOK, Continue
  PROVE  /\ phase' \in {"fetch", "get"}
         /\ turn' \in DOMAIN Strategies /\ next' \in DOMAIN Strategies[turn']
         /\ current' = None /\ proposed' = None /\ blind' = FALSE
<1>1. CASE next < Len(Strategies[turn]) /\ next' = next + 1 /\ UNCHANGED <<turn, rows>> /\ phase' = "get"
  BY <1>1, StrategiesShape DEF CycleTypeOK, Continue
<1>2. CASE NextStrategy
  BY <1>2, NextStrategyType DEF Continue
<1> QED
  BY <1>1, <1>2 DEF Continue

LEMMA StepTuning == TuningInv /\ [Move]_vars => TuningInv'
<1> SUFFICES ASSUME TuningInv, [Move]_vars PROVE CycleTypeOK' /\ NudgesAreSafe'
  BY DEF TuningInv
<1>0. CycleTypeOK /\ NudgesAreSafe /\ ThisParam \in Param
  BY ThisParamIsParam DEF TuningInv
<1>a. ASSUME Continue, params' \in [Param -> Value], audit' \in Seq(Entry),
             unaudited' \subseteq Param, UNCHANGED restarts
      PROVE  CycleTypeOK' /\ NudgesAreSafe'
  BY <1>0, <1>a, ContinueType DEF CycleTypeOK, NudgesAreSafe
<1>1. ASSUME NEW recent, FetchClosed(recent) PROVE CycleTypeOK' /\ NudgesAreSafe'
  BY <1>0, <1>1 DEF FetchClosed, registry, nudge, CycleTypeOK, NudgesAreSafe
<1>2. CASE FetchClosedFails
  BY <1>0, <1>2, NextStrategyType DEF FetchClosedFails, registry, nudge, CycleTypeOK, NudgesAreSafe
<1>3. ASSUME NEW reply \in Reply, Decide(reply) PROVE CycleTypeOK' /\ NudgesAreSafe'
  <2> DEFINE value == get_param(ThisParam, reply)
  <2>1. PICK new \in Decisions(ThisParam, value) :
          \/ ~WorthWriting(value, new) /\ Continue
          \/ /\ WorthWriting(value, new)
             /\ phase' = "set" /\ current' = value /\ proposed' = new /\ blind' \in BOOLEAN
             /\ UNCHANGED cursor
    BY <1>3 DEF Decide
  <2>2. value \in Int
    BY <1>0, ReadType
  <2> HIDE DEF value
  <2>3. UNCHANGED <<params, audit, unaudited, restarts>>
    BY <1>3 DEF Decide, registry
  <2>4. CASE Continue
    BY <1>0, <1>a, <2>3, <2>4 DEF CycleTypeOK
  <2>5. CASE /\ WorthWriting(value, new)
             /\ phase' = "set" /\ current' = value /\ proposed' = new /\ blind' \in BOOLEAN
             /\ UNCHANGED cursor
    <3>0. new # value
      BY <2>2, <2>5, ParamTuningAssumption DEF WorthWriting, Magnitude
    <3>1. /\ new \in Int
          /\ InBounds(new, Bounds[ThisParam])
          /\ InBounds(value, Bounds[ThisParam]) =>
               Magnitude(new - value) <= MaxStep(Bounds[ThisParam])
      BY <1>0, <2>2, <3>0, BoundsAreProper, DecisionIsSafe DEF Decisions
    <3>2. ThisParam' = ThisParam
      BY <2>5 DEF ThisParam, cursor
    <3>3. NudgesAreSafe'
      BY <2>5, <3>1, <3>2 DEF NudgesAreSafe
    <3>4. CycleTypeOK'
      BY <1>0, <2>2, <2>3, <2>5, <3>1 DEF CycleTypeOK, cursor
    <3> QED
      BY <3>3, <3>4
  <2> QED
    BY <2>1, <2>4, <2>5
<1>4. ASSUME NEW reply \in Reply, WriteParam(reply) PROVE CycleTypeOK' /\ NudgesAreSafe'
  <2>1. proposed \in Value
    BY <1>0, <1>4 DEF WriteParam, CycleTypeOK, Value
  <2>2. params' \in [Param -> Value]
    BY <1>0, <1>4, <2>1 DEF WriteParam, CycleTypeOK
  <2>3. CASE Continue
    BY <1>0, <1>4, <1>a, <2>2, <2>3 DEF WriteParam, CycleTypeOK
  <2>4. CASE phase' = "audit" /\ UNCHANGED <<cursor, nudge>>
    <3>1. ThisParam' = ThisParam
      BY <2>4 DEF ThisParam, cursor
    <3>2. NudgesAreSafe'
      BY <1>0, <1>4, <2>4, <3>1 DEF WriteParam, NudgesAreSafe, nudge
    <3>3. CycleTypeOK'
      BY <1>0, <1>4, <2>2, <2>4 DEF WriteParam, CycleTypeOK, cursor, nudge
    <3> QED
      BY <3>2, <3>3
  <2> QED
    BY <1>4, <2>3, <2>4 DEF WriteParam
<1>5. ASSUME NEW reply \in Reply, AuditParam(reply) PROVE CycleTypeOK' /\ NudgesAreSafe'
  <2>1. AuditEntry \in Entry
    BY <1>0, <1>5 DEF AuditParam, AuditEntry, Entry, CycleTypeOK
  <2>2. Append(audit, AuditEntry) \in Seq(Entry) /\ Append(audit, AuditEntry) # <<>>
    BY <1>0, <2>1 DEF CycleTypeOK
  <2>3. Newest(Append(audit, AuditEntry)) \in Seq(Entry)
    BY <2>2 DEF Newest
  <2>4. audit' \in Seq(Entry)
    BY <1>0, <1>5, <2>3 DEF AuditParam, CycleTypeOK
  <2> QED
    BY <1>0, <1>5, <1>a, <2>4 DEF AuditParam, CycleTypeOK
<1>6. ASSUME NEW p \in Param, NEW value \in ManualValues, SetByHand(p, value)
      PROVE  CycleTypeOK' /\ NudgesAreSafe'
  <2>1. value \in Value
    BY ParamTuningAssumption DEF Value
  <2>2. ThisParam' = ThisParam
    BY <1>6 DEF SetByHand, ThisParam, cursor
  <2> QED
    BY <1>0, <1>6, <2>1, <2>2 DEF SetByHand, CycleTypeOK, NudgesAreSafe, cursor, nudge
<1>7. CASE Restart
  <2>1. turn' \in DOMAIN Strategies /\ next' \in DOMAIN Strategies[turn']
    BY <1>7, StrategiesShape DEF Restart
  <2>2. restarts' \in 0..MaxRestarts
    BY <1>0, <1>7, ParamTuningAssumption DEF Restart, CycleTypeOK
  <2> QED
    BY <1>0, <1>7, <2>1, <2>2 DEF Restart, CycleTypeOK, NudgesAreSafe
<1>8. CASE UNCHANGED vars
  <2>1. ThisParam' = ThisParam
    BY <1>8 DEF vars, ThisParam, cursor
  <2> QED
    BY <1>0, <1>8, <2>1 DEF vars, registry, CycleTypeOK, NudgesAreSafe, cursor, nudge
<1> QED
  BY <1>1, <1>2, <1>3, <1>4, <1>5, <1>6, <1>7, <1>8 DEF Move

LEMMA TuningInvHolds == Spec => []TuningInv
BY InitTuning, StepTuning, NextMoves, PTL DEF Spec

RowsOK == rows \in Recent \cup {<<>>}

LEMMA StepRows == RowsOK /\ [Next]_vars => RowsOK'
BY DEF RowsOK, Next, TuneStep, FetchClosed, FetchClosedFails, Decide, WriteParam,
       AuditParam, SetByHand, Restart, Continue, NextStrategy, vars, cursor

\* Every variable of the tuner keeps its type; the cursor stays on a parameter.
THEOREM TuningTypeCorrect == Spec => []TypeOK
<1>1. Init => RowsOK
  BY DEF Init, RowsOK
<1>2. TuningInv /\ RowsOK => TypeOK
  BY DEF TuningInv, CycleTypeOK, RowsOK, TypeOK
<1> QED
  BY TuningInvHolds, StepRows, <1>1, <1>2, PTL DEF Spec

\* What the tuner is about to write is within bounds, and at most MaxStep away
\* from what it read if that was.
THEOREM EveryNudgeIsSafe == Spec => []NudgesAreSafe
<1>1. TuningInv => NudgesAreSafe
  BY DEF TuningInv
<1> QED
  BY TuningInvHolds, <1>1, PTL

-----------------------------------------------------------------------------
(***************************************************************************)
(* Lost updates.  Unless it is blind, a nudge that is about to be written  *)
(* starts from the value in force.                                         *)
(***************************************************************************)
SeesWhatItMoves == phase = "set" /\ ~blind => current = Held(ThisParam)

LEMMA AnsweredReadIsHeld == \A p : get_param(p, "answered") = Held(p)
BY DEF get_param, Held

LEMMA StepSees == TuningInv /\ SeesWhatItMoves /\ [Next]_vars => SeesWhatItMoves'
<1> SUFFICES ASSUME TuningInv, SeesWhatItMoves, [Next]_vars, phase' = "set", ~blind'
             PROVE  current' = Held(ThisParam)'
  BY DEF SeesWhatItMoves
<1>1. ASSUME NEW reply \in Reply, Decide(reply) PROVE current' = Held(ThisParam)'
  <2>1. /\ current' = get_param(ThisParam, reply) /\ blind' = (reply # "answered")
        /\ UNCHANGED <<params, cursor>>
    BY <1>1 DEF Decide, Continue, NextStrategy, registry
  <2>2. current' = Held(ThisParam)
    BY <2>1, AnsweredReadIsHeld
  <2> QED
    BY <2>1, <2>2 DEF Held, ThisParam, cursor
<1>2. ASSUME NEW p \in Param, NEW value \in ManualValues, SetByHand(p, value)
      PROVE  current' = Held(ThisParam)'
  <2>1. /\ phase = "set" /\ ~blind /\ p # ThisParam
        /\ params' = [params EXCEPT ![p] = value] /\ UNCHANGED <<current, cursor>>
    BY <1>2 DEF SetByHand
  <2>2. ThisParam \in Param /\ params \in [Param -> Value]
    BY ThisParamIsParam DEF TuningInv, CycleTypeOK
  <2>3. current = Held(ThisParam)
    BY <2>1 DEF SeesWhatItMoves
  <2>4. params'[ThisParam] = params[ThisParam]
    BY <2>1, <2>2
  <2>5. ThisParam' = ThisParam
    BY <2>1 DEF ThisParam, cursor
  <2> QED
    BY <2>1, <2>3, <2>4, <2>5 DEF Held
<1>3. CASE UNCHANGED vars
  <2>1. /\ phase = "set" /\ ~blind /\ UNCHANGED <<params, current>> /\ ThisParam' = ThisParam
    BY <1>3 DEF vars, registry, nudge, ThisParam, cursor
  <2> QED
    BY <2>1 DEF SeesWhatItMoves, Held
<1> QED
  BY <1>1, <1>2, <1>3
     DEF Next, TuneStep, FetchClosed, FetchClosedFails, WriteParam, AuditParam, Restart,
         Continue, NextStrategy

StepwiseMove ==
  \A p \in Param :
    \/ params'[p] = params[p] \/ blind
    \/ \E value \in ManualValues : SetByHand(p, value)
    \/ ~InBounds(Held(p), Bounds[p])
    \/ Magnitude(params'[p] - Held(p)) <= MaxStep(Bounds[p])

LEMMA MovesAreStepwise ==
  TuningInv /\ SeesWhatItMoves /\ [Next]_vars => [StepwiseMove]_vars
<1> SUFFICES ASSUME TuningInv, SeesWhatItMoves, Next PROVE StepwiseMove
  OBVIOUS
<1>0. params \in [Param -> Value] /\ ThisParam \in Param
  BY ThisParamIsParam DEF TuningInv, CycleTypeOK
<1>1. ASSUME NEW reply \in Reply, WriteParam(reply) PROVE StepwiseMove
  <2>1. /\ phase = "set"
        /\ InBounds(Held(ThisParam), Bounds[ThisParam]) /\ ~blind =>
             Magnitude(proposed - Held(ThisParam)) <= MaxStep(Bounds[ThisParam])
    BY <1>1 DEF WriteParam, TuningInv, NudgesAreSafe, SeesWhatItMoves
  <2>2. \A p \in Param : params'[p] = params[p] \/ (p = ThisParam /\ params'[p] = proposed)
    BY <1>0, <1>1 DEF WriteParam
  <2> QED
    BY <2>1, <2>2 DEF StepwiseMove
<1>2. ASSUME NEW q \in Param, NEW value \in ManualValues, SetByHand(q, value)
      PROVE  StepwiseMove
  <2>1. \A p \in Param \ {q} : params'[p] = params[p]
    BY <1>0, <1>2 DEF SetByHand
  <2> QED
    BY <1>2, <2>1 DEF StepwiseMove
<1>3. CASE UNCHANGED params
  BY <1>3 DEF StepwiseMove
<1> QED
  BY <1>1, <1>2, <1>3
     DEF Next, TuneStep, FetchClosed, FetchClosedFails, Decide, AuditParam, Restart, registry

\* The tuner moves a parameter by at most MaxStep from the value in force when it
\* writes; only a failed HGET, or an edit between the HGET and the HSET of one
\* nudge, lets it overwrite a value that it has not seen.
THEOREM NoOtherLostUpdate == Spec => RegistryMovesStepwise
<1>1. Init => SeesWhatItMoves
  BY DEF Init, SeesWhatItMoves
<1> QED
  BY <1>1, TuningInvHolds, StepSees, MovesAreStepwise, PTL
     DEF Spec, RegistryMovesStepwise, StepwiseMove

-----------------------------------------------------------------------------
(***************************************************************************)
(* The registry.  If nobody sets a parameter out of its bounds by hand, it *)
(* is never found out of them: trades, failures and crashes cannot.        *)
(***************************************************************************)
OperatorIsCareful ==
  \A p \in Param, v \in ManualValues : v = Malformed \/ InBounds(v, Bounds[p])

RegistryInBounds ==
  OperatorIsCareful =>
    \A p \in Param : params[p] \in {None, Malformed} \/ InBounds(params[p], Bounds[p])

LEMMA StepRegistry == TuningInv /\ RegistryInBounds /\ [Next]_vars => RegistryInBounds'
<1> SUFFICES ASSUME TuningInv, RegistryInBounds, [Next]_vars, OperatorIsCareful,
                    NEW p \in Param
             PROVE  params'[p] \in {None, Malformed} \/ InBounds(params'[p], Bounds[p])
  BY DEF RegistryInBounds, OperatorIsCareful
<1>0. params[p] \in {None, Malformed} \/ InBounds(params[p], Bounds[p])
  BY DEF RegistryInBounds
<1>1. CASE UNCHANGED params
  BY <1>0, <1>1
<1>2. ASSUME NEW reply \in Reply, WriteParam(reply)
      PROVE  params'[p] \in {None, Malformed} \/ InBounds(params'[p], Bounds[p])
  <2>1. InBounds(proposed, Bounds[ThisParam]) /\ params \in [Param -> Value]
    BY <1>2 DEF TuningInv, NudgesAreSafe, WriteParam, CycleTypeOK
  <2>2. params'[p] = params[p] \/ (p = ThisParam /\ params'[p] = proposed)
    BY <1>2, <2>1 DEF WriteParam
  <2> QED
    BY <1>0, <2>1, <2>2
<1>3. ASSUME NEW q \in Param, NEW value \in ManualValues, SetByHand(q, value)
      PROVE  params'[p] \in {None, Malformed} \/ InBounds(params'[p], Bounds[p])
  <2>1. params \in [Param -> Value]
    BY DEF TuningInv, CycleTypeOK
  <2>2. params'[p] = params[p] \/ (p = q /\ params'[p] = value)
    BY <1>3, <2>1 DEF SetByHand
  <2> QED
    BY <1>0, <2>2 DEF OperatorIsCareful
<1> QED
  BY <1>1, <1>2, <1>3
     DEF Next, TuneStep, FetchClosed, FetchClosedFails, Decide, AuditParam, Restart, vars, registry

\* A parameter that nobody sets out of bounds by hand stays within them.
THEOREM RegistryStaysInBounds == Spec => []RegistryInBounds
<1>1. Init => RegistryInBounds
  BY DEF Init, RegistryInBounds
<1> QED
  BY TuningInvHolds, StepRegistry, <1>1, PTL DEF Spec

-----------------------------------------------------------------------------
(***************************************************************************)
(* The dry run.  The cycle never gets as far as a write, so that neither   *)
(* the registry nor the stream is touched.                                 *)
(***************************************************************************)
DryRunStopsShort == DryRun => phase \in {"fetch", "get"}

LEMMA StepStopsShort == DryRunStopsShort /\ [Next]_vars => DryRunStopsShort'
BY DEF DryRunStopsShort, Next, TuneStep, FetchClosed, FetchClosedFails, Decide,
       WorthWriting, WriteParam, AuditParam, SetByHand, Restart, Continue,
       NextStrategy, vars, cursor

\* With auto_tuner_dry_run on, only an operator changes the registry and nobody
\* the stream, whatever the evidence and whatever fails (run_tune_cycle).
THEOREM DryRunWritesNothing ==
  Spec => [][DryRun => /\ UNCHANGED audit
                       /\ UNCHANGED params
                          \/ \E p \in Param, value \in ManualValues : SetByHand(p, value)]_vars
<1>1. Init => DryRunStopsShort
  BY DEF Init, DryRunStopsShort
<1>2. DryRunStopsShort /\ [Next]_vars =>
        [DryRun => /\ UNCHANGED audit
                   /\ UNCHANGED params
                      \/ \E p \in Param, value \in ManualValues : SetByHand(p, value)]_vars
  BY DEF DryRunStopsShort, Next, TuneStep, FetchClosed, FetchClosedFails, Decide,
         WriteParam, AuditParam, SetByHand, Restart, vars, registry
<1> QED
  BY StepStopsShort, <1>1, <1>2, PTL DEF Spec

-----------------------------------------------------------------------------
(***************************************************************************)
(* The audit stream.  First what appending and trimming do to the entries  *)
(* of a parameter in any stream, then what the cycle makes of it.          *)
(***************************************************************************)
About(s, p) == {i \in DOMAIN s : s[i].param = p}

LastSays(s, p, v) ==
  \A i \in About(s, p) : (\A j \in About(s, p) : j <= i) => s[i].new = v
FirstSays(s, p, v) ==
  \A i \in About(s, p) : (\A j \in About(s, p) : i <= j) => s[i].old = v
Linked(s, p) ==
  \A i, j \in About(s, p) :
    j < i /\ (\A k \in About(s, p) : k <= j \/ i <= k) => s[j].new = s[i].old

LEMMA AppendShape ==
  ASSUME NEW s \in Seq(Entry), NEW e \in Entry, NEW p
  PROVE  /\ Len(Append(s, e)) = Len(s) + 1 /\ Len(s) \in Nat
         /\ About(s, p) \subseteq 1..Len(s)
         /\ About(Append(s, e), p)
              = IF e.param = p THEN About(s, p) \cup {Len(s) + 1} ELSE About(s, p)
         /\ \A i \in About(s, p) : Append(s, e)[i] = s[i]
         /\ Append(s, e)[Len(s) + 1] = e
<1> DEFINE t == Append(s, e)
<1>1. /\ Len(t) = Len(s) + 1 /\ Len(s) \in Nat
      /\ DOMAIN s = 1..Len(s) /\ DOMAIN t = 1..(Len(s) + 1)
      /\ \A i \in 1..Len(s) : t[i] = s[i]
      /\ t[Len(s) + 1] = e
  OBVIOUS
<1> HIDE DEF t
<1>2. About(s, p) \subseteq 1..Len(s)
  BY <1>1 DEF About
<1>3. \A i : i \in About(t, p) <=> (i \in About(s, p) \/ (e.param = p /\ i = Len(s) + 1))
  BY <1>1 DEF About
<1>4. About(t, p) = IF e.param = p THEN About(s, p) \cup {Len(s) + 1} ELSE About(s, p)
  BY <1>3
<1> QED
  BY <1>1, <1>2, <1>4 DEF t

LEMMA TailShape ==
  ASSUME NEW s \in Seq(Entry), s # <<>>, NEW p
  PROVE  /\ Len(Tail(s)) = Len(s) - 1
         /\ About(s, p) \subseteq 1..Len(s) /\ Len(s) \in Nat
         /\ \A i \in About(Tail(s), p) : i \in Nat /\ i + 1 \in About(s, p)
                                         /\ Tail(s)[i] = s[i + 1]
         /\ \A i \in About(s, p) : i = 1 \/ i - 1 \in About(Tail(s), p)
<1> DEFINE t == Tail(s)
<1>1. /\ Len(t) = Len(s) - 1 /\ Len(s) \in Nat
      /\ DOMAIN s = 1..Len(s) /\ DOMAIN t = 1..(Len(s) - 1)
      /\ \A i \in 1..(Len(s) - 1) : t[i] = s[i + 1]
  OBVIOUS
<1> HIDE DEF t
<1>2. \A i \in About(t, p) : i \in Nat /\ i + 1 \in About(s, p) /\ t[i] = s[i + 1]
  BY <1>1 DEF About
<1>3. \A i \in About(s, p) : i = 1 \/ i - 1 \in About(t, p)
  <2> SUFFICES ASSUME NEW i \in About(s, p), i # 1 PROVE i - 1 \in About(t, p)
    OBVIOUS
  <2>1. i - 1 \in 1..(Len(s) - 1) /\ (i - 1) + 1 = i
    BY <1>1 DEF About
  <2>2. t[i - 1] = s[i]
    BY <1>1, <2>1
  <2> QED
    BY <1>1, <2>1, <2>2 DEF About
<1> QED
  BY <1>1, <1>2, <1>3 DEF t, About

LEMMA AppendKeepsOrder ==
  ASSUME NEW s \in Seq(Entry), NEW e \in Entry, NEW p
  PROVE  /\ e.param = p => LastSays(Append(s, e), p, e.new)
         /\ \A v : e.param # p /\ LastSays(s, p, v) => LastSays(Append(s, e), p, v)
         /\ \A v : FirstSays(s, p, v) /\ (e.param = p /\ About(s, p) = {} => e.old = v)
                     => FirstSays(Append(s, e), p, v)
         /\ Linked(s, p) /\ (e.param = p => LastSays(s, p, e.old)) => Linked(Append(s, e), p)
<1> DEFINE t == Append(s, e)
           n == Len(s) + 1
<1>1. /\ n \in Nat /\ \A i \in About(s, p) : i \in Nat /\ i < n /\ t[i] = s[i]
      /\ t[n] = e
      /\ About(t, p) = IF e.param = p THEN About(s, p) \cup {n} ELSE About(s, p)
  BY AppendShape
<1> HIDE DEF t, n
<1>2. e.param = p => LastSays(t, p, e.new)
  BY <1>1 DEF LastSays
<1>3. \A v : e.param # p /\ LastSays(s, p, v) => LastSays(t, p, v)
  BY <1>1 DEF LastSays
<1>4. \A v : FirstSays(s, p, v) /\ (e.param = p /\ About(s, p) = {} => e.old = v)
               => FirstSays(t, p, v)
  <2> SUFFICES ASSUME NEW v, FirstSays(s, p, v), e.param = p /\ About(s, p) = {} => e.old = v,
                      NEW i \in About(t, p), \A j \in About(t, p) : i <= j
               PROVE  t[i].old = v
    BY DEF FirstSays
  <2>1. CASE i \in About(s, p)
    BY <1>1, <2>1 DEF FirstSays
  <2>2. CASE i \notin About(s, p)
    BY <1>1, <2>2
  <2> QED
    BY <2>1, <2>2
<1>5. ASSUME Linked(s, p), e.param = p => LastSays(s, p, e.old) PROVE Linked(t, p)
  <2> SUFFICES ASSUME NEW i \in About(t, p), NEW j \in About(t, p), j < i,
                      \A k \in About(t, p) : k <= j \/ i <= k
               PROVE  t[j].new = t[i].old
    BY DEF Linked
  <2>1. j \in About(s, p)
    BY <1>1
  <2>2. CASE i \in About(s, p)
    BY <1>1, <1>5, <2>1, <2>2 DEF Linked
  <2>3. CASE i = n /\ e.param = p
    <3>1. \A k \in About(s, p) : k <= j
      BY <1>1, <2>3
    <3> QED
      BY <1>1, <1>5, <2>1, <2>3, <3>1 DEF LastSays
  <2> QED
    BY <1>1, <2>2, <2>3
<1> QED
  BY <1>2, <1>3, <1>4, <1>5 DEF t

LEMMA TailKeepsOrder ==
  ASSUME NEW s \in Seq(Entry), s # <<>>, NEW p
  PROVE  /\ \A v : LastSays(s, p, v) => LastSays(Tail(s), p, v)
         /\ Linked(s, p) => Linked(Tail(s), p)
<1> DEFINE t == Tail(s)
<1>0. /\ \A i \in About(t, p) : i \in Nat /\ i + 1 \in About(s, p) /\ t[i] = s[i + 1]
      /\ \A i \in About(s, p) : i = 1 \/ i - 1 \in About(t, p)
      /\ About(s, p) \subseteq 1..Len(s) /\ Len(s) \in Nat
  BY TailShape
<1> HIDE DEF t
<1>1. /\ \A i \in About(t, p) : i \in Nat /\ i + 1 \in About(s, p) /\ t[i] = s[i + 1]
      /\ \A i \in About(s, p) : i \in Nat /\ (i = 1 \/ i - 1 \in About(t, p))
  BY <1>0
<1>2. ASSUME NEW v, LastSays(s, p, v) PROVE LastSays(t, p, v)
  <2> SUFFICES ASSUME NEW i \in About(t, p), \A j \in About(t, p) : j <= i
               PROVE  t[i].new = v
    BY DEF LastSays
  <2>1. \A j \in About(s, p) : j <= i + 1
    BY <1>1
  <2> QED
    BY <1>1, <1>2, <2>1 DEF LastSays
<1>3. ASSUME Linked(s, p) PROVE Linked(t, p)
  <2> SUFFICES ASSUME NEW i \in About(t, p), NEW j \in About(t, p), j < i,
                      \A k \in About(t, p) : k <= j \/ i <= k
               PROVE  t[j].new = t[i].old
    BY DEF Linked
  <2>1. i + 1 \in About(s, p) /\ j + 1 \in About(s, p) /\ j + 1 < i + 1
    BY <1>1
  <2>2. \A k \in About(s, p) : k <= j + 1 \/ i + 1 <= k
    <3> SUFFICES ASSUME NEW k \in About(s, p) PROVE k <= j + 1 \/ i + 1 <= k
      OBVIOUS
    <3>1. CASE k = 1
      BY <1>1, <3>1
    <3>2. CASE k - 1 \in About(t, p)
      <4>1. k - 1 <= j \/ i <= k - 1
        BY <3>2
      <4> QED
        BY <1>1, <4>1
    <3> QED
      BY <1>1, <3>1, <3>2
  <2>3. s[j + 1].new = s[i + 1].old
    BY <1>3, <2>1, <2>2 DEF Linked
  <2> QED
    BY <1>1, <2>3
<1> QED
  BY <1>2, <1>3 DEF t

\* What AuditParam does to a stream: the entry is appended, and the oldest one
\* dropped if the stream was full.
Recorded(s, e) == Newest(Append(s, e))

LEMMA RecordedShape ==
  ASSUME NEW s \in Seq(Entry), NEW e \in Entry, NEW p, Len(s) <= AuditMaxLen
  PROVE  LET t == Recorded(s, e)
         IN /\ t \in Seq(Entry) /\ Len(t) <= AuditMaxLen
            /\ e.param = p => LastSays(t, p, e.new)
            /\ \A v : e.param # p /\ LastSays(s, p, v) => LastSays(t, p, v)
            /\ Linked(s, p) /\ (e.param = p => LastSays(s, p, e.old)) => Linked(t, p)
            /\ \/ Len(t) = AuditMaxLen
               \/ /\ Len(s) < AuditMaxLen
                  /\ About(t, p) = {} => e.param # p /\ About(s, p) = {}
                  /\ \A v : FirstSays(s, p, v) /\ (e.param = p /\ About(s, p) = {} => e.old = v)
                              => FirstSays(t, p, v)
<1> DEFINE a == Append(s, e)
           t == Recorded(s, e)
<1>0. AuditMaxLen \in Nat \ {0}
  BY ParamTuningAssumption
<1>1. /\ a \in Seq(Entry) /\ a # <<>> /\ Len(a) = Len(s) + 1 /\ Len(s) \in Nat
      /\ AuditMaxLen \in Nat \ {0}
  BY <1>0
<1>2. /\ e.param = p => LastSays(a, p, e.new)
      /\ \A v : e.param # p /\ LastSays(s, p, v) => LastSays(a, p, v)
      /\ \A v : FirstSays(s, p, v) /\ (e.param = p /\ About(s, p) = {} => e.old = v)
                  => FirstSays(a, p, v)
      /\ Linked(s, p) /\ (e.param = p => LastSays(s, p, e.old)) => Linked(a, p)
  BY AppendKeepsOrder
<1>3. About(a, p) = {} => e.param # p /\ About(s, p) = {}
  BY AppendShape
<1>4. t = IF Len(a) > AuditMaxLen THEN Tail(a) ELSE a
  BY DEF Recorded, Newest
<1> HIDE DEF a, t
<1>5. CASE Len(a) > AuditMaxLen
  <2>1. t = Tail(a) /\ Len(t) = AuditMaxLen /\ t \in Seq(Entry)
    BY <1>1, <1>4, <1>5
  <2>2. /\ \A v : LastSays(a, p, v) => LastSays(t, p, v)
        /\ Linked(a, p) => Linked(t, p)
    BY <1>1, <2>1, TailKeepsOrder
  <2> QED
    BY <1>1, <1>2, <2>1, <2>2 DEF t
<1>6. CASE ~(Len(a) > AuditMaxLen)
  <2>1. t = a /\ Len(s) < AuditMaxLen /\ Len(t) <= AuditMaxLen
    BY <1>1, <1>4, <1>6
  <2> QED
    BY <1>1, <1>2, <1>3, <2>1 DEF t
<1> QED
  BY <1>5, <1>6

\* A parameter has the value that its newest entry names.
HoldsFor(p) ==
  /\ LastSays(audit, p, params[p])
  /\ About(audit, p) = {} => params[p] = None \/ Len(audit) = AuditMaxLen

StreamInv ==
  /\ Len(audit) <= AuditMaxLen
  /\ \A p \in Param \ unaudited : (phase = "audit" /\ ThisParam = p) \/ HoldsFor(p)
  /\ phase = "audit" /\ ThisParam \notin unaudited => params[ThisParam] = proposed

LEMMA StreamInvHolds == StreamInv => NewestEntryHolds
BY DEF StreamInv, NewestEntryHolds, HoldsFor, LastSays, About, EntriesOf

LEMMA InitStream == Init => StreamInv
<1> SUFFICES ASSUME Init PROVE StreamInv
  OBVIOUS
<1>1. audit = <<>> /\ Len(audit) = 0 /\ AuditMaxLen \in Nat
  BY ParamTuningAssumption DEF Init
<1>2. \A p : About(audit, p) = {}
  BY <1>1 DEF About
<1> QED
  BY <1>1, <1>2 DEF Init, StreamInv, HoldsFor, LastSays

\* A parameter nobody writes, in a stream nobody adds to, still has the value.
LEMMA UntouchedHolds ==
  ASSUME NEW p, HoldsFor(p), params'[p] = params[p], UNCHANGED audit
  PROVE  HoldsFor(p)'
BY DEF HoldsFor

LEMMA StepStream == TuningInv /\ StreamInv /\ [Move]_vars => StreamInv'
<1> SUFFICES ASSUME TuningInv, StreamInv, [Move]_vars PROVE StreamInv'
  OBVIOUS
<1>0. /\ params \in [Param -> Value] /\ audit \in Seq(Entry) /\ ThisParam \in Param
      /\ unaudited \subseteq Param
      /\ phase \in {"set", "audit"} => current \in Int /\ proposed \in Int
  BY ThisParamIsParam DEF TuningInv, CycleTypeOK
<1>a. ASSUME UNCHANGED registry, phase # "audit", phase' # "audit" PROVE StreamInv'
  BY <1>a DEF StreamInv, registry, HoldsFor
<1>1. ASSUME NEW recent, FetchClosed(recent) PROVE StreamInv'
  BY <1>a, <1>1 DEF FetchClosed
<1>2. CASE FetchClosedFails
  BY <1>a, <1>2 DEF FetchClosedFails, NextStrategy
<1>3. ASSUME NEW reply \in Reply, Decide(reply) PROVE StreamInv'
  BY <1>a, <1>3 DEF Decide, Continue, NextStrategy
<1>4. ASSUME NEW reply \in Reply, WriteParam(reply) PROVE StreamInv'
  <2>1. /\ phase = "set" /\ UNCHANGED audit
        /\ \A p \in Param \ {ThisParam} : params'[p] = params[p]
    BY <1>0, <1>4 DEF WriteParam
  <2>2. \A p \in Param \ {ThisParam} : p \notin unaudited' => p \notin unaudited /\ HoldsFor(p)'
    BY <1>4, <2>1, UntouchedHolds DEF StreamInv, WriteParam
  <2>3. CASE reply = "answered"
    <3>1. phase' = "audit" /\ UNCHANGED <<cursor, nudge>> /\ params'[ThisParam] = proposed
      BY <1>0, <1>4, <2>3 DEF WriteParam
    <3>2. ThisParam' = ThisParam
      BY <3>1 DEF ThisParam, cursor
    <3> QED
      BY <2>1, <2>2, <3>1, <3>2 DEF StreamInv, nudge
  <2>4. CASE reply # "answered"
    <3>1. phase' # "audit"
      BY <1>4, <2>4 DEF WriteParam, Continue, NextStrategy
    <3>2. ASSUME NEW p \in Param, p \notin unaudited' PROVE HoldsFor(p)'
      <4>1. CASE p # ThisParam
        BY <2>2, <3>2, <4>1
      <4>2. CASE p = ThisParam /\ reply = "request_lost"
        <5>1. UNCHANGED <<params, audit, unaudited>>
          BY <1>4, <4>2 DEF WriteParam
        <5>2. HoldsFor(p)
          BY <2>1, <3>2, <5>1 DEF StreamInv
        <5> QED
          BY <5>1, <5>2, UntouchedHolds
      <4>3. CASE p = ThisParam /\ reply = "reply_lost"
        BY <1>4, <3>2, <4>3 DEF WriteParam
      <4> QED
        BY <2>4, <4>1, <4>2, <4>3, ParamTuningAssumption DEF Reply, FailureKinds
    <3>3. \A p \in Param \ unaudited' : HoldsFor(p)'
      BY <3>2
    <3> QED
      BY <2>1, <3>1, <3>3 DEF StreamInv
  <2> QED
    BY <2>3, <2>4
<1>5. ASSUME NEW reply \in Reply, AuditParam(reply) PROVE StreamInv'
  <2>1. phase = "audit" /\ phase' # "audit" /\ UNCHANGED params
    BY <1>5 DEF AuditParam, Continue, NextStrategy
  <2>2. CASE reply = "request_lost"
    <3>1. UNCHANGED audit /\ unaudited' = unaudited \cup {ThisParam}
      BY <1>5, <2>2 DEF AuditParam
    <3>2. \A p \in Param \ unaudited' : HoldsFor(p)'
      BY <2>1, <3>1, UntouchedHolds DEF StreamInv
    <3> QED
      BY <2>1, <3>1, <3>2 DEF StreamInv
  <2>3. CASE reply # "request_lost"
    <3>1. audit' = Recorded(audit, AuditEntry) /\ UNCHANGED unaudited
      BY <1>5, <2>3 DEF AuditParam, Recorded
    <3>2. /\ AuditEntry \in Entry /\ AuditEntry.param = ThisParam
          /\ AuditEntry.new = proposed
      BY <1>0, <2>1 DEF AuditEntry, Entry
    <3>3. ASSUME NEW p \in Param \ unaudited PROVE HoldsFor(p)'
      <4>1. /\ Len(audit') <= AuditMaxLen
            /\ AuditEntry.param = p => LastSays(audit', p, AuditEntry.new)
            /\ AuditEntry.param # p /\ LastSays(audit, p, params[p]) => LastSays(audit', p, params[p])
            /\ \/ Len(audit') = AuditMaxLen
               \/ /\ Len(audit) < AuditMaxLen
                  /\ About(audit', p) = {} => AuditEntry.param # p /\ About(audit, p) = {}
        BY <1>0, <3>1, <3>2, RecordedShape DEF StreamInv
      <4>2. CASE p = ThisParam
        BY <2>1, <3>2, <4>1, <4>2, <3>3 DEF StreamInv, HoldsFor
      <4>3. CASE p # ThisParam
        <5>1. HoldsFor(p)
          BY <3>3, <4>3 DEF StreamInv
        <5>2. Len(audit) \in Nat /\ AuditMaxLen \in Nat
          BY <1>0, ParamTuningAssumption
        <5> QED
          BY <2>1, <3>2, <4>1, <4>3, <5>1, <5>2 DEF HoldsFor
      <4> QED
        BY <4>2, <4>3
    <3>4. Len(audit') <= AuditMaxLen
      BY <1>0, <3>1, <3>2, RecordedShape DEF StreamInv
    <3> QED
      BY <2>1, <3>1, <3>3, <3>4 DEF StreamInv
  <2> QED
    BY <2>2, <2>3
<1>6. ASSUME NEW q \in Param, NEW value \in ManualValues, SetByHand(q, value) PROVE StreamInv'
  <2>1. /\ \A p \in Param \ {q} : params'[p] = params[p]
        /\ unaudited' = unaudited \cup {q} /\ UNCHANGED <<audit, phase, cursor, proposed>>
    BY <1>0, <1>6 DEF SetByHand
  <2>2. ThisParam' = ThisParam
    BY <2>1 DEF ThisParam, cursor
  <2>3. ASSUME NEW p \in Param \ unaudited'
        PROVE  (phase = "audit" /\ ThisParam = p) \/ HoldsFor(p)'
    BY <2>1, <2>3, UntouchedHolds DEF StreamInv
  <2> QED
    BY <1>0, <2>1, <2>2, <2>3 DEF StreamInv
<1>7. CASE Restart
  <2>1. phase' # "audit" /\ UNCHANGED <<params, audit>>
        /\ unaudited' = IF phase = "audit" THEN unaudited \cup {ThisParam} ELSE unaudited
    BY <1>7 DEF Restart
  <2>2. \A p \in Param \ unaudited' : HoldsFor(p)'
    BY <2>1, UntouchedHolds DEF StreamInv
  <2> QED
    BY <2>1, <2>2 DEF StreamInv
<1>8. CASE UNCHANGED vars
  <2>1. ThisParam' = ThisParam
    BY <1>8 DEF vars, ThisParam, cursor
  <2> QED
    BY <1>8, <2>1 DEF vars, registry, nudge, StreamInv, HoldsFor
<1> QED
  BY <1>1, <1>2, <1>3, <1>4, <1>5, <1>6, <1>7, <1>8 DEF Move

\* Whatever calls fail, whoever edits the registry and whenever the process dies,
\* a parameter whose last change was audited has the value of its newest entry.
THEOREM TheStreamIsTrue == Spec => []NewestEntryHolds
BY TuningInvHolds, InitStream, StepStream, StreamInvHolds, NextMoves, PTL DEF Spec

\* The explanation, as long as calls to Redis are answered, nobody edits the
\* registry and the process lives; queries may still fail.  What a nudge starts
\* from is what the stream says last.
QuietMove == \/ \E recent : FetchClosed(recent)
             \/ FetchClosedFails
             \/ Decide("answered") \/ WriteParam("answered") \/ AuditParam("answered")

StartsWhereItEnded(p, v) ==
  /\ LastSays(audit, p, v)
  /\ About(audit, p) = {} => v = Bounds[p].default \/ Len(audit) = AuditMaxLen

ExplainInv ==
  /\ unaudited = {}
  /\ phase = "set" => current = get_param(ThisParam, "answered")
  /\ phase = "audit" => StartsWhereItEnded(ThisParam, current)
  /\ \A p \in Param : /\ Linked(audit, p)
                      /\ FirstSays(audit, p, Bounds[p].default) \/ Len(audit) = AuditMaxLen

LEMMA ExplainInvHolds == ExplainInv /\ NewestEntryHolds => AuditExplainsRegistry
<1> SUFFICES ASSUME ExplainInv, NewestEntryHolds PROVE AuditExplainsRegistry
  OBVIOUS
<1>1. \A p \in Param : EntriesOf(p) = About(audit, p)
  BY DEF EntriesOf, About
<1> QED
  BY <1>1 DEF ExplainInv, AuditExplainsRegistry, Linked, FirstSays

LEMMA InitExplain == Init => ExplainInv
<1> SUFFICES ASSUME Init PROVE ExplainInv
  OBVIOUS
<1>1. \A p : About(audit, p) = {}
  BY DEF Init, About
<1> QED
  BY <1>1 DEF Init, ExplainInv, Linked, FirstSays

\* The value read is the one of the newest entry, or the default.
LEMMA ReadIsLast ==
  ASSUME CycleTypeOK, NEW p \in Param, HoldsFor(p)
  PROVE  StartsWhereItEnded(p, get_param(p, "answered"))
<1>1. \A i \in About(audit, p) : audit[i].new \in Int
  <2>1. \A i \in DOMAIN audit : audit[i] \in Entry
    BY DEF CycleTypeOK
  <2> QED
    BY <2>1 DEF About, Entry
<1>2. \A n \in Int : n # None /\ n # Malformed
  BY ParamTuningAssumption
<1>3. ASSUME NEW i \in About(audit, p), \A j \in About(audit, p) : j <= i
      PROVE  audit[i].new = get_param(p, "answered")
  <2>1. params[p] = audit[i].new
    BY <1>3 DEF HoldsFor, LastSays
  <2> QED
    BY <1>1, <1>2, <2>1 DEF get_param
<1>4. ASSUME About(audit, p) = {}
      PROVE  get_param(p, "answered") = Bounds[p].default \/ Len(audit) = AuditMaxLen
  BY <1>4 DEF HoldsFor, get_param
<1> QED
  BY <1>3, <1>4 DEF StartsWhereItEnded, LastSays

LEMMA StepExplain ==
  TuningInv /\ StreamInv /\ ExplainInv /\ [QuietMove]_vars => ExplainInv'
<1> SUFFICES ASSUME TuningInv, StreamInv, ExplainInv, [QuietMove]_vars PROVE ExplainInv'
  OBVIOUS
<1>0. /\ audit \in Seq(Entry) /\ ThisParam \in Param /\ CycleTypeOK
      /\ phase \in {"set", "audit"} => current \in Int /\ proposed \in Int
  BY ThisParamIsParam DEF TuningInv, CycleTypeOK
<1>a. ASSUME UNCHANGED registry, phase' \in {"fetch", "get"} PROVE ExplainInv'
  BY <1>a DEF ExplainInv, registry
<1>1. ASSUME NEW recent, FetchClosed(recent) PROVE ExplainInv'
  BY <1>a, <1>1 DEF FetchClosed
<1>2. CASE FetchClosedFails
  BY <1>a, <1>2 DEF FetchClosedFails, NextStrategy
<1>3. CASE Decide("answered")
  <2>1. UNCHANGED registry
    BY <1>3 DEF Decide
  <2>2. \/ phase' \in {"fetch", "get"}
        \/ /\ phase' = "set" /\ UNCHANGED cursor
           /\ current' = get_param(ThisParam, "answered")
    BY <1>3 DEF Decide, Continue, NextStrategy
  <2>3. CASE phase' = "set" /\ UNCHANGED cursor
             /\ current' = get_param(ThisParam, "answered")
    <3>1. ThisParam' = ThisParam
      BY <2>3 DEF ThisParam, cursor
    <3> QED
      BY <2>1, <2>3, <3>1 DEF ExplainInv, registry, get_param
  <2> QED
    BY <1>a, <2>1, <2>2, <2>3
<1>4. CASE WriteParam("answered")
  <2>1. /\ phase = "set" /\ phase' = "audit" /\ UNCHANGED <<audit, cursor, nudge>>
        /\ unaudited' = unaudited \ {ThisParam}
    BY <1>4 DEF WriteParam
  <2>2. ThisParam' = ThisParam
    BY <2>1 DEF ThisParam, cursor
  <2>3. StartsWhereItEnded(ThisParam, current)
    BY <1>0, <2>1, ReadIsLast DEF ExplainInv, StreamInv
  <2> QED
    BY <2>1, <2>2, <2>3 DEF ExplainInv, StartsWhereItEnded, nudge
<1>5. CASE AuditParam("answered")
  <2>1. /\ phase = "audit" /\ phase' \in {"fetch", "get"}
        /\ audit' = Recorded(audit, AuditEntry) /\ UNCHANGED unaudited
    BY <1>5 DEF AuditParam, Continue, NextStrategy, Recorded
  <2>2. /\ AuditEntry \in Entry /\ AuditEntry.param = ThisParam
        /\ AuditEntry.old = current
    BY <1>0, <2>1 DEF AuditEntry, Entry
  <2>3. StartsWhereItEnded(ThisParam, current)
    BY <2>1 DEF ExplainInv
  <2>4. Len(audit) \in Nat /\ AuditMaxLen \in Nat
    BY <1>0, ParamTuningAssumption
  <2>5. ASSUME NEW p \in Param
        PROVE  /\ Linked(audit', p)
               /\ FirstSays(audit', p, Bounds[p].default) \/ Len(audit') = AuditMaxLen
    <3>1. /\ Linked(audit, p) /\ (AuditEntry.param = p => LastSays(audit, p, AuditEntry.old))
               => Linked(audit', p)
          /\ \/ Len(audit') = AuditMaxLen
             \/ /\ Len(audit) < AuditMaxLen
                /\ FirstSays(audit, p, Bounds[p].default)
                     /\ (AuditEntry.param = p /\ About(audit, p) = {}
                           => AuditEntry.old = Bounds[p].default)
                   => FirstSays(audit', p, Bounds[p].default)
      BY <1>0, <2>1, <2>2, RecordedShape DEF StreamInv
    <3>2. AuditEntry.param = p => LastSays(audit, p, AuditEntry.old)
      BY <2>2, <2>3 DEF StartsWhereItEnded
    <3>3. Len(audit) < AuditMaxLen =>
            /\ FirstSays(audit, p, Bounds[p].default)
            /\ AuditEntry.param = p /\ About(audit, p) = {} => AuditEntry.old = Bounds[p].default
      BY <2>2, <2>3, <2>4 DEF StartsWhereItEnded, ExplainInv
    <3> QED
      BY <3>1, <3>2, <3>3 DEF ExplainInv
  <2> QED
    BY <2>1, <2>5 DEF ExplainInv
<1>6. CASE UNCHANGED vars
  <2>1. ThisParam' = ThisParam
    BY <1>6 DEF vars, ThisParam, cursor
  <2> QED
    BY <1>6, <2>1 DEF vars, registry, nudge, ExplainInv, StartsWhereItEnded, get_param
<1> QED
  BY <1>1, <1>2, <1>3, <1>4, <1>5, <1>6 DEF QuietMove

LEMMA QueriesOnly == Failures \subseteq {"query_failed"} => Reply = {"answered"}
BY DEF Reply

LEMMA LoopIsQuiet ==
  Failures \subseteq {"query_failed"} /\ [LoopNext]_<<vars, tableVars>> => [QuietMove]_vars
BY QueriesOnly DEF LoopNext, LearningStep, TunerStep, QuietMove, vars

LEMMA TunerIsQuiet ==
  /\ Failures \subseteq {"query_failed"} /\ ManualValues = {} /\ MaxRestarts = 0
  /\ TuningInv /\ [Next]_vars
  => [QuietMove]_vars
<1>1. TuningInv /\ MaxRestarts = 0 => ~Restart
  BY DEF TuningInv, CycleTypeOK, Restart
<1> QED
  BY <1>1, QueriesOnly DEF Next, TuneStep, QuietMove

LEMMA LoopInvariants == LoopSpec => [](TuningInv /\ StreamInv)
<1>1. LoopInit => Init
  BY DEF LoopInit
<1> QED
  BY <1>1, InitTuning, StepTuning, InitStream, StepStream, LoopMoves, PTL DEF LoopSpec

\* While Redis answers and the tuner is the only writer, the stream explains the
\* registry in full: however long it runs, whatever it learns, alone ...
THEOREM TheStreamExplains ==
  ASSUME Failures \subseteq {"query_failed"}, ManualValues = {}, MaxRestarts = 0
  PROVE  Spec => []AuditExplainsRegistry
<1>1. TuningInv /\ [Next]_vars => [QuietMove]_vars
  BY TunerIsQuiet
<1>2. Spec => [](TuningInv /\ StreamInv)
  BY TuningInvHolds, InitStream, StepStream, NextMoves, PTL DEF Spec
<1>3. StreamInv /\ ExplainInv => AuditExplainsRegistry
  BY StreamInvHolds, ExplainInvHolds
<1> QED
  BY <1>1, <1>2, <1>3, InitExplain, StepExplain, PTL DEF Spec

\* ... or on trades made with the values it set.
THEOREM TheStreamExplainsTheLoop ==
  ASSUME Failures \subseteq {"query_failed"}
  PROVE  LoopSpec => []AuditExplainsRegistry
<1>1. LoopInit => Init
  BY DEF LoopInit
<1>2. [LoopNext]_<<vars, tableVars>> => [QuietMove]_vars
  BY LoopIsQuiet
<1>3. StreamInv /\ ExplainInv => AuditExplainsRegistry
  BY StreamInvHolds, ExplainInvHolds
<1> QED
  BY <1>1, <1>2, <1>3, LoopInvariants, InitExplain, StepExplain, PTL DEF LoopSpec

-----------------------------------------------------------------------------
(***************************************************************************)
(* Bins.  A bin has a value's share of the range rounded down, so that     *)
(* larger values have larger bins, and a centre lies in its own bin if     *)
(* bins are two units wide at least.                                       *)
(***************************************************************************)
LEMMA DivisionBounds ==
  \A a \in Int, w \in Nat \ {0} :
    a \div w \in Int /\ (a \div w) * w <= a /\ a < (a \div w) * w + w
OBVIOUS

LEMMA QuotientIs ==
  \A a, q \in Int, w \in Nat \ {0} : q * w <= a /\ a < q * w + w => a \div w = q
OBVIOUS

LEMMA QuotientsGrow ==
  \A a, b \in Int, w \in Nat \ {0} : a <= b => a \div w <= b \div w
OBVIOUS

LEMMA ProductsGrow == \A a, b \in Int, n \in Nat : a <= b => a * n <= b * n
OBVIOUS

LEMMA ProductsTell == \A a, b \in Int, n \in Nat \ {0} : a * n < b * n => a < b
OBVIOUS

LEMMA MinOfTwo == \A m, n \in Int : Min({m, n}) = IF m < n THEN m ELSE n
BY DEF Min

LEMMA BoundsShape ==
  ASSUME NEW bounds, ProperBounds(bounds)
  PROVE  /\ Width(bounds) \in Nat \ {0} /\ bounds.n_bins \in Nat \ {0}
         /\ bounds.bound_min \in Int /\ bounds.bound_max = bounds.bound_min + Width(bounds)
         /\ Bins(bounds) \subseteq Nat /\ \A b \in Bins(bounds) : b < bounds.n_bins
BY DEF ProperBounds, Width, Bins

\* The bin of a value in bounds, in terms of products only.
LEMMA BinMeans ==
  ASSUME NEW bounds, ProperBounds(bounds), NEW v \in Int, InBounds(v, bounds)
  PROVE  LET b    == _value_to_bin(v, bounds)
             part == (v - bounds.bound_min) * bounds.n_bins
         IN /\ b \in Bins(bounds) /\ part \in Int
            /\ b = IF part \div Width(bounds) < bounds.n_bins - 1
                   THEN part \div Width(bounds) ELSE bounds.n_bins - 1
            /\ b * Width(bounds) <= part
            /\ b # bounds.n_bins - 1 => part < b * Width(bounds) + Width(bounds)
<1> DEFINE w == Width(bounds)
           n == bounds.n_bins
           u == v - bounds.bound_min
           part == u * n
           k == part \div w
           b == _value_to_bin(v, bounds)
<1>1. /\ w \in Nat \ {0} /\ n \in Nat \ {0} /\ u \in 0..w /\ v # None
  BY BoundsShape, SharpeAssumption DEF InBounds, ProperBounds, Width
<1>2. b = Min({k, n - 1})
  BY <1>1 DEF _value_to_bin
<1>3. Bins(bounds) = 0..(n - 1)
  BY DEF Bins
<1> HIDE DEF b, k
<1>4. part \in Nat
  BY <1>1, ProductOfNats
<1> HIDE DEF w, n, u, part
<1>5. k \in Int /\ k * w <= part /\ part < k * w + w
  BY <1>1, <1>4, DivisionBounds DEF k
<1>6. k \in Nat
  <2>1. k = part \div w /\ part \in Nat /\ w \in Nat \ {0}
    BY <1>1, <1>4 DEF k
  <2>2. \A x \in Nat, y \in Nat \ {0} : x \div y \in Nat
    OBVIOUS
  <2> QED
    BY <2>1, <2>2
<1>7. b = IF k < n - 1 THEN k ELSE n - 1
  BY <1>1, <1>2, <1>6, MinOfTwo
<1>8. b * w <= part
  <2>1. b \in Int /\ b <= k
    BY <1>1, <1>6, <1>7
  <2>2. b * w <= k * w
    BY <1>1, <1>6, <2>1, ProductsGrow
  <2>3. b * w \in Int /\ k * w \in Int
    BY <1>1, <1>6, <2>1
  <2> QED
    BY <1>4, <1>5, <2>2, <2>3
<1>9. b \in 0..(n - 1) /\ (b # n - 1 => b = k)
  BY <1>1, <1>6, <1>7
<1>10. part \in Int
  BY <1>4
<1>11. b # n - 1 => part < b * w + w
  BY <1>5, <1>9
<1> QED
  BY <1>3, <1>7, <1>8, <1>9, <1>10, <1>11 DEF b, w, n, u, part, k

LEMMA BinType ==
  ASSUME NEW bounds, ProperBounds(bounds), NEW v, _value_to_bin(v, bounds) # None
  PROVE  v \in Int /\ InBounds(v, bounds) /\ _value_to_bin(v, bounds) \in Bins(bounds)
<1>1. InBounds(v, bounds) /\ v \in Int
  BY DEF _value_to_bin, InBounds, ProperBounds
<1> QED
  BY <1>1, BinMeans

LEMMA BinsGrow ==
  ASSUME NEW bounds, ProperBounds(bounds), NEW u \in Int, NEW v \in Int,
         InBounds(u, bounds), InBounds(v, bounds), u <= v
  PROVE  _value_to_bin(u, bounds) <= _value_to_bin(v, bounds)
<1> DEFINE w == Width(bounds)
           n == bounds.n_bins
           pu == (u - bounds.bound_min) * n
           pv == (v - bounds.bound_min) * n
<1>1. w \in Nat \ {0} /\ n \in Nat \ {0} /\ bounds.bound_min \in Int
  BY BoundsShape
<1>2. /\ pu \in Int
      /\ _value_to_bin(u, bounds) = IF pu \div w < n - 1 THEN pu \div w ELSE n - 1
  BY BinMeans
<1>3. /\ pv \in Int
      /\ _value_to_bin(v, bounds) = IF pv \div w < n - 1 THEN pv \div w ELSE n - 1
  BY BinMeans
<1>4. pu <= pv
  <2>1. /\ u - bounds.bound_min \in Int /\ v - bounds.bound_min \in Int
        /\ u - bounds.bound_min <= v - bounds.bound_min
    BY <1>1
  <2> QED
    BY <1>1, <2>1, ProductsGrow
<1> HIDE DEF w, n, pu, pv
<1>5. pu \div w <= pv \div w /\ pu \div w \in Int /\ pv \div w \in Int
  BY <1>1, <1>2, <1>3, <1>4, QuotientsGrow, DivisionBounds
<1> QED
  BY <1>1, <1>2, <1>3, <1>5

\* The centre of a bin lies within the bounds, however narrow the bins are.
LEMMA CenterIsInBounds ==
  ASSUME NEW bounds, ProperBounds(bounds), NEW b \in Bins(bounds)
  PROVE  InBounds(Center(b, bounds), bounds)
<1> DEFINE w == Width(bounds)
           n == bounds.n_bins
           y == 2 * (b * w) + w
           x == y \div (2 * n)
<1>1. /\ w \in Nat \ {0} /\ n \in Nat \ {0} /\ b \in Nat /\ b < n
      /\ bounds.bound_min \in Int /\ bounds.bound_max = bounds.bound_min + w
  BY BoundsShape
<1>2. Center(b, bounds) = bounds.bound_min + ((2 * b + 1) * w) \div (2 * n)
  BY DEF Center
<1> HIDE DEF w, n
<1>3. b * w \in Nat /\ (2 * b + 1) * w = y
  BY <1>1, ProductOfNats
<1>4. y \in Nat /\ 2 * n \in Nat \ {0}
  BY <1>1, <1>3
<1>5. b * w + w <= n * w /\ n * w \in Int
  <2>1. b + 1 \in Int /\ n \in Int /\ b + 1 <= n /\ w \in Nat
    BY <1>1
  <2>2. (b + 1) * w <= n * w
    BY <2>1, ProductsGrow
  <2> QED
    BY <1>1, <2>2
<1>6. y < 2 * (n * w)
  BY <1>1, <1>3, <1>5
<1> HIDE DEF y
<1>7. x \in Nat
  <2>1. \A u \in Nat, v \in Nat \ {0} : u \div v \in Nat
    OBVIOUS
  <2> QED
    BY <1>4, <2>1
<1>8. x * (2 * n) <= y
  BY <1>4, DivisionBounds
<1> HIDE DEF x
<1>9. x < w
  <2>1. x * n < w * n
    BY <1>1, <1>4, <1>6, <1>7, <1>8
  <2> QED
    BY <1>1, <1>7, <2>1, ProductsTell
<1>10. Center(b, bounds) = bounds.bound_min + x
  BY <1>2, <1>3 DEF x
<1> QED
  BY <1>1, <1>7, <1>9, <1>10 DEF InBounds

WideBins(bounds) == 2 * bounds.n_bins <= Width(bounds)

LEMMA CenterIsInItsBin ==
  ASSUME NEW bounds, ProperBounds(bounds), WideBins(bounds), NEW b \in Bins(bounds)
  PROVE  /\ Center(b, bounds) \in Int /\ InBounds(Center(b, bounds), bounds)
         /\ _value_to_bin(Center(b, bounds), bounds) = b
<1> DEFINE w == Width(bounds)
           n == bounds.n_bins
           x == ((2 * b + 1) * w) \div (2 * n)
           c == Center(b, bounds)
<1>1. /\ w \in Nat \ {0} /\ n \in Nat \ {0} /\ b \in Nat /\ b < n /\ 2 * n <= w
      /\ bounds.bound_min \in Int /\ bounds.bound_max = bounds.bound_min + w
  BY BoundsShape DEF WideBins
<1>2. c = bounds.bound_min + x
  BY DEF Center
<1> HIDE DEF w, n, c
<1>3. b * w \in Nat /\ (2 * b + 1) * w = 2 * (b * w) + w
  BY <1>1, ProductOfNats
<1>4. x \in Int /\ x * (2 * n) <= 2 * (b * w) + w /\ 2 * (b * w) + w < x * (2 * n) + 2 * n
  <2>1. 2 * (b * w) + w \in Int /\ 2 * n \in Nat \ {0} /\ x = (2 * (b * w) + w) \div (2 * n)
    BY <1>1, <1>3
  <2> HIDE DEF x
  <2> QED
    BY <2>1, DivisionBounds
<1> HIDE DEF x
<1>5. x * n \in Int /\ x * (2 * n) = 2 * (x * n)
  BY <1>1, <1>4
<1>6. b * w < x * n /\ x * n < b * w + w
  BY <1>1, <1>3, <1>4, <1>5
<1>7. 0 <= x
  <2>1. 0 * n < x * n
    BY <1>1, <1>3, <1>5, <1>6
  <2> QED
    BY <1>1, <1>4, <2>1, ProductsTell
<1>8. x < w
  <2>1. (b + 1) * w <= n * w
    <3>1. b + 1 \in Int /\ n \in Int /\ b + 1 <= n /\ w \in Nat
      BY <1>1
    <3> QED
      BY <3>1, ProductsGrow
  <2>2. (b + 1) * w = b * w + w /\ n * w = w * n /\ w * n \in Int
    BY <1>1
  <2>3. x * n < w * n
    BY <1>1, <1>3, <1>5, <1>6, <2>1, <2>2
  <2> QED
    BY <1>1, <1>4, <2>3, ProductsTell
<1>9. c \in Int /\ InBounds(c, bounds) /\ c - bounds.bound_min = x
  BY <1>1, <1>2, <1>4, <1>7, <1>8 DEF InBounds
<1>10. (x * n) \div w = b
  BY <1>1, <1>3, <1>5, <1>6, QuotientIs
<1>11. _value_to_bin(c, bounds) = IF b < n - 1 THEN b ELSE n - 1
  BY <1>9, <1>10, BinMeans DEF n, w
<1> QED
  BY <1>1, <1>9, <1>11 DEF c

-----------------------------------------------------------------------------
(***************************************************************************)
(* The closed loop.  Every value in force, in a snapshot or on its way to  *)
(* the registry is in a bin between two that were tried, or in none; a     *)
(* nudge ends between where it starts and a centre of such a bin.          *)
(***************************************************************************)
Reach(p) == {b \in Bins(Bounds[p]) : \E low, high \in Tried(p) : low <= b /\ b <= high}
Within(p, v) == _value_to_bin(v, Bounds[p]) \in Reach(p)
Known(p, v)  == _value_to_bin(v, Bounds[p]) \in Reach(p) \cup {None}

LEMMA ReachShape ==
  ASSUME NEW p \in Param
  PROVE  Tried(p) \subseteq Bins(Bounds[p]) /\ Tried(p) \subseteq Reach(p)
         /\ Bins(Bounds[p]) \subseteq Nat /\ None \notin Reach(p)
<1>1. ProperBounds(Bounds[p])
  BY BoundsAreProper
<1>2. Tried(p) \subseteq Bins(Bounds[p])
  BY <1>1, BinType DEF Tried
<1>3. Bins(Bounds[p]) \subseteq Nat
  BY <1>1, BoundsShape
<1>4. Tried(p) \subseteq Reach(p)
  BY <1>2, <1>3 DEF Reach
<1> QED
  BY <1>2, <1>3, <1>4, SharpeAssumption DEF Reach

LEMMA WithinType ==
  ASSUME NEW p \in Param, NEW v, Within(p, v)
  PROVE  v \in Int /\ InBounds(v, Bounds[p])
BY ReachShape, BoundsAreProper, BinType DEF Within

LEMMA DefaultIsWithin ==
  ASSUME NEW p \in Param
  PROVE  Within(p, Bounds[p].default)
<1>1. InBounds(Bounds[p].default, Bounds[p]) /\ ProperBounds(Bounds[p])
  BY ParamTuningAssumption, BoundsAreProper
<1>2. Bounds[p].default \in Int
  BY <1>1 DEF InBounds, ProperBounds
<1>3. _value_to_bin(Bounds[p].default, Bounds[p]) \in Bins(Bounds[p])
  BY <1>1, <1>2, BinMeans
<1>4. _value_to_bin(Bounds[p].default, Bounds[p]) # None
  BY <1>3, ReachShape, SharpeAssumption
<1>5. _value_to_bin(Bounds[p].default, Bounds[p]) \in Tried(p)
  BY <1>4 DEF Tried
<1> QED
  BY <1>5, ReachShape DEF Within

LEMMA HistoryIsKnown ==
  ASSUME NEW p \in Param, NEW a \in Alpha, History[a] # None
  PROVE  Known(p, History[a][p])
<1>1. _value_to_bin(History[a][p], Bounds[p]) \in Tried(p) \cup {None}
  BY DEF Tried
<1> QED
  BY <1>1, ReachShape DEF Known

\* What lies between two values within reach is within reach.
LEMMA BetweenIsWithin ==
  ASSUME NEW p \in Param, NEW u, NEW v, NEW x \in Int, Within(p, u), Within(p, v),
         u <= x, x <= v
  PROVE  Within(p, x)
<1> DEFINE bounds == Bounds[p]
           bin(y) == _value_to_bin(y, bounds)
<1>1. /\ u \in Int /\ v \in Int /\ InBounds(u, bounds) /\ InBounds(v, bounds)
      /\ ProperBounds(bounds)
  BY WithinType, BoundsAreProper
<1>2. InBounds(x, bounds)
  BY <1>1 DEF InBounds, ProperBounds
<1>3. bin(u) <= bin(x) /\ bin(x) <= bin(v) /\ bin(x) \in Bins(bounds)
  BY <1>1, <1>2, BinsGrow, BinMeans
<1>4. PICK low \in Tried(p) : low <= bin(u)
  BY DEF Within, Reach
<1>5. PICK high \in Tried(p) : bin(v) <= high
  BY DEF Within, Reach
<1>6. /\ low \in Nat /\ high \in Nat /\ bin(x) \in Nat /\ bin(u) \in Nat /\ bin(v) \in Nat
  BY <1>3, ReachShape DEF Within, Reach
<1>7. low <= bin(x) /\ bin(x) <= high
  BY <1>3, <1>4, <1>5, <1>6
<1> QED
  BY <1>3, <1>7 DEF Within, Reach

\* A nudge neither overshoots nor turns away.
LEMMA NudgeIsBetween ==
  ASSUME NEW bounds, ProperBounds(bounds), NEW value \in Int, NEW target \in Int,
         InBounds(value, bounds), InBounds(target, bounds)
  PROVE  LET new == Nudged(value, target, bounds)
         IN /\ new \in Int
            /\ \/ value <= new /\ new <= target
               \/ target <= new /\ new <= value
<1> DEFINE step == Capped(value, target, bounds)
<1>1. MaxStep(bounds) \in Nat
  BY MaxStepType
<1>2. /\ step \in Int
      /\ \/ 0 <= step /\ step <= target - value
         \/ target - value <= step /\ step <= 0
  <2> DEFINE d == target - value
             m == MaxStep(bounds)
  <2>1. step = IF (IF d < 0 THEN -d ELSE d) <= m THEN d ELSE IF target > value THEN m ELSE -m
    BY DEF Capped, Magnitude
  <2>2. d \in Int /\ (target > value <=> d > 0) /\ m \in Nat
    BY <1>1
  <2> HIDE DEF d, m, step
  <2>3. /\ step \in Int
        /\ (0 <= step /\ step <= d) \/ (d <= step /\ step <= 0)
    BY <2>1, <2>2
  <2> QED
    BY <2>3 DEF d
<1> HIDE DEF step
<1>3. Clamp(value + step, bounds) = value + step
  BY <1>2 DEF Clamp, InBounds, ProperBounds
<1> QED
  BY <1>2, <1>3 DEF Nudged, step

LEMMA ScoredBinHasATrade ==
  ASSUME NEW bounds, NEW closed, NEW b \in ScoredBins(bounds, closed)
  PROVE  InBin(b, bounds, closed) # {}
<1> SUFFICES ASSUME InBin(b, bounds, closed) = {} PROVE FALSE
  OBVIOUS
<1> DEFINE s == [i \in InBin(b, bounds, closed) |-> closed[i].pnl]
<1>1. DOMAIN s = {}
  OBVIOUS
<1>2. Size(s) = 0
  BY <1>1, FS_EmptySet DEF Size
<1>3. sharpe_proxy(s) = None
  BY <1>2 DEF sharpe_proxy
<1> QED
  BY <1>3 DEF ScoredBins, BinSharpe

LEMMA DecisionStaysWithin ==
  ASSUME NEW p \in Param, WideBins(Bounds[p]), NEW value, Within(p, value), NEW closed,
         \A i \in DOMAIN closed : Known(p, closed[i].at), NEW n,
         NEW new \in tune_param(Bounds[p], value, closed, n)
  PROVE  Within(p, new)
<1> DEFINE bounds == Bounds[p]
<1>1. CASE new = value
  BY <1>1
<1>2. CASE new # value
  <2>1. PICK b \in BestBins(bounds, closed) : new = Nudged(value, Center(b, bounds), bounds)
    BY <1>2 DEF tune_param
  <2>2. b \in ScoredBins(bounds, closed) /\ b \in Bins(bounds)
    BY <2>1 DEF BestBins, ScoredBins
  <2>3. PICK i \in DOMAIN closed : _value_to_bin(closed[i].at, bounds) = b
    BY <2>2, ScoredBinHasATrade DEF InBin
  <2>4. b \in Reach(p)
    BY <2>2, <2>3, ReachShape, SharpeAssumption DEF Known
  <2> DEFINE c == Center(b, bounds)
  <2>5. c \in Int /\ InBounds(c, bounds) /\ _value_to_bin(c, bounds) = b
    BY <2>2, BoundsAreProper, CenterIsInItsBin
  <2>6. Within(p, c)
    BY <2>4, <2>5 DEF Within
  <2>7. value \in Int /\ InBounds(value, bounds)
    BY WithinType
  <2>8. /\ new \in Int
        /\ \/ value <= new /\ new <= c
           \/ c <= new /\ new <= value
    BY <2>1, <2>5, <2>7, BoundsAreProper, NudgeIsBetween
  <2> HIDE DEF c
  <2> QED
    BY <2>6, <2>8, BetweenIsWithin
<1> QED
  BY <1>1, <1>2

\* Within reach is what TunerNeverExplores asks for.
LEMMA WithinMeans ==
  ASSUME NEW p \in Param, NEW v, Within(p, v)
  PROVE  \E low, high \in Tried(p) :
           v \in (Bounds[p].bound_min + (low * Width(Bounds[p])) \div Bounds[p].n_bins)..
                 (Bounds[p].bound_min + ((high + 1) * Width(Bounds[p])) \div Bounds[p].n_bins)
<1> DEFINE bounds == Bounds[p]
           w == Width(bounds)
           n == bounds.n_bins
           b == _value_to_bin(v, bounds)
           u == v - bounds.bound_min
<1>1. ProperBounds(bounds) /\ v \in Int /\ InBounds(v, bounds)
  BY WithinType, BoundsAreProper
<1>2. PICK low \in Tried(p), high \in Tried(p) : low <= b /\ b <= high
  BY DEF Within, Reach
<1>3. /\ w \in Nat \ {0} /\ n \in Nat \ {0} /\ bounds.bound_min \in Int /\ u \in 0..w
      /\ low \in Nat /\ high \in Nat /\ high < n
  BY <1>1, ReachShape, BoundsShape DEF InBounds, ProperBounds, Width
<1>4. /\ b \in Nat /\ u * n \in Int /\ b * w <= u * n
      /\ b # n - 1 => u * n < b * w + w
  BY <1>1, ReachShape, BinMeans
<1> HIDE DEF w, n, b, u
<1>5. (low * w) \div n <= u
  <2>1. low * w <= b * w /\ low * w \in Int /\ b * w \in Int
    BY <1>2, <1>3, <1>4, ProductsGrow
  <2>2. (low * w) \div n <= (u * n) \div n
    BY <1>3, <1>4, <2>1, QuotientsGrow
  <2>3. (u * n) \div n = u
    BY <1>3, <1>4, QuotientIs
  <2> QED
    BY <2>2, <2>3
<1>6. u <= ((high + 1) * w) \div n
  <2>1. u * n <= (high + 1) * w
    <3>1. CASE b = n - 1
      <4>1. high + 1 = n
        BY <1>2, <1>3, <1>4, <3>1
      <4>2. u * n <= w * n
        BY <1>3, ProductsGrow
      <4> QED
        BY <1>3, <4>1, <4>2
    <3>2. CASE b # n - 1
      <4>1. (b + 1) * w <= (high + 1) * w
        BY <1>2, <1>3, <1>4, ProductsGrow
      <4>2. (b + 1) * w = b * w + w /\ b * w \in Int /\ (high + 1) * w \in Int
        BY <1>3, <1>4
      <4> QED
        BY <1>3, <1>4, <3>2, <4>1, <4>2
    <3> QED
      BY <3>1, <3>2
  <2>2. (u * n) \div n <= ((high + 1) * w) \div n
    <3>1. (high + 1) * w \in Int
      BY <1>3
    <3> QED
      BY <1>3, <1>4, <2>1, <3>1, QuotientsGrow
  <2>3. (u * n) \div n = u
    BY <1>3, <1>4, QuotientIs
  <2> QED
    BY <2>2, <2>3
<1>7. (low * w) \div n \in Int /\ ((high + 1) * w) \div n \in Int
  <2>1. low * w \in Int /\ (high + 1) * w \in Int
    BY <1>3
  <2> QED
    BY <1>3, <2>1, DivisionBounds
<1>8. v \in (bounds.bound_min + (low * w) \div n)..(bounds.bound_min + ((high + 1) * w) \div n)
  BY <1>1, <1>3, <1>5, <1>6, <1>7 DEF u
<1> QED
  BY <1>2, <1>8 DEF w, n

\* The tables and the tuner, all within reach.
LoopInv ==
  /\ \A p \in Param : params[p] \in {None, Malformed} \/ Within(p, params[p])
  /\ phase \in {"set", "audit"} => Within(ThisParam, proposed)
  /\ \A i \in DOMAIN rows : \A p \in Param : Known(p, rows[i].at[p])
  /\ DOMAIN emitted = Alpha /\ DOMAIN outcomes = Alpha
  /\ \A a \in Alpha : emitted[a] # None =>
       \A p \in Param : Known(p, emitted[a].params[p])
  /\ \A a \in Alpha : outcomes[a] # None =>
       "params" \in DOMAIN outcomes[a] /\ \A p \in Param : Known(p, outcomes[a].params[p])

LEMMA ReadIsWithin ==
  ASSUME NEW p \in Param, params[p] \in {None, Malformed} \/ Within(p, params[p]), NEW reply
  PROVE  Within(p, get_param(p, reply))
BY DefaultIsWithin DEF get_param

LEMMA InitLoop == LoopInit => LoopInv
<1> SUFFICES ASSUME LoopInit PROVE LoopInv
  OBVIOUS
<1>1. /\ params = [p \in Param |-> None] /\ phase = "fetch" /\ rows = <<>>
      /\ emitted = [a \in Alpha |-> IF History[a] = None THEN None
                                    ELSE [emitted_at |-> 0, params |-> History[a]]]
      /\ outcomes = [a \in Alpha |-> IF History[a] = None THEN None
                                     ELSE Learning!NewRow(emitted[a])]
  BY DEF LoopInit, Init
<1>2. ASSUME NEW a \in Alpha, emitted[a] # None, NEW p \in Param
      PROVE  Known(p, emitted[a].params[p])
  <2>1. History[a] # None /\ emitted[a].params = History[a]
    BY <1>1, <1>2
  <2> QED
    BY <2>1, HistoryIsKnown
<1>3. ASSUME NEW a \in Alpha, outcomes[a] # None
      PROVE  "params" \in DOMAIN outcomes[a] /\ \A p \in Param : Known(p, outcomes[a].params[p])
  <2>1. /\ History[a] # None /\ emitted[a].params = History[a]
        /\ outcomes[a] = Learning!NewRow(emitted[a])
    BY <1>1, <1>3
  <2>2. "params" \in DOMAIN outcomes[a] /\ outcomes[a].params = History[a]
    BY <2>1 DEF Learning!NewRow
  <2> QED
    BY <2>1, <2>2, HistoryIsKnown
<1> QED
  BY <1>1, <1>2, <1>3 DEF LoopInv

\* What the tuner fetches are rows of the table.
LEMMA FetchedRows ==
  ASSUME NEW alphas, alphas \in Learning!fetch_recent_closed(AlphasOf[turn], ClosedLimit, DaysWindow),
         turn \in DOMAIN Strategies, NEW i \in DOMAIN alphas
  PROVE  alphas[i] \in Alpha /\ outcomes[alphas[i]] # None
<1> DEFINE closed == Learning!ClosedWithin(AlphasOf[turn], DaysWindow)
           n == Learning!Cardinality(closed)
           newest == {s \in [1..n -> closed] :
                        \A k, l \in 1..n :
                          k < l => /\ s[k] # s[l]
                                   /\ outcomes[s[l]].emitted_at <= outcomes[s[k]].emitted_at}
           m == IF n < ClosedLimit THEN n ELSE ClosedLimit
<1>1. closed \subseteq Alpha /\ \A a \in closed : outcomes[a] # None
  BY ClosedLoopAssumption DEF Learning!ClosedWithin
<1>2. n \in Nat
  <2>1. n = Cardinality(closed)
    BY DEF Cardinality, Learning!Cardinality
  <2> QED
    BY <1>1, <2>1, FS_Subset, FS_CardinalityType, ClosedLoopAssumption
<1>3. PICK s \in [1..n -> closed] : alphas = [j \in 1..m |-> s[j]]
  <2>1. alphas \in {[j \in 1..m |-> s[j]] : s \in newest}
    <3>1. Learning!fetch_recent_closed(AlphasOf[turn], ClosedLimit, DaysWindow)
            = {[j \in 1..m |-> s[j]] : s \in newest}
      BY Zenon DEF Learning!fetch_recent_closed
    <3> QED
      BY <3>1
  <2>2. newest \subseteq [1..n -> closed]
    OBVIOUS
  <2> HIDE DEF newest, closed, n, m
  <2> QED
    BY <2>1, <2>2
<1>4. i \in 1..n /\ alphas[i] = s[i]
  BY <1>2, <1>3, ClosedLoopAssumption
<1> QED
  BY <1>1, <1>3, <1>4

BinsAreWide == \A p \in Param : WideBins(Bounds[p])

LEMMA StepTuner ==
  ASSUME BinsAreWide, TuningInv, LoopInv, TunerStep
  PROVE  LoopInv'
<1>0. /\ params \in [Param -> Value] /\ ThisParam \in Param /\ turn \in DOMAIN Strategies
      /\ UNCHANGED tableVars
  BY ThisParamIsParam DEF TuningInv, CycleTypeOK, TunerStep
<1>1. /\ DOMAIN emitted' = Alpha /\ DOMAIN outcomes' = Alpha
      /\ \A a \in Alpha : emitted'[a] # None =>
           \A p \in Param : Known(p, emitted'[a].params[p])
      /\ \A a \in Alpha : outcomes'[a] # None =>
           "params" \in DOMAIN outcomes'[a] /\ \A p \in Param : Known(p, outcomes'[a].params[p])
  BY <1>0 DEF LoopInv, tableVars
<1>a. ASSUME \A p \in Param : params'[p] \in {None, Malformed} \/ Within(p, params'[p]),
             phase' \in {"set", "audit"} => ThisParam' = ThisParam /\ Within(ThisParam, proposed'),
             \A i \in DOMAIN rows' : \A p \in Param : Known(p, rows'[i].at[p])
      PROVE  LoopInv'
  BY <1>1, <1>a DEF LoopInv
<1>b. \A p \in Param : params[p] \in {None, Malformed} \/ Within(p, params[p])
  BY DEF LoopInv
<1>c. \A i \in DOMAIN rows : \A p \in Param : Known(p, rows[i].at[p])
  BY DEF LoopInv
<1>d. UNCHANGED rows \/ rows' = <<>> => \A i \in DOMAIN rows' : \A p \in Param : Known(p, rows'[i].at[p])
  BY <1>c
<1>2. ASSUME NEW alphas \in Learning!fetch_recent_closed(AlphasOf[turn], ClosedLimit, DaysWindow),
             FetchClosed([i \in DOMAIN alphas |-> ClosedOutcome(alphas[i])])
      PROVE  LoopInv'
  <2>1. /\ UNCHANGED params /\ phase' = "get"
        /\ rows' = [i \in DOMAIN alphas |-> ClosedOutcome(alphas[i])]
    BY <1>2 DEF FetchClosed, registry
  <2>2. ASSUME NEW i \in DOMAIN rows', NEW p \in Param PROVE Known(p, rows'[i].at[p])
    <3>1. i \in DOMAIN alphas /\ rows'[i].at = outcomes[alphas[i]].params
      BY <2>1 DEF ClosedOutcome
    <3>2. alphas[i] \in Alpha /\ outcomes[alphas[i]] # None
      BY <1>0, <3>1, FetchedRows
    <3> QED
      BY <3>1, <3>2 DEF LoopInv
  <2> QED
    BY <1>a, <1>b, <2>1, <2>2
<1>3. CASE FetchClosedFails
  BY <1>3, <1>a, <1>b, <1>d DEF FetchClosedFails, NextStrategy, registry
<1>4. ASSUME NEW reply \in Reply, Decide(reply) PROVE LoopInv'
  <2> DEFINE value == get_param(ThisParam, reply)
  <2>1. PICK new \in Decisions(ThisParam, value) :
          \/ Continue
          \/ phase' = "set" /\ proposed' = new /\ UNCHANGED cursor
    BY <1>4 DEF Decide
  <2>2. Within(ThisParam, new)
    <3>1. Within(ThisParam, value)
      BY <1>0, <1>b, ReadIsWithin
    <3> DEFINE closed == ClosedFor(ThisParam)
    <3>2. \A i \in DOMAIN closed : Known(ThisParam, closed[i].at)
      BY <1>0, <1>c DEF ClosedFor
    <3>3. new \in tune_param(Bounds[ThisParam], value, closed, MinSamples)
      BY <2>1 DEF Decisions
    <3> HIDE DEF closed, value
    <3> QED
      BY <1>0, <3>1, <3>2, <3>3, DecisionStaysWithin DEF BinsAreWide
  <2>3. UNCHANGED params
    BY <1>4 DEF Decide, registry
  <2>4. CASE Continue
    BY <1>a, <1>b, <1>d, <2>3, <2>4 DEF Continue, NextStrategy
  <2>5. CASE phase' = "set" /\ proposed' = new /\ UNCHANGED cursor
    BY <1>a, <1>b, <1>d, <2>2, <2>3, <2>5 DEF cursor, ThisParam
  <2> QED
    BY <2>1, <2>4, <2>5
<1>5. ASSUME NEW reply \in Reply, WriteParam(reply) PROVE LoopInv'
  <2>1. Within(ThisParam, proposed)
    BY <1>5 DEF LoopInv, WriteParam
  <2>2. \A p \in Param : params'[p] = params[p] \/ (p = ThisParam /\ params'[p] = proposed)
    BY <1>0, <1>5 DEF WriteParam
  <2>3. \A p \in Param : params'[p] \in {None, Malformed} \/ Within(p, params'[p])
    BY <1>b, <2>1, <2>2
  <2>4. \/ UNCHANGED <<cursor, nudge>>
        \/ Continue
    BY <1>5 DEF WriteParam
  <2>5. CASE UNCHANGED <<cursor, nudge>>
    BY <1>a, <1>d, <2>1, <2>3, <2>5 DEF cursor, nudge, ThisParam
  <2>6. CASE Continue
    BY <1>a, <1>d, <2>3, <2>6 DEF Continue, NextStrategy
  <2> QED
    BY <2>4, <2>5, <2>6
<1>6. ASSUME NEW reply \in Reply, AuditParam(reply) PROVE LoopInv'
  BY <1>6, <1>a, <1>b, <1>d DEF AuditParam, Continue, NextStrategy
<1> QED
  BY <1>2, <1>3, <1>4, <1>5, <1>6 DEF TunerStep

LEMMA StepLearning ==
  ASSUME TuningInv, LoopInv, LearningStep
  PROVE  LoopInv'
<1>0. UNCHANGED vars
  BY DEF LearningStep
<1>1. ThisParam' = ThisParam
  BY <1>0 DEF vars, cursor, ThisParam
<1>a. ASSUME DOMAIN emitted' = Alpha, DOMAIN outcomes' = Alpha,
             \A a \in Alpha : emitted'[a] # None =>
               \A p \in Param : Known(p, emitted'[a].params[p]),
             \A a \in Alpha : outcomes'[a] # None =>
               "params" \in DOMAIN outcomes'[a] /\ \A p \in Param : Known(p, outcomes'[a].params[p])
      PROVE  LoopInv'
  BY <1>0, <1>1, <1>a DEF LoopInv, vars, registry, cursor, nudge
<1>2. ASSUME NEW a \in Alpha, Learning!Emit(a, InForce) PROVE LoopInv'
  <2>1. /\ UNCHANGED outcomes
        /\ emitted' = [emitted EXCEPT ![a] = [emitted_at |-> 0, params |-> InForce]]
    BY <1>2 DEF Learning!Emit
  <2>2. \A p \in Param : Known(p, InForce[p])
    BY ReadIsWithin DEF InForce, LoopInv, Known, Within
  <2>3. \A b \in Alpha : emitted'[b] = emitted[b] \/ emitted'[b].params = InForce
    BY <2>1 DEF LoopInv
  <2> QED
    BY <1>a, <2>1, <2>2, <2>3 DEF LoopInv
<1>3. ASSUME NEW t \in Trade, NEW pnl \in Pnl, Learning!CloseTrade(t, pnl) PROVE LoopInv'
  BY <1>3, <1>a DEF Learning!CloseTrade, LoopInv
<1>4. ASSUME NEW a \in Alpha, Learning!capture_emit(a) PROVE LoopInv'
  <2>1. /\ UNCHANGED emitted /\ emitted[a] # None
        /\ outcomes' = [outcomes EXCEPT ![a] = IF outcomes[a] = None
                                               THEN Learning!NewRow(emitted[a]) ELSE outcomes[a]]
    BY <1>4 DEF Learning!capture_emit, Learning!Inserted
  <2>2. /\ "params" \in DOMAIN Learning!NewRow(emitted[a])
        /\ Learning!NewRow(emitted[a]).params = emitted[a].params
    BY DEF Learning!NewRow
  <2>3. \A b \in Alpha : \/ outcomes'[b] = outcomes[b]
                         \/ b = a /\ outcomes'[b] = Learning!NewRow(emitted[a])
    BY <2>1 DEF LoopInv
  <2>4. DOMAIN outcomes' = Alpha
    BY <2>1 DEF LoopInv
  <2> QED
    BY <1>a, <2>1, <2>2, <2>3, <2>4 DEF LoopInv
<1>5. CASE Learning!run_outcome_join
  <2> DEFINE due == {a \in Alpha : Learning!Matching(a) # {}}
  <2>1. UNCHANGED emitted
    BY <1>5 DEF Learning!run_outcome_join
  <2>2. PICK position :
          outcomes' = [a \in Alpha |-> IF a \in due THEN Learning!Joined(a, position[a])
                                       ELSE outcomes[a]]
    BY <1>5 DEF Learning!run_outcome_join
  <2>3. \A a \in due : outcomes[a] # None
    BY DEF Learning!Matching, Learning!Open
  <2>4. ASSUME NEW a \in due, NEW t, outcomes[a] # None
        PROVE  /\ "params" \in DOMAIN Learning!Joined(a, t)
               /\ Learning!Joined(a, t).params = outcomes[a].params
    <3>1. "params" \in DOMAIN outcomes[a]
      BY <2>4 DEF LoopInv
    <3> QED
      BY <3>1 DEF Learning!Joined
  <2> HIDE DEF due
  <2>5. ASSUME NEW a \in Alpha, outcomes'[a] # None
        PROVE  "params" \in DOMAIN outcomes'[a] /\ \A p \in Param : Known(p, outcomes'[a].params[p])
    <3>1. CASE a \in due
      <4>1. outcomes'[a] = Learning!Joined(a, position[a])
        BY <2>2, <3>1
      <4>2. outcomes[a] # None
        BY <2>3, <3>1
      <4> QED
        BY <2>4, <3>1, <4>1, <4>2 DEF LoopInv
    <3>2. CASE a \notin due
      BY <2>2, <2>5, <3>2 DEF LoopInv
    <3> QED
      BY <3>1, <3>2
  <2> QED
    BY <1>a, <2>1, <2>2, <2>5 DEF LoopInv
<1> QED
  BY <1>2, <1>3, <1>4, <1>5 DEF LearningStep

\* A parameter stays between the lowest and the highest bin in which its default
\* or the past has put it, for any trades, any order of captures and joins and
\* any failure of Redis or of the query.
THEOREM NeverExplores ==
  ASSUME BinsAreWide
  PROVE  LoopSpec => []TunerNeverExplores
<1>1. LoopInv => TunerNeverExplores
  BY ReadIsWithin, WithinMeans DEF LoopInv, TunerNeverExplores
<1>2. TuningInv /\ LoopInv /\ [LoopNext]_<<vars, tableVars>> => LoopInv'
  <2> SUFFICES ASSUME TuningInv, LoopInv, [LoopNext]_<<vars, tableVars>> PROVE LoopInv'
    OBVIOUS
  <2>1. CASE UNCHANGED <<vars, tableVars>>
    BY <2>1 DEF vars, registry, cursor, nudge, tableVars, LoopInv, ThisParam
  <2> QED
    BY <2>1, StepTuner, StepLearning DEF LoopNext
<1> QED
  BY <1>1, <1>2, InitLoop, LoopInvariants, PTL DEF LoopSpec
-----------------------------------------------------------------------------
(***************************************************************************)
(* How far a cycle can move a parameter.  The places of Strategies that    *)
(* the cycle has passed are counted; each allows for one step.             *)
(***************************************************************************)
Places == UNION {{i} \X DOMAIN Strategies[i] : i \in DOMAIN Strategies}

UpTo(t, n, p) ==
  {visit \in Places : /\ visit[1] < t \/ (visit[1] = t /\ visit[2] <= n)
                      /\ Strategies[visit[1]][visit[2]] = p}

LEMMA PlacesAre ==
  ASSUME NEW visit
  PROVE  visit \in Places <=> /\ visit = <<visit[1], visit[2]>>
                              /\ visit[1] \in DOMAIN Strategies
                              /\ visit[2] \in DOMAIN Strategies[visit[1]]
BY DEF Places

LEMMA PlacesAreFinite == IsFiniteSet(Places)
<1> DEFINE D == DOMAIN Strategies
           f == [i \in D |-> {i} \X DOMAIN Strategies[i]]
           S == {{i} \X DOMAIN Strategies[i] : i \in D}
<1>1. IsFiniteSet(D)
  BY StrategiesShape, FS_Interval
<1>2. f \in Surjection(D, S)
  BY DEF Surjection
<1>3. IsFiniteSet(S)
  BY <1>1, <1>2, FS_Surjection
<1>4. ASSUME NEW i \in D PROVE IsFiniteSet({i} \X DOMAIN Strategies[i])
  <2>1. IsFiniteSet(DOMAIN Strategies[i])
    BY StrategiesShape, FS_Interval
  <2>2. IsFiniteSet({i})
    BY FS_Singleton
  <2> QED
    BY <2>1, <2>2, FS_Product
<1> QED
  BY <1>3, <1>4, FS_UNION DEF Places

LEMMA VisitsAre == CycleTypeOK => \A p : Visits(p) = UpTo(turn, next, p)
<1> SUFFICES ASSUME CycleTypeOK, NEW p, NEW visit
             PROVE  visit \in Visits(p) <=> visit \in UpTo(turn, next, p)
  OBVIOUS
<1>1. turn \in DOMAIN Strategies /\ DOMAIN Strategies = 1..Len(Strategies)
      /\ Len(Strategies) \in Nat
  BY StrategiesShape DEF CycleTypeOK
<1>2. visit \in UNION {{i} \X DOMAIN Strategies[i] : i \in 1..turn}
        <=> visit \in Places /\ visit[1] <= turn
  BY <1>1 DEF Places
<1>3. visit \in Places => visit[1] \in Int
  BY <1>1, PlacesAre
<1> QED
  BY <1>1, <1>2, <1>3 DEF Visits, UpTo

\* The further the cycle, the more it has passed; coming to p is one more.
LEMMA UpToCounts ==
  ASSUME NEW t \in Int, NEW n \in Int, NEW p
  PROVE  /\ Cardinality(UpTo(t, n, p)) \in Nat
         /\ \A t2, n2 \in Int : t < t2 \/ (t = t2 /\ n <= n2) =>
              Cardinality(UpTo(t, n, p)) <= Cardinality(UpTo(t2, n2, p))
         /\ <<t, n>> \in Places /\ Strategies[t][n] = p =>
              Cardinality(UpTo(t, n, p)) = Cardinality(UpTo(t, n - 1, p)) + 1
<1>1. \A t2, n2 : IsFiniteSet(UpTo(t2, n2, p)) /\ Cardinality(UpTo(t2, n2, p)) \in Nat
  <2>1. \A t2, n2 : UpTo(t2, n2, p) \subseteq Places
    BY DEF UpTo
  <2> QED
    BY <2>1, PlacesAreFinite, FS_Subset, FS_CardinalityType
<1>2. \A visit \in Places : visit[1] \in Int /\ visit[2] \in Int /\ visit = <<visit[1], visit[2]>>
  BY PlacesAre, StrategiesShape
<1>3. ASSUME NEW t2 \in Int, NEW n2 \in Int, t < t2 \/ (t = t2 /\ n <= n2)
      PROVE  Cardinality(UpTo(t, n, p)) <= Cardinality(UpTo(t2, n2, p))
  <2>1. UpTo(t, n, p) \subseteq UpTo(t2, n2, p)
    BY <1>2, <1>3 DEF UpTo
  <2> QED
    BY <1>1, <2>1, FS_Subset
<1>4. ASSUME <<t, n>> \in Places, Strategies[t][n] = p
      PROVE  Cardinality(UpTo(t, n, p)) = Cardinality(UpTo(t, n - 1, p)) + 1
  <2>1. <<t, n>> \notin UpTo(t, n - 1, p)
    BY DEF UpTo
  <2>2. UpTo(t, n, p) = UpTo(t, n - 1, p) \cup {<<t, n>>}
    <3> SUFFICES ASSUME NEW visit \in Places
                 PROVE  visit \in UpTo(t, n, p) <=> visit \in UpTo(t, n - 1, p) \/ visit = <<t, n>>
      BY <1>4 DEF UpTo
    <3>1. visit[1] \in Int /\ visit[2] \in Int /\ visit = <<visit[1], visit[2]>>
      BY <1>2
    <3> QED
      BY <1>4, <3>1 DEF UpTo
  <2> QED
    BY <1>1, <2>1, <2>2, FS_AddElement
<1> QED
  BY <1>1, <1>3, <1>4

LEMMA MoreSteps ==
  /\ \A m, n, s \in Nat : m <= n => m * s <= n * s
  /\ \A n, s \in Nat : n * s \in Nat /\ (n + 1) * s = n * s + s
<1>1. \A n, s \in Nat : n * s \in Nat /\ (n + 1) * s = n * s + s
  OBVIOUS
<1>2. ASSUME NEW m \in Nat, NEW n \in Nat, NEW s \in Nat, m <= n PROVE m * s <= n * s
  <2>1. n - m \in Nat /\ (n - m) * s \in Nat
    BY <1>1, <1>2
  <2>2. n * s = m * s + (n - m) * s
    OBVIOUS
  <2> QED
    BY <1>1, <2>1, <2>2
<1> QED
  BY <1>1, <1>2

\* The place at hand counts from the HSET on.
Reached == IF phase = "audit" THEN next ELSE next - 1

Allowance(t, n, p) == Cardinality(UpTo(t, n, p)) * MaxStep(Bounds[p])

CycleInv ==
  \A p \in Param :
    /\ InBounds(Held(p), Bounds[p])
    /\ at_start[p] \in Int
    /\ Magnitude(Held(p) - at_start[p]) <= Allowance(turn, Reached, p)

LEMMA AllowanceGrows ==
  ASSUME NEW t \in Int, NEW n \in Int, NEW p \in Param
  PROVE  /\ Allowance(t, n, p) \in Nat
         /\ \A t2, n2 \in Int : t < t2 \/ (t = t2 /\ n <= n2) =>
              Allowance(t, n, p) <= Allowance(t2, n2, p)
         /\ <<t, n>> \in Places /\ Strategies[t][n] = p =>
              Allowance(t, n, p) = Allowance(t, n - 1, p) + MaxStep(Bounds[p])
<1>1. MaxStep(Bounds[p]) \in Nat
  BY BoundsAreProper, MaxStepType
<1>2. \A t2, n2 \in Int : Cardinality(UpTo(t2, n2, p)) \in Nat
  BY UpToCounts
<1>3. \A t2, n2 \in Int : t < t2 \/ (t = t2 /\ n <= n2) =>
        Cardinality(UpTo(t, n, p)) <= Cardinality(UpTo(t2, n2, p))
  BY UpToCounts
<1>4. <<t, n>> \in Places /\ Strategies[t][n] = p =>
        Cardinality(UpTo(t, n, p)) = Cardinality(UpTo(t, n - 1, p)) + 1
  BY UpToCounts
<1> DEFINE steps == MaxStep(Bounds[p])
<1> HIDE DEF steps
<1>5. \A k \in Nat : k * steps \in Nat /\ (k + 1) * steps = k * steps + steps
  BY <1>1, MoreSteps DEF steps
<1>6. \A m, k \in Nat : m <= k => m * steps <= k * steps
  BY <1>1, MoreSteps DEF steps
<1>7. \A t2, n2 : Allowance(t2, n2, p) = Cardinality(UpTo(t2, n2, p)) * steps
  BY DEF Allowance, steps
<1>8. Allowance(t, n, p) \in Nat
  BY <1>2, <1>5, <1>7
<1>9. \A t2, n2 \in Int : t < t2 \/ (t = t2 /\ n <= n2) => Allowance(t, n, p) <= Allowance(t2, n2, p)
  BY <1>2, <1>3, <1>6, <1>7
<1>10. <<t, n>> \in Places /\ Strategies[t][n] = p =>
         Allowance(t, n, p) = Allowance(t, n - 1, p) + steps
  <2>1. n - 1 \in Int
    OBVIOUS
  <2> QED
    BY <1>2, <1>4, <1>5, <1>7, <2>1
<1> QED
  BY <1>8, <1>9, <1>10 DEF steps

LEMMA StepCycle ==
  ASSUME Failures \subseteq {"query_failed"}, TuningInv, ExplainInv, CycleInv, CycleNext
  PROVE  CycleInv'
<1>0. /\ CycleTypeOK /\ CycleTypeOK' /\ NudgesAreSafe
      /\ ThisParam \in Param /\ params \in [Param -> Value]
      /\ [QuietMove]_vars
  <2>1. LoopNext
    BY DEF CycleNext
  <2>2. [Move]_vars
    BY <2>1, LoopMoves
  <2> QED
    BY <2>1, <2>2, StepTuning, LoopIsQuiet, ThisParamIsParam DEF TuningInv, CycleTypeOK
<1>1. /\ turn \in Int /\ turn' \in Int /\ next \in Int /\ next' \in Int
      /\ <<turn, next>> \in Places
      /\ Reached \in Int /\ Reached' \in Int /\ Reached <= next /\ next' - 1 <= Reached'
  BY <1>0, StrategiesShape DEF CycleTypeOK, Places, Reached
<1>2. \A p \in Param : Bounds[p].default \in Int /\ Bounds[p].bound_min \in Int /\ Bounds[p].bound_max \in Int
  BY ParamTuningAssumption DEF InBounds
<1>3. \A p \in Param : Held(p) \in Int /\ Held(p)' \in Int
  BY <1>0, <1>2 DEF Held, CycleTypeOK, Value
<1>4. \A p \in Param : InBounds(Held(p), Bounds[p]) /\ at_start[p] \in Int
                       /\ Magnitude(Held(p) - at_start[p]) <= Allowance(turn, Reached, p)
  BY DEF CycleInv
<1>a. ASSUME phase' = "fetch", turn' = 1, \A p \in Param : InBounds(Held(p)', Bounds[p])
      PROVE  CycleInv'
  <2>1. \A p \in Param : at_start'[p] = Held(p)'
    BY <1>a DEF CycleNext, InForce, get_param, Held
  <2>2. \A p \in Param : Allowance(turn', Reached', p) \in Nat
    BY <1>1, AllowanceGrows
  <2>3. \A v \in Int : Magnitude(v - v) = 0
    BY DEF Magnitude
  <2>4. \A p \in Param : /\ at_start'[p] \in Int
                         /\ Magnitude(Held(p)' - at_start'[p]) <= Allowance(turn', Reached', p)
    BY <1>3, <2>1, <2>2, <2>3
  <2> QED
    BY <1>a, <2>4 DEF CycleInv, Allowance, UpTo
<1>b. ASSUME phase' # "fetch" \/ turn' # 1, UNCHANGED params,
             turn < turn' \/ (turn = turn' /\ Reached <= Reached')
      PROVE  CycleInv'
  <2>1. UNCHANGED at_start /\ \A p \in Param : Held(p)' = Held(p)
    BY <1>b DEF CycleNext, Held
  <2>2. \A p \in Param : /\ Allowance(turn, Reached, p) \in Nat
                         /\ Allowance(turn', Reached', p) \in Nat
                         /\ Allowance(turn, Reached, p) <= Allowance(turn', Reached', p)
    BY <1>1, <1>b, AllowanceGrows
  <2>3. \A p \in Param : Magnitude(Held(p) - at_start[p]) \in Int
    BY <1>3, <1>4 DEF Magnitude
  <2>4. \A p \in Param : Magnitude(Held(p) - at_start[p]) <= Allowance(turn', Reached', p)
    BY <1>4, <2>2, <2>3
  <2>5. \A p \in Param :
          /\ InBounds(Held(p)', Bounds[p]) /\ at_start'[p] \in Int
          /\ Magnitude(Held(p)' - at_start'[p]) <= Allowance(turn', Reached', p)
    BY <1>4, <2>1, <2>4
  <2> QED
    BY <2>5 DEF CycleInv, Allowance, UpTo
<1>c. ASSUME UNCHANGED params, NextStrategy PROVE CycleInv'
  <2>1. CASE turn' = 1
    BY <1>4, <1>a, <1>c, <2>1 DEF NextStrategy, Held
  <2>2. CASE turn' # 1
    <3>1. turn < turn'
      BY <1>1, <1>c, <2>2 DEF NextStrategy, FollowingTurn
    <3> QED
      BY <1>b, <1>c, <2>2, <3>1
  <2> QED
    BY <2>1, <2>2
<1>d. ASSUME UNCHANGED params, Continue PROVE CycleInv'
  <2>1. CASE NextStrategy
    BY <1>c, <1>d, <2>1
  <2>2. CASE phase' = "get" /\ next' = next + 1 /\ UNCHANGED <<turn, rows>>
    BY <1>1, <1>b, <1>d, <2>2
  <2> QED
    BY <1>d, <2>1, <2>2 DEF Continue
<1>5. CASE UNCHANGED vars
  <2>1. UNCHANGED <<params, phase, turn, next>>
    BY <1>5 DEF vars, registry, cursor
  <2>2. CASE phase' = "fetch" /\ turn' = 1
    BY <1>4, <1>a, <2>1, <2>2 DEF Held
  <2>3. CASE phase' # "fetch" \/ turn' # 1
    BY <1>1, <1>b, <2>1, <2>3 DEF Reached
  <2> QED
    BY <2>2, <2>3
<1>6. ASSUME NEW recent, FetchClosed(recent) PROVE CycleInv'
  <2>1. phase = "fetch" /\ phase' = "get" /\ UNCHANGED <<params, turn, next>>
    BY <1>6 DEF FetchClosed, registry
  <2> QED
    BY <1>1, <1>b, <2>1 DEF Reached
<1>7. CASE FetchClosedFails
  BY <1>7, <1>c DEF FetchClosedFails, registry
<1>8. CASE Decide("answered")
  <2>1. CASE Continue
    BY <1>8, <1>d, <2>1 DEF Decide, registry
  <2>2. CASE phase' = "set" /\ UNCHANGED cursor
    BY <1>1, <1>8, <1>b, <2>2 DEF Decide, registry, cursor, Reached
  <2> QED
    BY <1>8, <2>1, <2>2 DEF Decide
<1>9. CASE WriteParam("answered")
  <2>1. /\ phase = "set" /\ phase' = "audit" /\ UNCHANGED <<turn, next>>
        /\ params' = [params EXCEPT ![ThisParam] = proposed]
    BY <1>9 DEF WriteParam, cursor
  <2>2. proposed \in Int /\ current = Held(ThisParam) /\ InBounds(proposed, Bounds[ThisParam])
        /\ Magnitude(proposed - current) <= MaxStep(Bounds[ThisParam])
    BY <1>0, <1>4, <2>1, AnsweredReadIsHeld DEF CycleTypeOK, NudgesAreSafe, ExplainInv
  <2>3. Reached = next - 1 /\ Reached' = next
    BY <2>1 DEF Reached
  <2>4. UNCHANGED at_start /\ next - 1 \in Int
    BY <1>1, <2>1 DEF CycleNext
  <2>5. ASSUME NEW p \in Param
        PROVE  /\ InBounds(Held(p)', Bounds[p])
               /\ Magnitude(Held(p)' - at_start[p]) <= Allowance(turn, next, p)
    <3>1. CASE p # ThisParam
      <4>1. Held(p)' = Held(p)
        BY <1>0, <2>1, <3>1 DEF Held
      <4>2. /\ Allowance(turn, next - 1, p) \in Nat /\ Allowance(turn, next, p) \in Nat
            /\ Allowance(turn, next - 1, p) <= Allowance(turn, next, p)
        <5>1. \A n \in Int :
                /\ Allowance(turn, n, p) \in Nat
                /\ \A n2 \in Int : n <= n2 => Allowance(turn, n, p) <= Allowance(turn, n2, p)
          BY <1>1, AllowanceGrows
        <5>2. next - 1 <= next
          BY <1>1
        <5> QED
          BY <1>1, <2>4, <5>1, <5>2
      <4>3. Magnitude(Held(p) - at_start[p]) \in Int
        BY <1>3, <1>4 DEF Magnitude
      <4> QED
        BY <1>4, <2>3, <4>1, <4>2, <4>3
    <3>2. CASE p = ThisParam
      <4>1. Held(p)' = proposed
        BY <1>0, <2>1, <2>2, <3>2, ParamTuningAssumption DEF Held
      <4>2. Allowance(turn, next, p) = Allowance(turn, next - 1, p) + MaxStep(Bounds[p])
        BY <1>1, <3>2, AllowanceGrows DEF ThisParam
      <4>3. Allowance(turn, next - 1, p) \in Nat /\ MaxStep(Bounds[p]) \in Nat
        BY <1>1, <2>4, AllowanceGrows, BoundsAreProper, MaxStepType
      <4>4. Magnitude(Held(p) - at_start[p]) <= Allowance(turn, next - 1, p)
        BY <1>4, <2>3
      <4>5. Magnitude(proposed - Held(p)) <= MaxStep(Bounds[p])
        BY <2>2, <3>2
      <4> QED
        BY <1>3, <1>4, <2>2, <3>2, <4>1, <4>2, <4>3, <4>4, <4>5 DEF Magnitude
    <3> QED
      BY <3>1, <3>2
  <2> QED
    BY <1>4, <2>1, <2>3, <2>4, <2>5 DEF CycleInv, Allowance, UpTo
<1>10. CASE AuditParam("answered")
  BY <1>10, <1>d DEF AuditParam
<1> QED
  BY <1>0, <1>5, <1>6, <1>7, <1>8, <1>9, <1>10 DEF QuietMove

LEMMA InitCycle == CycleInit => CycleInv
<1> SUFFICES ASSUME CycleInit, NEW p \in Param
             PROVE  /\ InBounds(Held(p), Bounds[p]) /\ at_start[p] \in Int
                    /\ Magnitude(Held(p) - at_start[p]) <= Allowance(turn, Reached, p)
  BY DEF CycleInv
<1>1. at_start[p] = Held(p) /\ Held(p) = Bounds[p].default
  BY DEF CycleInit, LoopInit, Init, InForce, get_param, Held
<1>2. InBounds(Bounds[p].default, Bounds[p]) /\ Bounds[p].default \in Int
  BY ParamTuningAssumption DEF InBounds
<1>3. turn \in Int /\ Reached \in Int
  BY DEF CycleInit, LoopInit, Init, Reached
<1>4. Allowance(turn, Reached, p) \in Nat
  BY <1>3, AllowanceGrows
<1> QED
  BY <1>1, <1>2, <1>4 DEF Magnitude

\* However often a strategy is listed, whatever it learns and whatever queries fail,
\* a cycle moves a parameter by no more than MaxStep for each time it comes to it,
\* as long as Redis answers.
THEOREM AStepPerVisit ==
  ASSUME Failures \subseteq {"query_failed"}
  PROVE  CycleSpec => []OneStepPerVisit
<1>1. TuningInv /\ CycleInv => OneStepPerVisit
  <2> SUFFICES ASSUME TuningInv, CycleInv, NEW p \in Param
               PROVE  Magnitude(InForce[p] - at_start[p])
                        <= Cardinality(Visits(p)) * MaxStep(Bounds[p])
    BY DEF OneStepPerVisit
  <2>1. /\ turn \in Int /\ next \in Int /\ Reached \in Int /\ Reached <= next
        /\ Held(p) \in Int /\ at_start[p] \in Int
        /\ InForce[p] = Held(p) /\ Visits(p) = UpTo(turn, next, p)
    BY StrategiesShape, VisitsAre, ReadType, AnsweredReadIsHeld
       DEF TuningInv, CycleTypeOK, CycleInv, Reached, InForce
  <2>2. /\ Allowance(turn, Reached, p) \in Nat /\ Allowance(turn, next, p) \in Nat
        /\ Allowance(turn, Reached, p) <= Allowance(turn, next, p)
    BY <2>1, AllowanceGrows
  <2>3. Magnitude(Held(p) - at_start[p]) <= Allowance(turn, Reached, p)
        /\ Magnitude(Held(p) - at_start[p]) \in Int
    BY <2>1 DEF CycleInv, Magnitude
  <2>4. Magnitude(Held(p) - at_start[p]) <= Allowance(turn, next, p)
    BY <2>2, <2>3
  <2> QED
    BY <2>1, <2>4 DEF Allowance
<1>2. CycleSpec => LoopSpec
  <2>1. CycleInit => LoopInit
    BY DEF CycleInit
  <2>2. [CycleNext]_<<vars, tableVars, at_start>> => [LoopNext]_<<vars, tableVars>>
    BY DEF CycleNext
  <2> QED
    BY <2>1, <2>2, PTL DEF CycleSpec, LoopSpec
<1>3. CycleInit => ExplainInv /\ CycleInv
  BY InitExplain, InitCycle DEF CycleInit, LoopInit
<1>4. /\ TuningInv /\ StreamInv /\ ExplainInv /\ CycleInv
      /\ [CycleNext]_<<vars, tableVars, at_start>>
      => ExplainInv' /\ CycleInv'
  <2> SUFFICES ASSUME TuningInv, StreamInv, ExplainInv, CycleInv,
                      [CycleNext]_<<vars, tableVars, at_start>>
               PROVE  ExplainInv' /\ CycleInv'
    OBVIOUS
  <2>1. ExplainInv'
    BY LoopIsQuiet, StepExplain DEF CycleNext
  <2>2. CASE CycleNext
    BY <2>1, <2>2, StepCycle
  <2>3. CASE UNCHANGED <<vars, tableVars, at_start>>
    BY <2>1, <2>3 DEF vars, registry, cursor, CycleInv, Held, Reached, Allowance, UpTo
  <2> QED
    BY <2>2, <2>3
<1> QED
  BY <1>1, <1>2, <1>3, <1>4, LoopInvariants, PTL DEF CycleSpec

-----------------------------------------------------------------------------
(***************************************************************************)
(* Progress under steady evidence.  That the tuner gets to the best bin is *)
(* a matter of fairness; that no step of it leads away, and every nudge a  *)
(* whole step closer, is not.                                              *)
(***************************************************************************)
Distance(p, bin) == Magnitude(Center(bin, Bounds[p]) - get_param(p, "answered"))

Evidence(p, recent) ==
  [i \in DOMAIN recent |-> [at |-> recent[i].at[p], pnl |-> recent[i].pnl]]

\* A nudge reaches its target or gets MaxStep closer, also from out of bounds.
LEMMA NudgeGetsCloser ==
  ASSUME NEW bounds, ProperBounds(bounds), NEW value \in Int, NEW target \in Int,
         InBounds(target, bounds)
  PROVE  LET new == Nudged(value, target, bounds)
         IN \/ new = target
            \/ Magnitude(target - new) <= Magnitude(target - value) - MaxStep(bounds)
<1> DEFINE step == Capped(value, target, bounds)
           m == MaxStep(bounds)
<1>1. m \in Nat
  BY MaxStepType
<1>2. \/ step = target - value
      \/ step = m /\ target > value /\ target - value > m
      \/ step = -m /\ target < value /\ value - target > m
  BY <1>1 DEF Capped, Magnitude
<1> HIDE DEF step, m
<1>3. \/ Clamp(value + step, bounds) = target
      \/ Magnitude(target - Clamp(value + step, bounds)) <= Magnitude(target - value) - m
  <2>1. CASE step = target - value
    BY <2>1 DEF Clamp, InBounds, ProperBounds
  <2>2. CASE step = m /\ target > value /\ target - value > m
    BY <1>1, <2>2 DEF Clamp, InBounds, ProperBounds, Magnitude
  <2>3. CASE step = -m /\ target < value /\ value - target > m
    BY <1>1, <2>3 DEF Clamp, InBounds, ProperBounds, Magnitude
  <2> QED
    BY <1>2, <2>1, <2>2, <2>3
<1> QED
  BY <1>3 DEF Nudged, step, m

\* Any of the rows that queries may return tell the same.
SameStory(p, best) == \A recent \in Recent : BestBins(Bounds[p], Evidence(p, recent)) = {best}

SteadyInv ==
  /\ phase # "fetch" => rows \in Recent
  /\ phase = "set" => proposed \in Decisions(ThisParam, get_param(ThisParam, "answered"))

LEMMA StepSteady ==
  ASSUME Failures \subseteq {"query_failed"}, ManualValues = {},
         SteadyInv, [Next]_vars
  PROVE  SteadyInv'
<1>a. ASSUME phase' = "fetch" \/ (phase' \in {"get", "audit"} /\ rows' \in Recent)
      PROVE  SteadyInv'
  BY <1>a DEF SteadyInv
<1>b. ASSUME phase # "fetch", Continue PROVE SteadyInv'
  BY <1>a, <1>b DEF Continue, NextStrategy, SteadyInv
<1>1. CASE FetchClosedFails \/ Restart \/ \E found \in Recent : FetchClosed(found)
  BY <1>a, <1>1 DEF FetchClosedFails, NextStrategy, Restart, FetchClosed
<1>2. CASE Decide("answered")
  <2>1. CASE Continue
    BY <1>b, <1>2, <2>1 DEF Decide
  <2>2. CASE /\ proposed' \in Decisions(ThisParam, get_param(ThisParam, "answered"))
             /\ phase' = "set" /\ UNCHANGED cursor
    <3>1. UNCHANGED <<params, rows, turn, next>> /\ rows \in Recent
      BY <1>2, <2>2 DEF Decide, cursor, registry, SteadyInv
    <3> QED
      BY <2>2, <3>1 DEF SteadyInv, ThisParam, Decisions, ClosedFor, get_param
  <2> QED
    BY <1>2, <2>1, <2>2 DEF Decide
<1>3. CASE WriteParam("answered")
  BY <1>a, <1>3 DEF WriteParam, cursor, SteadyInv
<1>4. CASE AuditParam("answered")
  BY <1>b, <1>4 DEF AuditParam
<1>5. CASE UNCHANGED vars
  BY <1>5 DEF vars, registry, cursor, nudge, SteadyInv, ThisParam, Decisions, ClosedFor,
              get_param
<1> QED
  BY <1>1, <1>2, <1>3, <1>4, <1>5, QueriesOnly DEF Next, TuneStep

LEMMA StepGetsCloser ==
  ASSUME Failures \subseteq {"query_failed"}, ManualValues = {},
         NEW p \in Param, NEW best, SameStory(p, best),
         TuningInv, SteadyInv, [Next]_vars
  PROVE  \/ Distance(p, best)' \in {0, Distance(p, best)}
         \/ Distance(p, best)' <= Distance(p, best) - MaxStep(Bounds[p])
<1>1. CASE UNCHANGED params
  BY <1>1 DEF Distance, get_param
<1>2. CASE WriteParam("answered")
  <2> DEFINE value == get_param(p, "answered")
             target == Center(best, Bounds[p])
  <2>1. /\ params \in [Param -> Value] /\ phase = "set" /\ rows \in Recent /\ proposed \in Int
        /\ params' = [params EXCEPT ![ThisParam] = proposed]
    BY <1>2 DEF WriteParam, SteadyInv, TuningInv, CycleTypeOK
  <2>2. CASE p # ThisParam
    <3>1. params'[p] = params[p]
      BY <2>1, <2>2
    <3> QED
      BY <3>1 DEF Distance, get_param
  <2>3. CASE p = ThisParam
    <3>1. params'[p] = proposed /\ proposed \notin {None, Malformed}
      BY <2>1, <2>3, ParamTuningAssumption
    <3>2. Distance(p, best)' = Magnitude(target - proposed)
      BY <3>1 DEF Distance, get_param
    <3>3. proposed \in tune_param(Bounds[p], value, Evidence(p, rows), MinSamples)
      BY <2>1, <2>3 DEF SteadyInv, Decisions, ClosedFor, Evidence
    <3>4. proposed = value \/ proposed = Nudged(value, target, Bounds[p])
      BY <2>1, <3>3 DEF tune_param, SameStory
    <3>5. /\ value \in Int /\ target \in Int /\ InBounds(target, Bounds[p])
          /\ ProperBounds(Bounds[p])
      <4>1. best \in Bins(Bounds[p])
        BY <2>1 DEF SameStory, BestBins, ScoredBins
      <4> QED
        BY <4>1, BoundsAreProper, ReadType, CenterType, CenterIsInBounds DEF TuningInv
    <3> HIDE DEF value, target
    <3>6. proposed \in {value, target}
            \/ Magnitude(target - proposed) <= Magnitude(target - value) - MaxStep(Bounds[p])
      BY <3>4, <3>5, NudgeGetsCloser
    <3>7. Distance(p, best) = Magnitude(target - value) /\ Magnitude(target - target) = 0
      BY <3>5 DEF Distance, value, target, Magnitude
    <3> QED
      BY <3>2, <3>6, <3>7
  <2> QED
    BY <2>2, <2>3
<1> QED
  BY <1>1, <1>2, QueriesOnly
     DEF Next, TuneStep, FetchClosed, FetchClosedFails, Decide, AuditParam, Restart, vars,
         registry

\* From any registry, while the trades keep telling the same story (the same ones
\* in any order, or others with the same best bin), Redis answers and no operator
\* interferes, a parameter never moves away from the centre of its best bin: whenever
\* its distance changes, it has arrived or is MaxStep closer (run_tune_cycle with
\* tune_param, whatever queries fail and crashes come between).
THEOREM SteadyEvidenceDrawsCloser ==
  ASSUME Failures \subseteq {"query_failed"}, ManualValues = {},
         NEW p \in Param, NEW best, SameStory(p, best)
  PROVE  TuningInv /\ phase = "fetch" /\ [][Next]_vars =>
           [][\/ Distance(p, best)' \in {0, Distance(p, best)}
              \/ Distance(p, best)' <= Distance(p, best) - MaxStep(Bounds[p])]_vars
<1>1. phase = "fetch" => SteadyInv
  BY DEF SteadyInv
<1>2. SteadyInv /\ [Next]_vars => SteadyInv'
  BY StepSteady
<1>3. TuningInv /\ SteadyInv /\ [Next]_vars =>
        [\/ Distance(p, best)' \in {0, Distance(p, best)}
         \/ Distance(p, best)' <= Distance(p, best) - MaxStep(Bounds[p])]_vars
  BY StepGetsCloser
<1> QED
  BY <1>1, <1>2, <1>3, StepTuning, NextMoves, PTL
=============================================================================
