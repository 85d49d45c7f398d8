----------------------------- MODULE ClosedLoop ------------------------------
(***************************************************************************)
(* The tuner on the evidence that it makes itself: strategies emit with    *)
(* the parameters in force, the outcome join settles their alphas in       *)
(* feature_outcomes, and the tuner reads them there (LearningLoop) and     *)
(* sets the parameters (ParamTuning).  No operator and no crash: they are  *)
(* in the runs of ParamTuning.  The clock stands still, within all the     *)
(* windows, so that any order of emission is among those of the query.     *)
(***************************************************************************)
EXTENDS ParamTuning

CONSTANTS
  Alpha, Trade, AlphaOf, Pnl,
  AlphasOf,     \* turn -> the alphas of the strategy at that place of Strategies
  DaysWindow,   \* settings.auto_tuner_days_window
  ClosedLimit,  \* settings.auto_tuner_closed_limit
  History       \* Alpha -> the snapshot of an alpha emitted in the past, or None

ASSUME ClosedLoopAssumption ==
  /\ IsFiniteSet(Alpha) /\ AlphasOf \in [DOMAIN Strategies -> SUBSET Alpha]
  /\ AlphaOf \in [Trade -> Alpha] /\ Pnl \subseteq Int \cup {None}
  /\ DaysWindow \in Nat /\ ClosedLimit \in Nat
  /\ History \in [Alpha -> [Param -> Int] \cup {None}]

VARIABLES
  emitted, trades, outcomes,
  at_start  \* history: the values in force when the cycle of the tuner began

tableVars == <<emitted, trades, outcomes>>

Learning == INSTANCE LearningLoop WITH
  Snapshot <- [Param -> Int], Day <- 1, JoinDays <- 1, MaxOutage <- 1,
  LastEmit <- 0, LastClose <- 0, MaxNow <- 0, now <- 0, last_join <- 0

\* Once, parameters had other values, and alphas of that time are still open; the
\* registry has been cleared since.
LoopInit ==
  /\ Init
  /\ emitted = [a \in Alpha |-> IF History[a] = None THEN None
                                ELSE [emitted_at |-> 0, params |-> History[a]]]
  /\ trades = [t \in Trade |-> None]
  /\ outcomes = [a \in Alpha |-> IF History[a] = None THEN None
                                 ELSE Learning!NewRow(emitted[a])]

\* The parameters a strategy runner emits an alpha with: it reads them each time,
\* and falls back to the defaults.
InForce == [p \in Param |-> get_param(p, "answered")]

LearningStep ==
  /\ \/ \E a \in Alpha : Learning!Emit(a, InForce)
     \/ \E t \in Trade, pnl \in Pnl : Learning!CloseTrade(t, pnl)
     \/ \E a \in Alpha : Learning!capture_emit(a)
     \/ Learning!run_outcome_join
  /\ UNCHANGED vars

\* A row as the tuner sees it; a NULL PnL reads as zero.
ClosedOutcome(a) ==
  [at |-> outcomes[a].params, pnl |-> IF outcomes[a].pnl = None THEN 0 ELSE outcomes[a].pnl]

TunerStep ==
  /\ \/ \E alphas \in Learning!fetch_recent_closed(AlphasOf[turn], ClosedLimit, DaysWindow) :
          FetchClosed([i \in DOMAIN alphas |-> ClosedOutcome(alphas[i])])
     \/ FetchClosedFails
     \/ \E reply \in Reply : Decide(reply) \/ WriteParam(reply) \/ AuditParam(reply)
  /\ UNCHANGED tableVars

LoopNext == LearningStep \/ TunerStep

LoopSpec == LoopInit /\ [][LoopNext]_<<vars, tableVars>>

\* The same, with the history.
CycleInit == LoopInit /\ at_start = InForce
CycleNext ==
  /\ LoopNext
  /\ at_start' = IF phase' = "fetch" /\ turn' = 1 THEN InForce' ELSE at_start
CycleSpec == CycleInit /\ [][CycleNext]_<<vars, tableVars, at_start>>

-----------------------------------------------------------------------------
(***************************************************************************)
(* Properties.                                                             *)
(***************************************************************************)
\* The bins a parameter has been in by someone else's choice.
Tried(p) ==
  {_value_to_bin(v, Bounds[p]) : v \in {Bounds[p].default} \cup
     {History[a][p] : a \in {b \in Alpha : History[b] # None}}} \ {None}

\* The tuner exploits and never explores: the evidence for a bin are trades made
\* in it, so that a parameter stays between the lowest and the highest bin that
\* its default and the past have put it in, whatever the trades bring
\* (run_tune_cycle over run_outcome_join and capture_emit).
TunerNeverExplores ==
  \A p \in Param :
    \E low, high \in Tried(p) :
      get_param(p, "answered") \in
        (Bounds[p].bound_min + (low * Width(Bounds[p])) \div Bounds[p].n_bins)..
        (Bounds[p].bound_min + ((high + 1) * Width(Bounds[p])) \div Bounds[p].n_bins)

\* Where the cycle has been, or is, to tune p.
Visits(p) ==
  {visit \in UNION {{i} \X DOMAIN Strategies[i] : i \in 1..turn} :
     /\ visit[1] = turn => visit[2] <= next
     /\ Strategies[visit[1]][visit[2]] = p}

\* A slug listed twice in AUTO_TUNER_STRATEGIES is tuned twice in a cycle
\* (parse_opted_in_strategies keeps it twice), the second time from where the first
\* has left it.  While Redis answers, what a cycle has moved a parameter by never
\* exceeds a step for each time it came to it; not the one step for the cycle that
\* max_step_pct promises.
OneStepPerVisit ==
  \A p \in Param :
    Magnitude(InForce[p] - at_start[p]) <= Cardinality(Visits(p)) * MaxStep(Bounds[p])
=============================================================================
