---------------------------- MODULE LearningLoop -----------------------------
(***************************************************************************)
(* learning_loop.py: the table feature_outcomes, from the alpha a strategy *)
(* emits to the outcome that the tuner and the export read.  The table is  *)
(* written by capture_emit, called by the strategy runners, and by the     *)
(* periodic run_outcome_join; each is one SQL statement, so one step.  A   *)
(* call that fails, or that the process does not live to make, is a step   *)
(* that is not taken; one whose reply is lost has taken it.                *)
(***************************************************************************)
EXTENDS Integers, FiniteSets

CONSTANTS
  None,
  Alpha, Snapshot,   \* alphas, and what may be in their params_snapshot
  Trade, AlphaOf,    \* positions, and the alpha of the intent that opened each
  Pnl,               \* realised PnLs, None for NULL
  Day,               \* ticks of the clock in a day
  JoinDays,          \* how far back OUTCOME_JOIN_SQL looks
  MaxOutage,         \* bound: ticks from one outcome join to the next
  LastEmit,          \* bound: the last tick an alpha is emitted at
  LastClose,         \* bound: the last tick a position closes at
  MaxNow             \* bound: the last tick

ASSUME LearningAssumption ==
  /\ AlphaOf \in [Trade -> Alpha] /\ None \notin Trade
  /\ Pnl \subseteq Int \cup {None} /\ None \notin Int
  /\ Day \in Nat \ {0} /\ JoinDays \in Nat \ {0}
  /\ MaxOutage \in 1..(JoinDays * Day)
  /\ LastEmit \in Nat /\ LastClose \in Nat /\ MaxNow \in Nat

OutcomeKinds == {"win", "loss", "flat"}
EmitRecord == [emitted_at : Nat, params : Snapshot]
Close == [pnl : Pnl, closed_at : Nat]
Row == [emitted_at : Nat, params : Snapshot, created_at : Nat, updated_at : Nat,
        outcome : OutcomeKinds \cup {None}, position : Trade \cup {None},
        pnl : Pnl \cup {None}, closed_at : Nat \cup {None}]

\* Neither a row nor an outcome is a NULL.
ASSUME RowAssumption ==
  /\ None \notin EmitRecord /\ None \notin Close /\ None \notin Row
  /\ None \notin OutcomeKinds

VARIABLES
  now,
  emitted,    \* Alpha -> the EmitRecord of an alpha, None before it is emitted
  trades,     \* Trade -> its PnL and when it closed, None before that
  outcomes,   \* feature_outcomes: Alpha -> its row, None when it has none
  last_join   \* when the outcome join last ran

learningVars == <<now, emitted, trades, outcomes, last_join>>

LearningTypeOK ==
  /\ now \in Nat /\ last_join \in 0..now
  /\ emitted \in [Alpha -> EmitRecord \cup {None}]
  /\ trades \in [Trade -> Close \cup {None}]
  /\ outcomes \in [Alpha -> Row \cup {None}]

LearningInit ==
  /\ now = 0 /\ last_join = 0
  /\ emitted = [a \in Alpha |-> None]
  /\ trades = [t \in Trade |-> None]
  /\ outcomes = [a \in Alpha |-> None]

-----------------------------------------------------------------------------
(***************************************************************************)
(* The strategies and the trading stack.                                   *)
(***************************************************************************)
Emit(a, params) ==
  /\ emitted[a] = None /\ now <= LastEmit
  /\ emitted' = [emitted EXCEPT ![a] = [emitted_at |-> now, params |-> params]]
  /\ UNCHANGED <<now, trades, outcomes, last_join>>

CloseTrade(t, pnl) ==
  /\ trades[t] = None /\ emitted[AlphaOf[t]] # None /\ now <= LastClose
  /\ trades' = [trades EXCEPT ![t] = [pnl |-> pnl, closed_at |-> now]]
  /\ UNCHANGED <<now, emitted, outcomes, last_join>>

TimePasses ==
  /\ now < MaxNow /\ now - last_join < MaxOutage
  /\ now' = now + 1
  /\ UNCHANGED <<emitted, trades, outcomes, last_join>>

-----------------------------------------------------------------------------
(***************************************************************************)
(* Writers of the table.                                                   *)
(***************************************************************************)
NewRow(record) ==
  [emitted_at |-> record.emitted_at, params |-> record.params,
   created_at |-> now, updated_at |-> now,
   outcome |-> None, position |-> None, pnl |-> None, closed_at |-> None]

Inserted(a) == IF outcomes[a] = None THEN NewRow(emitted[a]) ELSE outcomes[a]

\* Called when the alpha is emitted, and again by a rerun of the pipeline.
capture_emit(a) ==
  /\ emitted[a] # None
  /\ outcomes' = [outcomes EXCEPT ![a] = Inserted(a)]
  /\ UNCHANGED <<now, emitted, trades, last_join>>

\* Mutant: the status of the position is taken for the result of the trade.
Mut_StatusAsOutcome(pnl) == "closed"

\* The CASE of OUTCOME_JOIN_SQL: NULL is neither above nor below zero.
Outcome(pnl) ==
  IF pnl = None THEN "flat" ELSE IF pnl > 0 THEN "win" ELSE IF pnl < 0 THEN "loss" ELSE "flat"

\* Mutant: the join looks back one day.
Mut_OneDay == {t \in Trade : trades[t] # None /\ trades[t].closed_at >= now - Day}

Joinable == {t \in Trade : trades[t] # None /\ trades[t].closed_at >= now - JoinDays * Day}

\* Mutant: no "outcome IS NULL OR outcome = 'open'".
Mut_Rejoins(a) == outcomes[a] # None

Open(a) == outcomes[a] # None /\ outcomes[a].outcome = None

\* The trades an open row may take its outcome from: when several match, UPDATE
\* ... FROM uses one of them, any one.
Matching(a) == IF Open(a) THEN {t \in Joinable : AlphaOf[t] = a} ELSE {}

Joined(a, t) ==
  [outcomes[a] EXCEPT !.outcome = Outcome(trades[t].pnl), !.position = t,
                      !.pnl = trades[t].pnl, !.closed_at = trades[t].closed_at,
                      !.updated_at = now]

run_outcome_join ==
  LET due == {a \in Alpha : Matching(a) # {}}
  IN /\ \E position \in [due -> Joinable] :
          /\ \A a \in due : position[a] \in Matching(a)
          /\ outcomes' = [a \in Alpha |-> IF a \in due THEN Joined(a, position[a])
                                          ELSE outcomes[a]]
     /\ last_join' = now
     /\ UNCHANGED <<now, emitted, trades>>

LearningNext ==
  \/ \E a \in Alpha, params \in Snapshot : Emit(a, params)
  \/ \E t \in Trade, pnl \in Pnl : CloseTrade(t, pnl)
  \/ TimePasses
  \/ \E a \in Alpha : capture_emit(a)
  \/ run_outcome_join

LearningSpec == LearningInit /\ [][LearningNext]_learningVars

-----------------------------------------------------------------------------
(***************************************************************************)
(* The reader.  "strategy" is the set of its alphas.  What it returns is a *)
(* sequence of alphas, newest first; those emitted together come in any    *)
(* order, and LIMIT cuts the end off.                                      *)
(***************************************************************************)
ClosedWithin(strategy, days) ==
  {a \in strategy : /\ outcomes[a] # None /\ outcomes[a].outcome \in OutcomeKinds
                    /\ outcomes[a].closed_at >= now - days * Day}

fetch_recent_closed(strategy, limit, days) ==
  LET closed   == ClosedWithin(strategy, days)
      n        == Cardinality(closed)
      newest   == {s \in [1..n -> closed] :
                     \A i, j \in 1..n :
                       i < j => /\ s[i] # s[j]
                                /\ outcomes[s[j]].emitted_at <= outcomes[s[i]].emitted_at}
      returned == IF n < limit THEN n ELSE limit
  IN {[i \in 1..returned |-> s[i]] : s \in newest}

-----------------------------------------------------------------------------
(***************************************************************************)
(* Properties.                                                             *)
(***************************************************************************)
\* feature_outcomes keeps the promise of OutcomeLedger: through replayed
\* captures, joins that overlap and alphas with several positions, a row is
\* inserted once and its outcome taken once, from a closed position of its alpha.
Entry(a) ==
  IF outcomes[a] = None THEN "absent"
  ELSE IF outcomes[a].position = None THEN "awaiting" ELSE outcomes[a].position
Ledger ==
  INSTANCE OutcomeLedger WITH
    Absent <- "absent", Awaiting <- "awaiting",
    ledger <- [a \in Alpha |-> Entry(a)],
    closed <- {t \in Trade : trades[t] # None}
LedgerIsKept == Ledger!Spec

\* No row awaits an outcome unnoticed: an open row whose position has closed has
\* not met a join since, or else it was captured so late that an outage of the
\* join could outlast the days OUTCOME_JOIN_SQL looks back.
NothingLeftOpen ==
  \A t \in {u \in Trade : trades[u] # None} :
    LET row == outcomes[AlphaOf[t]]
    IN row # None /\ row.outcome = None =>
         \/ last_join <= trades[t].closed_at \/ last_join <= row.created_at
         \/ row.created_at > trades[t].closed_at + JoinDays * Day - MaxOutage
=============================================================================
