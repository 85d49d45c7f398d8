------------------------------- MODULE Sharpe -------------------------------
(***************************************************************************)
(* The pure rules of src/research_loop/sharpe.py: the Sharpe proxy of a    *)
(* list of trades, the decision to halt a strategy and the badge shown     *)
(* next to it.  A list of PnLs is a function with a finite domain (a       *)
(* sequence, or a map from positions), since no rule looks at the order.   *)
(*                                                                         *)
(* Floats are exact here: a Sharpe value x is kept as x * |x|, a fraction  *)
(* of integers with a positive denominator.  x |-> x * |x| is strictly     *)
(* increasing, so comparing two Sharpe values, or one with a threshold, is *)
(* comparing those fractions, and no square root is needed.                *)
(***************************************************************************)
EXTENDS Integers, FiniteSets, FiniteSetsExt

CONSTANT None   \* Python's None and SQL's NULL

\* None is neither a number nor a Sharpe.
ASSUME SharpeAssumption == None \notin Int /\ None \notin [num : Int, den : Int]

Size(pnls)    == Cardinality(DOMAIN pnls)
Total(pnls)   == MapThenSumSet(LAMBDA i : pnls[i], DOMAIN pnls)
Squares(pnls) == MapThenSumSet(LAMBDA i : pnls[i] * pnls[i], DOMAIN pnls)

\* n * (n - 1) times the sample variance: zero iff statistics.stdev is zero.
Spread(pnls) == Size(pnls) * Squares(pnls) - Total(pnls) * Total(pnls)

Fraction(p, q) == [num |-> p, den |-> q]
Less(x, y)     == x.num * y.den < y.num * x.den

Magnitude(i) == IF i < 0 THEN -i ELSE i

\* Mutant: the square without the sign.
Mut_SignLost(pnls) ==
  IF Size(pnls) < 2 \/ Spread(pnls) <= 0
  THEN None
  ELSE Fraction(Total(pnls) * Total(pnls) * (Size(pnls) - 1), Size(pnls) * Spread(pnls))

\* mean / stdev as its signed square; None for fewer than two trades or when
\* every trade has the same PnL.
sharpe_proxy(pnls) ==
  IF Size(pnls) < 2 \/ Spread(pnls) <= 0
  THEN None
  ELSE Fraction(Total(pnls) * Magnitude(Total(pnls)) * (Size(pnls) - 1),
                Size(pnls) * Spread(pnls))

\* One row of db.fetch_strategy_stats.  Trades with a NULL PnL count as closed,
\* add nothing to the total and are left out of the Sharpe proxy.
strategy_stats(pnls, days) ==
  LET known == {i \in DOMAIN pnls : pnls[i] # None}
      scored == [i \in known |-> pnls[i]]
  IN [n_closed      |-> Size(pnls),
      total_pnl_usd |-> Total(scored),
      sharpe        |-> sharpe_proxy(scored),
      days_observed |-> days]

-----------------------------------------------------------------------------
(***************************************************************************)
(* should_halt.  The rules are tried in order and the first that matches   *)
(* names the reason; two of the reasons halt.  "rules" holds the settings  *)
(* the caller passes.                                                      *)
(***************************************************************************)
HaltingReasons == {"catastrophic_loss", "sharpe_below_threshold"}

\* Mutant: a sample that is too small is reported before the catastrophic loss.
Mut_SampleSizeFirst(stats, rules) ==
  IF stats.n_closed < rules.min_n_closed THEN "insufficient_sample"
  ELSE IF stats.total_pnl_usd <= rules.catastrophic_pnl_floor_usd
  THEN "catastrophic_loss"
  ELSE IF stats.days_observed < rules.min_days_observed THEN "insufficient_days"
  ELSE IF stats.sharpe = None THEN "sharpe_unavailable"
  ELSE IF Less(stats.sharpe, rules.sharpe_threshold) THEN "sharpe_below_threshold"
  ELSE "healthy"

\* Mutant: the sample-size test is the wrong way round.
Mut_SampleSizeSwapped(stats, rules) ==
  IF stats.total_pnl_usd <= rules.catastrophic_pnl_floor_usd
  THEN "catastrophic_loss"
  ELSE IF stats.n_closed > rules.min_n_closed THEN "insufficient_sample"
  ELSE IF stats.days_observed < rules.min_days_observed THEN "insufficient_days"
  ELSE IF stats.sharpe = None THEN "sharpe_unavailable"
  ELSE IF Less(stats.sharpe, rules.sharpe_threshold) THEN "sharpe_below_threshold"
  ELSE "healthy"

\* Mutant: the badge's bar of 0.3 used as the halt threshold.
Mut_BadgeBarAsThreshold(stats, rules) ==
  IF stats.total_pnl_usd <= rules.catastrophic_pnl_floor_usd
  THEN "catastrophic_loss"
  ELSE IF stats.n_closed < rules.min_n_closed THEN "insufficient_sample"
  ELSE IF stats.days_observed < rules.min_days_observed THEN "insufficient_days"
  ELSE IF stats.sharpe = None THEN "sharpe_unavailable"
  ELSE IF Less(stats.sharpe, Fraction(9, 100)) THEN "sharpe_below_threshold"
  ELSE "healthy"

should_halt(stats, rules) ==
  IF stats.total_pnl_usd <= rules.catastrophic_pnl_floor_usd
  THEN "catastrophic_loss"
  ELSE IF stats.n_closed < rules.min_n_closed THEN "insufficient_sample"
  ELSE IF stats.days_observed < rules.min_days_observed THEN "insufficient_days"
  ELSE IF stats.sharpe = None THEN "sharpe_unavailable"
  ELSE IF Less(stats.sharpe, rules.sharpe_threshold) THEN "sharpe_below_threshold"
  ELSE "healthy"

\* The label of the report line; 0.3 is 9/100 as a signed square.
health_badge(stats) ==
  IF stats.n_closed < 5 THEN "small-N"
  ELSE IF /\ stats.total_pnl_usd > 0
          /\ stats.sharpe # None
          /\ ~Less(stats.sharpe, Fraction(9, 100))
  THEN "healthy"
  ELSE IF stats.total_pnl_usd >= 0 THEN "mixed"
  ELSE "bleed"

-----------------------------------------------------------------------------
(***************************************************************************)
(* What the README (Halt criteria) promises, as a condition rather than a  *)
(* list of early returns: a strategy is halted for a catastrophic loss, or *)
(* for a Sharpe below the threshold measured on enough trades and days.    *)
(***************************************************************************)
MeetsHaltCriteria(stats, rules) ==
  \/ stats.total_pnl_usd <= rules.catastrophic_pnl_floor_usd
  \/ /\ ~(stats.n_closed < rules.min_n_closed)
     /\ ~(stats.days_observed < rules.min_days_observed)
     /\ stats.sharpe # None
     /\ Less(stats.sharpe, rules.sharpe_threshold)
=============================================================================
