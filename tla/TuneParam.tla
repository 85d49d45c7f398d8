----------------------------- MODULE TuneParam ------------------------------
(***************************************************************************)
(* The pure decision of src/research_loop/auto_tuner.py: given the closed  *)
(* trades of a strategy, each with the value a parameter had when it was   *)
(* emitted, the next value of that parameter.                              *)
(*                                                                         *)
(* Values are integers, in a unit fine enough for the bin width, half of   *)
(* it and the largest step to be whole.  "bounds" is a ParamBounds:        *)
(* bound_min, bound_max, default, n_bins and max_step_pct (in percent).    *)
(* "closed" is a sequence, newest first, of records with the parameter's   *)
(* value at emit, "at" (None when the snapshot has no number under that    *)
(* name), and the realised "pnl".                                          *)
(***************************************************************************)
EXTENDS Sharpe, Sequences

Width(bounds) == bounds.bound_max - bounds.bound_min
MaxStep(bounds) == (Width(bounds) * bounds.max_step_pct) \div 100
InBounds(value, bounds) == value \in bounds.bound_min..bounds.bound_max

Bins(bounds) == 0..(bounds.n_bins - 1)

\* _bin_centers: the midpoint of a bin.
Center(bin, bounds) ==
  bounds.bound_min + ((2 * bin + 1) * Width(bounds)) \div (2 * bounds.n_bins)

\* The bin of a value; None when it is missing or out of range.
_value_to_bin(value, bounds) ==
  IF value = None \/ ~InBounds(value, bounds) \/ Width(bounds) <= 0
  THEN None
  ELSE Min({((value - bounds.bound_min) * bounds.n_bins) \div Width(bounds),
            bounds.n_bins - 1})

-----------------------------------------------------------------------------
(***************************************************************************)
(* The evidence: the bins that can be scored and the best of them.         *)
(***************************************************************************)
\* Mutant: the trades are grouped by runs, as itertools.groupby does, and the
\* last run of a bin replaces the ones before it.
Mut_LastRun(bin, bounds, closed) ==
  LET binOf(i) == _value_to_bin(closed[i].at, bounds)
      runs    == {i \in DOMAIN closed : binOf(i) = bin}
  IN {i \in runs : \A j \in runs : \A k \in i..j : binOf(k) = bin}

InBin(bin, bounds, closed) ==
  {i \in DOMAIN closed : _value_to_bin(closed[i].at, bounds) = bin}

BinSharpe(bin, bounds, closed) ==
  sharpe_proxy([i \in InBin(bin, bounds, closed) |-> closed[i].pnl])

ScoredBins(bounds, closed) == {b \in Bins(bounds) : BinSharpe(b, bounds, closed) # None}

\* Python's max over a dict: the highest Sharpe and, among equals, the bin met
\* first.  A set with one element, or none when no bin has a Sharpe.
BestBins(bounds, closed) ==
  LET score(b)    == BinSharpe(b, bounds, closed)
      first(b)    == Min(InBin(b, bounds, closed))
      beats(c, b) == \/ Less(score(b), score(c))
                     \/ ~Less(score(c), score(b)) /\ first(c) < first(b)
  IN {b \in ScoredBins(bounds, closed) :
       \A c \in ScoredBins(bounds, closed) : ~beats(c, b)}

-----------------------------------------------------------------------------
(***************************************************************************)
(* The nudge: towards the centre of the best bin, by at most MaxStep, and  *)
(* back into the bounds.                                                   *)
(***************************************************************************)
Clamp(value, bounds) ==
  IF value < bounds.bound_min THEN bounds.bound_min
  ELSE IF value > bounds.bound_max THEN bounds.bound_max
  ELSE value

\* Mutant: straight to the target, without min(|raw_delta|, max_step).
Mut_NotCapped(current, target, bounds) == target - current

\* Mutant: the difference is taken the wrong way round.
Mut_AwayFromTarget(current, target, bounds) ==
  IF target > current THEN -MaxStep(bounds)
  ELSE IF target < current THEN MaxStep(bounds) ELSE 0

Capped(current, target, bounds) ==
  IF Magnitude(target - current) <= MaxStep(bounds) THEN target - current
  ELSE IF target > current THEN MaxStep(bounds)
  ELSE -MaxStep(bounds)

\* Mutant: no clamp.
Mut_NotClamped(current, target, bounds) == current + Capped(current, target, bounds)

Nudged(current, target, bounds) ==
  Clamp(current + Capped(current, target, bounds), bounds)

\* tune_param's proposed value, as a set with one element.  Too few trades, none
\* in range or no bin with a Sharpe: the current value, as it is.
tune_param(bounds, current, closed, min_samples) ==
  IF Len(closed) < min_samples \/ BestBins(bounds, closed) = {}
  THEN {current}
  ELSE {Nudged(current, Center(b, bounds), bounds) : b \in BestBins(bounds, closed)}
=============================================================================
