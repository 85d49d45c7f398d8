------------------------------ MODULE MCSharpe ------------------------------
(***************************************************************************)
(* Feeds the rules of Sharpe every track record of up to MaxTrades closed  *)
(* trades with PnLs from Pnls (None is a trade whose realised PnL is NULL),*)
(* growing one trade or one day at a time, as a record grows between two   *)
(* evaluations inside one measurement window.                              *)
(***************************************************************************)
EXTENDS Sharpe, Sequences

CONSTANTS Pnls, MaxTrades, MaxDays, MinNClosed, MinDays, CatastrophicFloor

ASSUME MCSharpeAssumption ==
  /\ Pnls \subseteq Int \cup {None}
  /\ MaxDays \in Nat
  /\ MinNClosed \in Nat /\ MinDays \in Nat /\ CatastrophicFloor \in Int

\* Values a .cfg cannot write.
MixedPnls == {-3, -1, 0, 2, None}
FloorOf8  == -8

VARIABLES pnls, days
vars == <<pnls, days>>

\* The default thresholds of settings.py, scaled to short records.
Rules == [min_n_closed               |-> MinNClosed,
          min_days_observed          |-> MinDays,
          sharpe_threshold           |-> Fraction(0, 1),
          catastrophic_pnl_floor_usd |-> CatastrophicFloor]

Stats  == strategy_stats(pnls, days)
Halted == should_halt(Stats, Rules) \in HaltingReasons

Init == pnls = <<>> /\ days = 0

CloseTrade(pnl) ==
  /\ Len(pnls) < MaxTrades
  /\ pnls' = Append(pnls, pnl)
  /\ UNCHANGED days

DayPasses ==
  /\ days < MaxDays
  /\ days' = days + 1
  /\ UNCHANGED pnls

Next == DayPasses \/ \E pnl \in Pnls : CloseTrade(pnl)

Spec == Init /\ [][Next]_vars

-----------------------------------------------------------------------------
\* The chain of early returns of should_halt halts exactly the records that
\* meet the README's criteria: no rule shadows another.
HaltsExactlyByCriteria == Halted <=> MeetsHaltCriteria(Stats, Rules)

\* One more losing trade, or one more day, never talks should_halt out of a
\* halt: the sample only grows, the total only falls, and a negative mean stays
\* negative however much the loss widens the spread.
LossNeverRescues ==
  [][Halted /\ (pnls' = pnls \/ \E loss \in Pnls \ {None} :
                  loss < 0 /\ pnls' = Append(pnls, loss)) => Halted']_vars

\* The badge and the verdict are computed from different columns (the total
\* over all trades, the Sharpe over the known ones), yet a strategy the rules
\* halt is never shown as healthy or mixed.
BadgeAgreesWithVerdict == Halted => health_badge(Stats) \in {"small-N", "bleed"}

\* README.md, Halt criteria: once there are enough trades and days, a strategy
\* with "sharpe < 0 (losing money on average)" is halted.  So it is, and no other
\* is, but for one case: equal losses have no spread and so no Sharpe, and such a
\* strategy runs on until it reaches the catastrophic floor (sharpe_proxy).
Known  == {i \in DOMAIN pnls : pnls[i] # None}
Varied == \E i, j \in Known : pnls[i] # pnls[j]
HaltsTheLosers ==
  Len(pnls) >= MinNClosed /\ days >= MinDays =>
    LET total == Stats.total_pnl_usd
    IN Halted <=> \/ total <= CatastrophicFloor
                  \/ total < 0 /\ Varied
=============================================================================
