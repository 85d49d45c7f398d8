------------------------------ MODULE MCHalting ------------------------------
(***************************************************************************)
(* Small worlds for Halting.  A day is one unit of age and the window one  *)
(* day, so that closes leave the window and a position may be older than   *)
(* it.  A row of positions is named by its slug, its venue and a number.   *)
(***************************************************************************)
EXTENDS Halting

OneStrategy   == {<<"alpha", "poly", 1>>, <<"alpha", "poly", 2>>}
TwoVenues     == {<<"alpha", "poly", 1>>, <<"alpha", "perp", 1>>}
TwoStrategies == {<<"alpha", "poly", 1>>, <<"beta", "poly", 1>>}

SlugOfSlot  == [p \in Slot |-> p[1]]
VenueOfSlot == [p \in Slot |-> p[2]]

BothVenues == <<"poly", "perp">>
OnlyPoly   == <<"poly">>

\* One bad loss reaches the catastrophic floor; a win after it lifts the total
\* above the floor and leaves the case to the Sharpe rule.
BadLossOrWin == {-6, 1}
FastFloor    == -4
BadLoss      == {-6}

ScaledRules == [min_n_closed               |-> 2,
                min_days_observed          |-> 1,
                sharpe_threshold           |-> Fraction(0, 1),
                catastrophic_pnl_floor_usd |-> -6]

-----------------------------------------------------------------------------
\* halt_fast.py: when a venue trips, "HALT every strategy currently active on
\* that venue", the strategies that hold a position there included.
ActiveOn(venue) == {SlugOf[p] : p \in {q \in Slot : /\ positions[q].status = "open"
                                                    /\ VenueOf[q] = venue}}
TripHaltsEveryActive ==
  [][fast_todo = {} /\ fast_todo' # {} => ActiveOn(VenueToCheck) \subseteq fast_todo']_vars
=============================================================================
