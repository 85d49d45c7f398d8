---------------------------- MODULE MCTuneParam -----------------------------
(***************************************************************************)
(* Feeds tune_param every history of up to MaxClosed trades, growing one   *)
(* trade at a time, with every current value.  The range is ten units,     *)
(* five bins of two, and the largest step one unit, as in TUNABLE_PARAMS.  *)
(***************************************************************************)
EXTENDS TuneParam

CONSTANTS MaxClosed, MinSamples, Ats, Pnls, Currents

ASSUME MCTuneParamAssumption ==
  Ats \subseteq Int \cup {None} /\ Pnls \subseteq Int /\ Currents \subseteq Int

Tenths   == [bound_min |-> 0, bound_max |-> 10, default |-> 4, n_bins |-> 5,
             max_step_pct |-> 10]
SomeAts  == {1, 6, 10, None}
SomePnls == {-1, 1, 2}
AnyValue == {-2, 0, 4, 5, 9, 10, 12}

VARIABLES closed, current
vars == <<closed, current>>

Init == closed = <<>> /\ current \in Currents

\* A trade closes; the newest comes first.
Close(at, pnl) ==
  /\ Len(closed) < MaxClosed
  /\ closed' = <<[at |-> at, pnl |-> pnl]>> \o closed
  /\ UNCHANGED current

Next == \E at \in Ats, pnl \in Pnls : Close(at, pnl)

Spec == Init /\ [][Next]_vars

Proposals == tune_param(Tenths, current, closed, MinSamples)

-----------------------------------------------------------------------------
\* The bins of the highest Sharpe, from the trades between the edges of each.
Score(b) ==
  LET last == IF b = 4 THEN 10 ELSE 2 * b + 1
  IN sharpe_proxy([i \in {j \in DOMAIN closed : closed[j].at \in (2 * b)..last}
                     |-> closed[i].pnl])

Leaders ==
  {b \in 0..4 : /\ Score(b) # None
                /\ \A c \in 0..4 : Score(c) = None \/ ~Less(Score(b), Score(c))}

\* The same trades as the query may return them at the next cycle: it orders by
\* the time of emission alone, so that two emitted together may change places.
Swapped(i) == [closed EXCEPT ![i] = closed[i + 1], ![i + 1] = closed[i]]

\* The order in which trades are fetched decides between bins with the same
\* Sharpe and nothing else: as long as one bin is the best, the same trades lead
\* to the same value, so that a parameter cannot wander on old evidence
\* (by_bin and best_bin in tune_param, ORDER BY in fetch_recent_closed).
OrderOnlyBreaksTies ==
  Cardinality(Leaders) <= 1 =>
    \A i \in 1..(Len(closed) - 1) :
      tune_param(Tenths, current, Swapped(i), MinSamples) = Proposals

\* Whenever tune_param moves a value, even one that started out of range, it
\* moves it into the bounds; towards the centre of a bin in which some trade was
\* emitted, without passing it; and from inside the bounds by MaxStep at most.
MovesTowardsEvidence ==
  \A new \in Proposals \ {current} :
    /\ InBounds(new, Tenths)
    /\ InBounds(current, Tenths) => Magnitude(new - current) <= MaxStep(Tenths)
    /\ \E i \in DOMAIN closed :
         LET at == closed[i].at
         IN /\ at # None /\ InBounds(at, Tenths)
            /\ \E c \in {1, 3, 5, 7, 9} :
                 /\ Magnitude(at - c) <= 1
                 /\ InBounds(current, Tenths) =>
                      \/ current < new /\ new <= c
                      \/ c <= new /\ new < current
=============================================================================
