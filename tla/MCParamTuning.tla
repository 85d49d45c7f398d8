---------------------------- MODULE MCParamTuning ----------------------------
(***************************************************************************)
(* Small worlds for ParamTuning.  "upper" has the shape of yes_upper: five *)
(* bins, a step of half a bin, the default in the middle.  "volume" has    *)
(* that of min_volume: its default is not a whole number of steps from any *)
(* centre, so that the last nudge is shorter than a step, or too short to  *)
(* be written.                                                             *)
(***************************************************************************)
EXTENDS ParamTuning

BoundsOfParam ==
  [p \in Param |->
     IF p = "upper"
     THEN [bound_min |-> 0, bound_max |-> 20, default |-> 10, n_bins |-> 5,
           max_step_pct |-> 10]
     ELSE [bound_min |-> 0, bound_max |-> 20, default |-> 5, n_bins |-> 5,
           max_step_pct |-> 10]]

OneStrategy == <<<<"upper", "volume">>>>

Trade(upper, volume, pnl) ==
  [at |-> [p \in Param |-> IF p = "upper" THEN upper ELSE volume], pnl |-> pnl]

\* High values of both parameters win; or low values of the first do, and there
\* is no snapshot of the second to learn from.
HighWins == <<Trade(18, 14, 3), Trade(16, 13, 1), Trade(4, 2, -1), Trade(6, 3, 1)>>
LowWins  == <<Trade(6, None, 3), Trade(4, None, 1), Trade(18, None, -1), Trade(18, None, 1)>>

Shifting == {HighWins, LowWins}

\* The same trades in several orders: by PnL, the other way round, and mixed.
Reordered(order) == [i \in 1..4 |-> HighWins[order[i]]]
Steady == {HighWins, Reordered(<<4, 3, 2, 1>>), Reordered(<<1, 3, 2, 4>>)}

\* An operator sets a value in range, out of range, or one that is no number.
ByHand == {0, 25, Malformed}
Nobody == {}

\* The operator's edits are over, wherever they left the registry.
AfterEdits ==
  /\ params \in [Param -> {0, 4, 9, 25, None, Malformed}]
  /\ audit = <<>> /\ phase = "fetch" /\ turn = 1 /\ next = 1 /\ rows = <<>>
  /\ current = None /\ proposed = None /\ blind = FALSE /\ restarts = 0
  /\ unaudited = {p \in Param : params[p] # None}
SettlingSpec == AfterEdits /\ [][Next]_vars /\ Fairness
=============================================================================
