---------------------------- MODULE MCClosedLoop -----------------------------
(***************************************************************************)
(* A small world for ClosedLoop: one parameter with the shape of yes_upper *)
(* (five bins, a step of half a bin, the default in the middle), two open  *)
(* alphas from a time when it was in the lowest bin, and two to come.     *)
(* The slug is in the opted-in list twice: it is tuned twice in a cycle.   *)
(***************************************************************************)
EXTENDS ClosedLoop

Upper == [p \in Param |-> [bound_min |-> 0, bound_max |-> 10, default |-> 5,
                           n_bins |-> 5, max_step_pct |-> 10]]
TwicePerCycle == <<<<"upper">>, <<"upper">>>>
AllAlphas     == [turn_ \in 1..2 |-> Alpha]
AlphaOfTrade  == [t \in Trade |-> t]
OnceAtOne    == [a \in Alpha |-> IF a \in {"h1", "h2"} THEN [p \in Param |-> 1] ELSE None]
AnyRows       == UNION {[1..n -> [at : [Param -> 0..10], pnl : {0, 3}]] : n \in 0..ClosedLimit}
Nobody        == {}
=============================================================================
