-------------------------- MODULE MCTrainingExport ---------------------------
(***************************************************************************)
(* Small worlds for TrainingExport: an alpha with two positions and one    *)
(* with a single position, both of one strategy.                           *)
(***************************************************************************)
EXTENDS TrainingExport

AlphaOfTrade == [t \in Trade |-> IF t = "t3" THEN "a2" ELSE "a1"]
OneStrategy  == [a \in Alpha |-> "s"]
=============================================================================
