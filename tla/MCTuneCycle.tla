----------------------------- MODULE MCTuneCycle -----------------------------
(***************************************************************************)
(* ParamTuning with the registry as it was when the current cycle began,   *)
(* and what a comment says of a cycle.                                     *)
(***************************************************************************)
EXTENDS MCParamTuning

VARIABLE at_start

CycleInit == Init /\ at_start = params

CycleNext ==
  /\ Next
  /\ at_start' = IF phase' = "fetch" /\ turn' = 1 THEN params' ELSE at_start

CycleSpec == CycleInit /\ [][CycleNext]_<<vars, at_start>>

InForce(value, p) == IF value = None THEN Bounds[p].default ELSE value

\* auto_tuner_runtime.py, Safety: "max_step_pct=0.10 -> no parameter moves more
\* than 10% of range per cycle".
NoBigMovePerCycle ==
  \A p \in Param :
    Magnitude(InForce(params[p], p) - InForce(at_start[p], p)) <= MaxStep(Bounds[p])
=============================================================================
