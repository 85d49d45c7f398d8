---------------------------- MODULE HaltPromise -----------------------------
(***************************************************************************)
(* What the trading stack may rely on when it reads strategy:halts: a slug *)
(* enters the set only while it stands accused, that is while it met the   *)
(* documented criteria at the last look a loop took at the trades, and     *)
(* only when enforcement is on; it leaves the set only by the operator's   *)
(* hand.  Nothing else, no failure and no restart, changes the set.        *)
(***************************************************************************)
CONSTANTS Slug, EnforceHalts

VARIABLES halted, accused
vars == <<halted, accused>>

Init == halted = {} /\ accused = {}

\* A loop looks at the trades, or forgets what it saw.
Judge == accused' \in SUBSET Slug /\ UNCHANGED halted

Halt(s) ==
  /\ EnforceHalts
  /\ s \in accused
  /\ halted' = halted \cup {s}
  /\ UNCHANGED accused

Release(s) ==
  /\ halted' = halted \ {s}
  /\ UNCHANGED accused

Next == Judge \/ \E s \in Slug : Halt(s) \/ Release(s)

Spec == Init /\ [][Next]_vars
=============================================================================
